----------------------------- MODULE HashProofs -----------------------------
(***************************************************************************)
(* The streaming hashes: each gives the value its standard defines for the *)
(* message it was fed, however the message was cut into updates, for every *)
(* size of block, of word and of digest.  And Argon2: for every memory,    *)
(* number of lanes and passes, width of a word and pseudo-random value, it *)
(* makes each block from two that are finished and writes each block once  *)
(* in every pass.                                                          *)
(*                                                                         *)
(* Each proof has one inductive invariant: how many whole blocks of the    *)
(* message are hashed already, that they are those blocks, and that what   *)
(* waits in the buffer is what follows them.  The value is defined from    *)
(* the length of the message alone, so this is what relates the two.  The  *)
(* digest, once given, depends on nothing that later calls change.         *)
(* The invariant of Argon2 says how often each block has been written.     *)
(***************************************************************************)
EXTENDS StreamBytes, Hashes, TLAPS

-----------------------------------------------------------------------------
(* Arithmetic of blocks.                                                   *)
LEMMA Whole ==
    ASSUME NEW B \in Nat, NEW a \in Int, NEW b \in Int
    PROVE  /\ a * B \in Int /\ b * B \in Int
           /\ a < b => a * B + B <= b * B
           /\ (a + 1) * B = a * B + B
<1>1. a * B \in Int /\ b * B \in Int /\ (a + 1) * B = a * B + B
  OBVIOUS
<1>2. ASSUME a < b PROVE a * B + B <= b * B
  <2>1. PICK e \in Nat : b = a + 1 + e
    <3>1. b - a - 1 \in Nat /\ b = a + 1 + (b - a - 1)
      BY <1>2
    <3> QED BY <3>1
  <2>2. b * B = a * B + B + e * B /\ e * B \in Nat
    BY <2>1
  <2> QED BY <2>2, <1>1
<1> QED BY <1>1, <1>2

LEMMA DivIs ==
    ASSUME NEW B \in Nat \ {0}, NEW n \in Int, NEW r \in 0 .. (B - 1)
    PROVE  (n * B + r) \div B = n /\ (n * B + r) % B = r
  OBVIOUS

(* The sequences made here are written as functions of the position.       *)
LEMMA Appended ==
    ASSUME NEW n \in Nat, NEW f, f = [k \in 1 .. n |-> f[k]], NEW e
    PROVE  /\ f \in Seq({f[k] : k \in 1 .. n}) /\ Len(f) = n 
           /\ Append(f, e) = [k \in 1 .. (n + 1) |-> IF k = n + 1 THEN e ELSE f[k]]
<1> DEFINE S == {f[k] : k \in 1 .. n}
<1>1. f \in [1 .. n -> S]
  OBVIOUS
<1>2. f \in Seq(S)
  BY <1>1
<1>3. Len(f) = n
  BY <1>1
<1> HIDE DEF S
<1>4. Append(f, e) = [k \in 1 .. (n + 1) |-> IF k = n + 1 THEN e ELSE f[k]]
  <2>1. f \in Seq(S \cup {e}) /\ e \in S \cup {e}
    BY <1>1
  <2> QED BY <2>1, <1>3
<1> QED BY <1>2, <1>3, <1>4 DEF S

IsBuffer(b, size) == b = [i \in 0 .. (size - 1) |-> b[i]]

(* The first n bytes of a buffer are those of the input after the off-th.  *)
HoldsInput(b, n, off) == \A i \in 0 .. (n - 1) : b[i] = In(off + 1 + i)

(* What memcpy() of the next bytes of the input makes of a buffer.         *)
LEMMA CopyExtends ==
    ASSUME NEW B \in Nat, NEW lo \in 0 .. B, NEW n \in Nat, lo + n <= B, NEW old, NEW off \in Int, NEW from \in Int,
           IsBuffer(old, B), from = off + 1 + lo, HoldsInput(old, lo, off)
    PROVE  /\ IsBuffer(Copy(old, lo, from, n), B)
           /\ HoldsInput(Copy(old, lo, from, n), lo + n, off)
<1> DEFINE new == Copy(old, lo, from, n)
<1>1. DOMAIN old = 0 .. (B - 1)
  BY DEF IsBuffer
<1>2. new = [i \in 0 .. (B - 1) |-> IF i \in lo .. (lo + n - 1) THEN In(from + i - lo) ELSE old[i]]
  BY <1>1 DEF Copy
<1> HIDE DEF new
<1>3. IsBuffer(new, B)
  BY <1>2 DEF IsBuffer
<1>4. ASSUME NEW i \in 0 .. (lo + n - 1) PROVE new[i] = In(off + 1 + i)
  <2>1. i \in 0 .. (B - 1)
    OBVIOUS
  <2>2. CASE i < lo
    <3>1. ~(i \in lo .. (lo + n - 1)) /\ i \in 0 .. (lo - 1)
      BY <2>2
    <3> QED BY <1>2, <2>1, <3>1 DEF HoldsInput
  <2>3. CASE i >= lo
    <3>1. i \in lo .. (lo + n - 1) /\ from + i - lo = off + 1 + i
      BY <2>3
    <3> QED BY <1>2, <2>1, <3>1
  <2> QED BY <2>1, <2>2, <2>3
<1> QED BY <1>3, <1>4 DEF new, HoldsInput

(* A whole buffer of input is the block of the input itself.               *)
LEMMA BufferIsBlock ==
    ASSUME NEW B \in Nat, NEW b, NEW off \in Int, IsBuffer(b, B), HoldsInput(b, B, off)
    PROVE  b = InBlock(off + 1, B)
<1>1. \A i \in 0 .. (B - 1) : b[i] = In(off + 1 + i)
  BY DEF HoldsInput
<1>2. b = [i \in 0 .. (B - 1) |-> b[i]]
  BY DEF IsBuffer
<1>3. [i \in 0 .. (B - 1) |-> b[i]] = [i \in 0 .. (B - 1) |-> In(off + 1 + i)]
  BY <1>1
<1> QED BY <1>2, <1>3 DEF InBlock

-----------------------------------------------------------------------------
(* Poly1305                                                                *)

LEMMA PolyBytes ==
    ASSUME NEW b, NEW l, NEW f, NEW n
    PROVE  /\ Poly!Copy(b, l, f, n) = Copy(b, l, f, n)
           /\ Poly!InBlock(f, n) = InBlock(f, n)
           /\ Poly!In(n) = In(n)
  BY DEF Poly!Copy, Copy, Poly!In, In, Poly!InBlock, InBlock

PolyState(h, b, l, f) == [h |-> h, buf |-> b, leftover |-> l, final |-> f]

Block1305(m, k) == [block |-> InBlock(m + (k - 1) * Poly1305Block + 1, Poly1305Block), hibit |-> TRUE]

(* The first n blocks of a message that follows m bytes.                   *)
PolyHashed(m, n) == [k \in 1 .. n |-> Block1305(m, k)]

(* n blocks are hashed and `left' bytes buffered.                          *)
PolyAt(st, m, n, left) ==
    st.h = PolyHashed(m, n) /\ HoldsInput(st.buf, left, m + n * Poly1305Block)

PolyShape(st) ==
    /\ st = PolyState(st.h, st.buf, st.leftover, st.final) /\ st.final = FALSE
    /\ IsBuffer(st.buf, Poly1305Block)
    /\ st.leftover \in 0 .. (Poly1305Block - 1)

PolyCounts(left, t, b, f) ==
    f \in 0 .. MaxIn /\ b \in 0 .. f /\ t \in 0 .. f /\ (t > 0 => left = 0)

PolyMidway(st, t, b, f, n) ==
    f = b + n * Poly1305Block + st.leftover + t /\ PolyAt(st, b, n, st.leftover)

PolyInv ==
    /\ PolyShape(s)
    /\ PolyCounts(s.leftover, todo, before, fed)
    /\ out = <<>> => \E n \in Nat : PolyMidway(s, todo, before, fed, n)
    /\ out # <<>> => todo = 0
    /\ Poly!AuthenticatesTheMessage

LEMMA PolyFields ==
    ASSUME NEW st, NEW h, NEW b, NEW l, NEW f, st = PolyState(h, b, l, f)
    PROVE  st.h = h /\ st.buf = b /\ st.leftover = l /\ st.final = f
  BY DEF PolyState

WithH(st, x)       == [st EXCEPT !.h = x]
WithLeft(st, x)    == [st EXCEPT !.leftover = x]
WithBuf(st, x, y)  == [st EXCEPT !.buf = x, !.leftover = y]

LEMMA PolySetH ==
    ASSUME NEW st, NEW h, NEW b, NEW l, NEW f, st = PolyState(h, b, l, f), NEW x
    PROVE  WithH(st, x) = PolyState(x, b, l, f)
<1>1. [PolyState(h, b, l, f) EXCEPT !.h = x] = PolyState(x, b, l, f)
  BY DEF PolyState
<1> QED BY <1>1 DEF WithH

LEMMA PolySetLeft ==
    ASSUME NEW st, NEW h, NEW b, NEW l, NEW f, st = PolyState(h, b, l, f), NEW x
    PROVE  WithLeft(st, x) = PolyState(h, b, x, f)
<1>1. [PolyState(h, b, l, f) EXCEPT !.leftover = x] = PolyState(h, b, x, f)
  BY DEF PolyState
<1> QED BY <1>1 DEF WithLeft

WithFinal(st, x)   == [st EXCEPT !.final = x]

LEMMA PolySetFinal ==
    ASSUME NEW st, NEW h, NEW b, NEW l, NEW f, st = PolyState(h, b, l, f), NEW x
    PROVE  WithFinal(st, x) = PolyState(h, b, l, x)
<1>1. [PolyState(h, b, l, f) EXCEPT !.final = x] = PolyState(h, b, l, x)
  BY DEF PolyState
<1> QED BY <1>1 DEF WithFinal

LEMMA PolySetBuf ==
    ASSUME NEW st, NEW h, NEW b, NEW l, NEW f, st = PolyState(h, b, l, f), NEW x, NEW y
    PROVE  WithBuf(st, x, y) = PolyState(h, x, y, f)
<1> DEFINE filled == PolyState(h, x, l, f)
<1>1. [PolyState(h, b, l, f) EXCEPT !.buf = x] = filled
  BY DEF PolyState
<1>2. [filled EXCEPT !.leftover = y] = PolyState(h, x, y, f)
  BY DEF PolyState
<1> QED BY <1>1, <1>2 DEF WithBuf

LEMMA PolyFresh ==
    ASSUME PolyParameters, NEW buf, IsBuffer(buf, Poly1305Block), NEW m \in 0 .. MaxIn
    PROVE  /\ PolyShape(Poly!Fresh(buf)) /\ PolyMidway(Poly!Fresh(buf), 0, m, m, 0)
           /\ PolyCounts(Poly!Fresh(buf).leftover, 0, m, m)
<1> DEFINE st == Poly!Fresh(buf)
<1>1. st = PolyState(st.h, st.buf, st.leftover, st.final) /\ st.final = FALSE /\ st.h = <<>> /\ st.buf = buf /\ st.leftover = 0
  BY DEF Poly!Fresh, PolyState
<1>2. Poly1305Block \in Nat \ {0} /\ MaxIn \in Nat /\ 0 * Poly1305Block = 0
  BY DEF PolyParameters
<1> HIDE DEF st
<1>3. st.h = <<>> /\ st.buf = buf /\ st.leftover = 0
  BY <1>1
<1>4. PolyShape(st)
  BY <1>1, <1>2, <1>3 DEF PolyShape
<1>5. PolyHashed(m, 0) = <<>>
  BY DEF PolyHashed
<1>6. PolyMidway(st, 0, m, m, 0)
  BY <1>2, <1>3, <1>5 DEF PolyMidway, PolyAt, HoldsInput
<1> QED BY <1>2, <1>3, <1>4, <1>6 DEF st, PolyCounts

LEMMA PolyZeros == ASSUME PolyParameters PROVE IsBuffer(Poly!Zeros(Poly1305Block), Poly1305Block)
<1> DEFINE z == Poly!Zeros(Poly1305Block)
<1>1. z = [i \in 0 .. (Poly1305Block - 1) |-> Poly!Zero]
  BY DEF Poly!Zeros
<1> HIDE DEF z
<1>2. z = [i \in 0 .. (Poly1305Block - 1) |-> z[i]]
  BY <1>1
<1> QED BY <1>2 DEF z, IsBuffer

LEMMA PolyInit == ASSUME PolyParameters, Poly!Init PROVE PolyInv
<1>1. s = Poly!Fresh(Poly!Zeros(Poly1305Block)) /\ todo = 0 /\ before = 0 /\ fed = 0 /\ out = <<>> /\ 0 \in 0 .. MaxIn
  BY DEF Poly!Init, PolyParameters
<1>2. PolyShape(s) /\ PolyMidway(s, 0, 0, 0, 0) /\ PolyCounts(s.leftover, 0, 0, 0)
  BY <1>1, PolyFresh, PolyZeros
<1>3. Poly!AuthenticatesTheMessage
  BY <1>1 DEF Poly!AuthenticatesTheMessage
<1> QED BY <1>1, <1>2, <1>3 DEF PolyInv

(* One more block, hashed from the buffer or from the input.               *)
LEMMA PolyAppends ==
    ASSUME NEW m \in Nat, NEW k \in Nat
    PROVE  Append(PolyHashed(m, k), Block1305(m, k + 1)) = PolyHashed(m, k + 1)
<1> DEFINE f == PolyHashed(m, k)
           e == Block1305(m, k + 1)
<1>1. f = [j \in 1 .. k |-> Block1305(m, j)] /\ PolyHashed(m, k + 1) = [j \in 1 .. (k + 1) |-> Block1305(m, j)]
  BY DEF PolyHashed
<1> HIDE DEF f
<1>3. f = [j \in 1 .. k |-> f[j]] /\ \A j \in 1 .. k : f[j] = Block1305(m, j)
  BY <1>1
<1>4. Append(f, e) = [j \in 1 .. (k + 1) |-> IF j = k + 1 THEN e ELSE f[j]]
  BY <1>3, Appended
<1>5. \A j \in 1 .. (k + 1) : (IF j = k + 1 THEN e ELSE f[j]) = Block1305(m, j)
  BY <1>3
<1>6. Append(f, e) = PolyHashed(m, k + 1)
  BY <1>1, <1>4, <1>5
<1> QED BY <1>6 DEF f

(* poly1305_blocks() of a block outside of poly1305_finish()               *)
LEMMA PolyAbsorbs ==
    ASSUME NEW st, st = PolyState(st.h, st.buf, st.leftover, st.final), st.final = FALSE, NEW m \in Nat, NEW k \in Nat, st.h = PolyHashed(m, k), NEW block,
           block = InBlock(m + k * Poly1305Block + 1, Poly1305Block)
    PROVE  Poly!Absorb(st, block) = PolyState(PolyHashed(m, k + 1), st.buf, st.leftover, st.final)
<1>1. st = PolyState(st.h, st.buf, st.leftover, st.final) /\ st.final = FALSE
  OBVIOUS
<1>2. (~ st.final) = TRUE
  BY <1>1, PolyFields
<1>3. [block |-> block, hibit |-> ~ st.final] = Block1305(m, k + 1)
  <2>1. (k + 1) - 1 = k
    OBVIOUS
  <2>2. m + ((k + 1) - 1) * Poly1305Block + 1 = m + k * Poly1305Block + 1
    BY <2>1
  <2> QED BY <1>2, <2>2 DEF Block1305
<1> DEFINE e == [block |-> block, hibit |-> ~ st.final]
<1>4. Append(st.h, e) = PolyHashed(m, k + 1)
  BY <1>3, PolyAppends
<1>5. Poly!Absorb(st, block) = WithH(st, Append(st.h, e))
  BY DEF Poly!Absorb, WithH
<1> HIDE DEF e
<1>6. WithH(st, Append(st.h, e)) = PolyState(Append(st.h, e), st.buf, st.leftover, st.final)
  BY <1>1, PolySetH
<1> QED BY ONLY <1>4, <1>5, <1>6

(* poly1305_update(): the buffer takes some bytes, perhaps its last ones.  *)
LEMMA PolyUpdate ==
    ASSUME PolyParameters, PolyInv, NEW n \in Chunks, Poly!Update(n)
    PROVE  PolyInv'
<1> DEFINE want == IF s.leftover > 0 THEN Poly!Least(Poly1305Block - s.leftover, n) ELSE 0
           buf  == Copy(s.buf, s.leftover, fed + 1, want)
           left == s.leftover + want
<1>1. Poly1305Block \in Nat \ {0} /\ MaxIn \in Nat /\ n \in Nat
  BY DEF PolyParameters
<1>2. /\ todo = 0 /\ out = <<>> /\ fed + n <= MaxIn
      /\ fed' = fed + n /\ todo' = n - want /\ before' = before /\ out' = out
  BY DEF Poly!Update
<1>3. /\ s = PolyState(s.h, s.buf, s.leftover, s.final) /\ s.final = FALSE
      /\ IsBuffer(s.buf, Poly1305Block) /\ s.leftover \in 0 .. (Poly1305Block - 1)
  BY DEF PolyInv, PolyShape
<1>4. fed \in Nat /\ before \in 0 .. fed
  BY <1>1 DEF PolyInv, PolyCounts
<1>5. PICK k \in Nat : PolyMidway(s, todo, before, fed, k)
  BY <1>2 DEF PolyInv
<1>6. /\ want \in 0 .. n /\ left \in 0 .. Poly1305Block /\ left = s.leftover + want
      /\ (left = Poly1305Block => s.leftover > 0) /\ (n - want > 0 => left = Poly1305Block \/ left = 0)
  BY <1>1, <1>3 DEF Poly!Least
<1>7. PICK off \in Nat : off = k * Poly1305Block
  BY <1>1
<1>8. fed = before + off + s.leftover /\ s.h = PolyHashed(before, k) /\ HoldsInput(s.buf, s.leftover, before + off)
  <2>1. fed = before + k * Poly1305Block + s.leftover + todo /\ s.h = PolyHashed(before, k)
        /\ HoldsInput(s.buf, s.leftover, before + k * Poly1305Block)
    BY <1>5 DEF PolyMidway, PolyAt
  <2>2. fed = before + off + s.leftover + todo
    BY <1>7, <2>1
  <2> QED BY ONLY <1>2, <1>3, <1>4, <1>7, <2>1, <2>2
<1>9. IsBuffer(buf, Poly1305Block) /\ HoldsInput(buf, left, before + off)
  <2>1. before + off \in Int /\ fed + 1 \in Int /\ fed + 1 = before + off + 1 + s.leftover
    BY ONLY <1>1, <1>3, <1>4, <1>7, <1>8
  <2>2. Poly1305Block \in Nat /\ s.leftover \in 0 .. Poly1305Block /\ want \in Nat /\ s.leftover + want <= Poly1305Block
    BY <1>1, <1>3, <1>6
  <2> HIDE DEF want
  <2> QED BY <1>3, <1>8, <2>1, <2>2, CopyExtends
<1> DEFINE more == [s EXCEPT !.buf = Poly!Copy(@, s.leftover, fed + 1, want), !.leftover = @ + want]
<1>10. s' = IF more.leftover < Poly1305Block THEN more ELSE [Poly!Absorb(more, more.buf) EXCEPT !.leftover = 0]
  BY DEF Poly!Update
<1>11. more = PolyState(s.h, buf, left, s.final)
  <2>1. Poly!Copy(s.buf, s.leftover, fed + 1, want) = buf
    BY PolyBytes
  <2>2. more = WithBuf(s, buf, left)
    BY <2>1 DEF WithBuf
  <2> HIDE DEF want, buf, left, more
  <2> QED BY <1>3, <2>2, PolySetBuf
<1> HIDE DEF want, buf, left, more
<1>12. more.h = s.h /\ more.buf = buf /\ more.leftover = left /\ more.final = s.final
  BY <1>11, PolyFields
<1>13. todo' > 0 => left = Poly1305Block \/ left = 0
  BY <1>2, <1>6
<1>14. fed' \in 0 .. MaxIn /\ before' \in 0 .. fed' /\ todo' \in 0 .. fed' /\ before \in Nat
  BY <1>1, <1>2, <1>4, <1>6
<1>15. fed' = before' + off + left + todo'
  <2>1. fed = before + off + s.leftover
    BY <1>8
  <2>2. s.leftover \in Int /\ want \in Int /\ before \in Int /\ fed \in Int /\ left = s.leftover + want
    BY ONLY <1>1, <1>3, <1>4, <1>6
  <2>3. fed' = fed + n /\ todo' = n - want /\ before' = before /\ n \in Int /\ off \in Int
    BY ONLY <1>1, <1>2, <1>7
  <2> QED BY ONLY <2>1, <2>2, <2>3
<1>16. Poly!AuthenticatesTheMessage'
  BY <1>2 DEF Poly!AuthenticatesTheMessage
<1>17. CASE left < Poly1305Block
  <2>1. s' = PolyState(s.h, buf, left, s.final)
    BY <1>10, <1>11, <1>12, <1>17
  <2>2. s'.h = s.h /\ s'.buf = buf /\ s'.leftover = left /\ s'.final = s.final
    BY <2>1, PolyFields
  <2>3. PolyShape(s')
    BY <1>1, <1>3, <1>6, <1>9, <1>17, <2>1, <2>2 DEF PolyShape
  <2>4. PolyCounts(s'.leftover, todo', before', fed')
    BY <1>1, <1>6, <1>13, <1>14, <1>17, <2>2 DEF PolyCounts
  <2>5. PolyAt(s', before, k, left)
    BY <1>7, <1>8, <1>9, <2>2 DEF PolyAt
  <2>6. PolyMidway(s', todo', before', fed', k)
    BY <1>2, <1>7, <1>15, <2>2, <2>5 DEF PolyMidway
  <2> QED BY <1>2, <1>16, <2>3, <2>4, <2>6 DEF PolyInv
<1>18. CASE left = Poly1305Block
  <2>1. buf = InBlock(before + k * Poly1305Block + 1, Poly1305Block)
    <3>1. Poly1305Block \in Nat /\ before + off \in Int
      BY <1>1, <1>7, <1>14
    <3>2. buf = InBlock((before + off) + 1, Poly1305Block)
      BY <1>9, <1>18, <3>1, BufferIsBlock
    <3> QED BY <1>7, <3>2
  <2>2. Poly!Absorb(more, buf) = PolyState(PolyHashed(before, k + 1), buf, left, s.final)
    <3>1. more = PolyState(more.h, more.buf, more.leftover, more.final) /\ more.final = FALSE
      BY <1>3, <1>11, <1>12
    <3>2. more.h = PolyHashed(before, k)
      BY <1>8, <1>12
    <3>3. Poly!Absorb(more, buf) = PolyState(PolyHashed(before, k + 1), more.buf, more.leftover, more.final)
      BY <1>14, <2>1, <3>1, <3>2, PolyAbsorbs
    <3> QED BY <1>12, <3>3
  <2>3. s' = WithLeft(Poly!Absorb(more, buf), 0)
    BY <1>1, <1>10, <1>12, <1>18 DEF WithLeft
  <2>4. s' = PolyState(PolyHashed(before, k + 1), buf, 0, s.final)
    BY <2>2, <2>3, PolySetLeft
  <2>5. s'.h = PolyHashed(before, k + 1) /\ s'.buf = buf /\ s'.leftover = 0 /\ s'.final = s.final
    BY <2>4, PolyFields
  <2>6. PolyShape(s')
    BY <1>1, <1>3, <1>9, <2>4, <2>5 DEF PolyShape
  <2>7. PolyCounts(s'.leftover, todo', before', fed')
    BY <1>14, <2>5 DEF PolyCounts
  <2>8. PolyMidway(s', todo', before', fed', k + 1)
    <3>1. (k + 1) * Poly1305Block = off + Poly1305Block
      BY <1>1, <1>7
    <3>2. fed' = before' + (off + Poly1305Block) + 0 + todo'
      BY <1>1, <1>7, <1>14, <1>15, <1>18
    <3>3. PolyAt(s', before', k + 1, 0)
      BY <1>2, <2>5 DEF PolyAt, HoldsInput
    <3> QED BY <2>5, <3>1, <3>2, <3>3 DEF PolyMidway
  <2> QED BY <1>2, <1>16, <2>6, <2>7, <2>8 DEF PolyInv
<1> QED BY <1>6, <1>17, <1>18, <1>1

(* poly1305_update(): a block of the input itself.                         *)
LEMMA PolyUpdateBlock == ASSUME PolyParameters, PolyInv, Poly!UpdateBlock PROVE PolyInv'
<1>1. Poly1305Block \in Nat \ {0} /\ MaxIn \in Nat
  BY DEF PolyParameters
<1>2. /\ todo >= Poly1305Block /\ s' = Poly!Absorb(s, Poly!InBlock(fed - todo + 1, Poly1305Block)) /\ todo' = todo - Poly1305Block
      /\ before' = before /\ fed' = fed /\ out' = out
  BY DEF Poly!UpdateBlock
<1>3. /\ s = PolyState(s.h, s.buf, s.leftover, s.final) /\ s.final = FALSE
      /\ IsBuffer(s.buf, Poly1305Block) /\ s.leftover \in 0 .. (Poly1305Block - 1)
  BY DEF PolyInv, PolyShape
<1>4. fed \in 0 .. MaxIn /\ before \in 0 .. fed /\ todo \in 0 .. fed /\ s.leftover = 0
  BY <1>1, <1>2 DEF PolyInv, PolyCounts
<1>5. out = <<>>
  BY <1>1, <1>2, <1>4 DEF PolyInv
<1>6. PICK k \in Nat : PolyMidway(s, todo, before, fed, k)
  BY <1>5 DEF PolyInv
<1>7. PICK off \in Nat : off = k * Poly1305Block
  BY <1>1
<1>8. fed = before + off + s.leftover + todo /\ s.h = PolyHashed(before, k)
  BY <1>6, <1>7 DEF PolyMidway, PolyAt
<1>9. Poly!InBlock(fed - todo + 1, Poly1305Block) = InBlock(before + k * Poly1305Block + 1, Poly1305Block)
  <2>1. fed - todo + 1 = before + off + 1
    BY ONLY <1>1, <1>4, <1>7, <1>8
  <2> QED BY <1>7, <2>1, PolyBytes
<1>10. s' = PolyState(PolyHashed(before, k + 1), s.buf, s.leftover, s.final)
  <2>1. before \in Nat
    BY <1>1, <1>4
  <2> QED BY <1>2, <1>3, <1>8, <1>9, <2>1, PolyAbsorbs
<1>11. s'.h = PolyHashed(before, k + 1) /\ s'.buf = s.buf /\ s'.leftover = s.leftover /\ s'.final = s.final
  BY <1>10, PolyFields
<1>12. PolyShape(s')
  BY <1>3, <1>10, <1>11 DEF PolyShape
<1>13. PolyCounts(s'.leftover, todo', before', fed')
  BY <1>1, <1>2, <1>4, <1>11 DEF PolyCounts
<1>14. PolyMidway(s', todo', before', fed', k + 1)
  <2>1. (k + 1) * Poly1305Block = off + Poly1305Block
    BY <1>1, <1>7
  <2>2. fed' = before' + (off + Poly1305Block) + 0 + todo'
    BY ONLY <1>1, <1>2, <1>4, <1>7, <1>8
  <2>3. PolyAt(s', before', k + 1, 0)
    BY <1>2, <1>11 DEF PolyAt, HoldsInput
  <2> QED BY <1>4, <1>11, <2>1, <2>2, <2>3 DEF PolyMidway
<1>15. Poly!AuthenticatesTheMessage'
  BY <1>2, <1>5 DEF Poly!AuthenticatesTheMessage
<1> QED BY <1>2, <1>5, <1>12, <1>13, <1>14, <1>15 DEF PolyInv

(* poly1305_update(): what remains goes to the buffer.                     *)
LEMMA PolyUpdateTail == ASSUME PolyParameters, PolyInv, Poly!UpdateTail PROVE PolyInv'
<1> DEFINE buf == Copy(s.buf, s.leftover, fed - todo + 1, todo)
<1>1. Poly1305Block \in Nat \ {0} /\ MaxIn \in Nat
  BY DEF PolyParameters
<1>2. /\ todo \in 1 .. (Poly1305Block - 1) /\ todo' = 0 /\ before' = before /\ fed' = fed /\ out' = out
      /\ s' = [s EXCEPT !.buf = Poly!Copy(@, s.leftover, fed - todo + 1, todo), !.leftover = @ + todo]
  BY DEF Poly!UpdateTail
<1>3. /\ s = PolyState(s.h, s.buf, s.leftover, s.final) /\ s.final = FALSE
      /\ IsBuffer(s.buf, Poly1305Block) /\ s.leftover \in 0 .. (Poly1305Block - 1)
  BY DEF PolyInv, PolyShape
<1>4. fed \in 0 .. MaxIn /\ before \in 0 .. fed /\ todo \in 0 .. fed /\ s.leftover = 0
  BY <1>1, <1>2 DEF PolyInv, PolyCounts
<1>5. out = <<>>
  BY <1>1, <1>2, <1>4 DEF PolyInv
<1>6. PICK k \in Nat : PolyMidway(s, todo, before, fed, k)
  BY <1>5 DEF PolyInv
<1>7. PICK off \in Nat : off = k * Poly1305Block
  BY <1>1
<1>8. fed = before + off + s.leftover + todo /\ s.h = PolyHashed(before, k) /\ HoldsInput(s.buf, s.leftover, before + off)
  BY <1>6, <1>7 DEF PolyMidway, PolyAt
<1>9. IsBuffer(buf, Poly1305Block) /\ HoldsInput(buf, s.leftover + todo, before + off)
  <2>1. before + off \in Int /\ fed - todo + 1 \in Int /\ fed - todo + 1 = before + off + 1 + s.leftover
    BY ONLY <1>1, <1>3, <1>4, <1>7, <1>8
  <2>2. Poly1305Block \in Nat /\ s.leftover \in 0 .. Poly1305Block /\ todo \in Nat /\ s.leftover + todo <= Poly1305Block
    BY <1>1, <1>2, <1>4
  <2> QED BY <1>3, <1>8, <2>1, <2>2, CopyExtends
<1>10. s' = PolyState(s.h, buf, s.leftover + todo, s.final)
  <2>1. Poly!Copy(s.buf, s.leftover, fed - todo + 1, todo) = buf
    BY PolyBytes
  <2>2. s' = WithBuf(s, buf, s.leftover + todo)
    BY <1>2, <2>1 DEF WithBuf
  <2> HIDE DEF buf
  <2> QED BY <1>3, <2>2, PolySetBuf
<1> HIDE DEF buf
<1>11. s'.h = s.h /\ s'.buf = buf /\ s'.leftover = s.leftover + todo /\ s'.final = s.final
  BY <1>10, PolyFields
<1>12. s'.leftover = todo
  BY <1>2, <1>4, <1>11
<1>13. PolyShape(s')
  BY <1>1, <1>2, <1>3, <1>9, <1>10, <1>11, <1>12 DEF PolyShape
<1>14. PolyCounts(s'.leftover, todo', before', fed')
  BY <1>1, <1>2, <1>4 DEF PolyCounts
<1>15. PolyMidway(s', todo', before', fed', k)
  <2>1. fed' = before' + off + s'.leftover + todo'
    BY ONLY <1>1, <1>2, <1>4, <1>7, <1>8, <1>12
  <2>2. PolyAt(s', before', k, s'.leftover)
    BY <1>2, <1>7, <1>8, <1>9, <1>11 DEF PolyAt
  <2> QED BY <1>7, <2>1, <2>2 DEF PolyMidway
<1>16. Poly!AuthenticatesTheMessage'
  BY <1>2, <1>5 DEF Poly!AuthenticatesTheMessage
<1> QED BY <1>2, <1>5, <1>13, <1>14, <1>15, <1>16 DEF PolyInv

-----------------------------------------------------------------------------
(* poly1305_finish()                                                       *)
PolyByte(m, len, p) == IF p < len THEN In(m + 1 + p) ELSE IF p = len THEN Mark ELSE Zero

PolyTagged(m, len, j) ==
    [block |-> [i \in 0 .. (Poly1305Block - 1) |-> PolyByte(m, len, (j - 1) * Poly1305Block + i)], hibit |-> j * Poly1305Block <= len]

LEMMA PolyTagIs ==
    ASSUME NEW len
    PROVE  Poly!Tag(len) = [j \in 1 .. ((len + Poly1305Block - 1) \div Poly1305Block) |-> PolyTagged(before, len, j)]
  BY DEF Poly!Tag, Poly!Cut, PolyTagged, PolyByte, Poly!In, In, Poly!Mark, Mark, Poly!Zero, Zero

LEMMA PolyTagWhole ==
    ASSUME PolyParameters, NEW m \in Nat, NEW len \in Nat, NEW j \in Nat \ {0}, j * Poly1305Block <= len
    PROVE  PolyTagged(m, len, j) = Block1305(m, j)
<1>1. Poly1305Block \in Nat \ {0}
  BY DEF PolyParameters
<1>2. PICK off \in Int : off = (j - 1) * Poly1305Block
  BY <1>1
<1>3. off + Poly1305Block <= len /\ off >= 0
  BY <1>1, <1>2
<1>4. ASSUME NEW i \in 0 .. (Poly1305Block - 1) PROVE PolyByte(m, len, off + i) = In(m + off + 1 + i)
  <2>1. off + i < len /\ m + 1 + (off + i) = m + off + 1 + i
    BY <1>1, <1>2, <1>3
  <2> QED BY <2>1 DEF PolyByte
<1>5. [i \in 0 .. (Poly1305Block - 1) |-> PolyByte(m, len, off + i)] = InBlock(m + off + 1, Poly1305Block)
  BY <1>4 DEF InBlock
<1>6. (j * Poly1305Block <= len) = TRUE
  OBVIOUS
<1> QED BY <1>2, <1>5, <1>6 DEF PolyTagged, Block1305

LEMMA PolyTagLast ==
    ASSUME PolyParameters, NEW m \in Nat, NEW k \in Nat, NEW l \in 1 .. (Poly1305Block - 1), NEW len, len = k * Poly1305Block + l,
           NEW buf, IsBuffer(buf, Poly1305Block), HoldsInput(buf, l, m + k * Poly1305Block)
    PROVE  PolyTagged(m, len, k + 1) = [block |-> Poly!ZeroFrom([buf EXCEPT ![l] = Poly!Mark], l + 1), hibit |-> FALSE]
<1>1. Poly1305Block \in Nat \ {0}
  BY DEF PolyParameters
<1>2. PICK off \in Nat : off = k * Poly1305Block
  BY <1>1
<1>3. (k + 1 - 1) * Poly1305Block = off /\ (k + 1) * Poly1305Block = off + Poly1305Block /\ len = off + l
  BY <1>1, <1>2
<1> DEFINE last == Poly!ZeroFrom([buf EXCEPT ![l] = Poly!Mark], l + 1)
<1>4. /\ last = [i \in 0 .. (Poly1305Block - 1) |-> last[i]]
      /\ \A i \in 0 .. (Poly1305Block - 1) : last[i] = IF i >= l + 1 THEN Zero ELSE IF i = l THEN Mark ELSE buf[i]
  BY DEF IsBuffer, Poly!ZeroFrom, Poly!Mark, Mark, Poly!Zero, Zero
<1> HIDE DEF last
<1>5. ASSUME NEW i \in 0 .. (Poly1305Block - 1) PROVE PolyByte(m, len, off + i) = last[i]
  <2>1. CASE i < l
    <3>1. buf[i] = In(m + off + 1 + i)
      BY <1>1, <1>2, <2>1 DEF HoldsInput
    <3>2. off + i < len /\ m + 1 + (off + i) = m + off + 1 + i
      BY <1>1, <1>2, <1>3, <2>1
    <3>3. last[i] = buf[i]
      BY <1>1, <1>4, <2>1
    <3> QED BY <3>1, <3>2, <3>3 DEF PolyByte
  <2>2. CASE i = l
    <3>1. off + i = len
      BY <1>3, <2>2
    <3>2. ~(off + i < len)
      BY <1>1, <1>2, <3>1
    <3>3. last[i] = Mark
      BY <1>1, <1>4, <2>2
    <3> QED BY <3>1, <3>2, <3>3 DEF PolyByte
  <2>3. CASE i > l
    <3>1. ~(off + i < len) /\ off + i # len
      BY <1>1, <1>2, <1>3, <2>3
    <3>2. last[i] = Zero
      BY <1>1, <1>4, <2>3
    <3> QED BY <3>1, <3>2 DEF PolyByte
  <2> QED BY <1>1, <2>1, <2>2, <2>3
<1>6. [i \in 0 .. (Poly1305Block - 1) |-> PolyByte(m, len, off + i)] = [i \in 0 .. (Poly1305Block - 1) |-> last[i]]
  BY <1>5
<1>7. ((k + 1) * Poly1305Block <= len) = FALSE
  BY <1>1, <1>2, <1>3
<1>8. PolyTagged(m, len, k + 1) = [block |-> [i \in 0 .. (Poly1305Block - 1) |-> PolyByte(m, len, off + i)], hibit |-> FALSE]
  <2> DEFINE taken(b) == [i \in 0 .. (Poly1305Block - 1) |-> PolyByte(m, len, b + i)]
             whole == (k + 1) * Poly1305Block <= len
  <2>1. PolyTagged(m, len, k + 1) = [block |-> taken((k + 1 - 1) * Poly1305Block), hibit |-> whole]
    BY DEF PolyTagged
  <2>2. taken((k + 1 - 1) * Poly1305Block) = taken(off)
    BY <1>3
  <2>3. whole = FALSE
    BY <1>7
  <2> HIDE DEF taken, whole
  <2>4. PolyTagged(m, len, k + 1) = [block |-> taken(off), hibit |-> FALSE]
    BY <2>1, <2>2, <2>3
  <2> QED BY <2>4 DEF taken
<1> QED BY <1>4, <1>6, <1>8 DEF last

LEMMA PolyCloses ==
    ASSUME PolyParameters, PolyInv, Poly!Finish
    PROVE  Poly!Close(s).h = Poly!Tag(fed - before)
<1>1. Poly1305Block \in Nat \ {0} /\ MaxIn \in Nat
  BY DEF PolyParameters
<1>2. todo = 0 /\ out = <<>>
  BY DEF Poly!Finish
<1>3. /\ s = PolyState(s.h, s.buf, s.leftover, s.final) /\ s.final = FALSE
      /\ IsBuffer(s.buf, Poly1305Block) /\ s.leftover \in 0 .. (Poly1305Block - 1)
  BY DEF PolyInv, PolyShape
<1>4. fed \in 0 .. MaxIn /\ before \in 0 .. fed
  BY <1>1 DEF PolyInv, PolyCounts
<1>5. PICK k \in Nat : PolyMidway(s, todo, before, fed, k)
  BY <1>2 DEF PolyInv
<1>6. PICK off \in Nat : off = k * Poly1305Block
  BY <1>1
<1>7. PICK len \in Nat : len = fed - before
  BY <1>1, <1>4
<1>8. len = off + s.leftover /\ s.h = PolyHashed(before, k) /\ HoldsInput(s.buf, s.leftover, before + k * Poly1305Block)
  <2>1. fed = before + off + s.leftover + todo /\ s.h = PolyHashed(before, k)
        /\ HoldsInput(s.buf, s.leftover, before + k * Poly1305Block)
    BY <1>5, <1>6 DEF PolyMidway, PolyAt
  <2> QED BY ONLY <1>1, <1>2, <1>3, <1>4, <1>6, <1>7, <2>1
<1>9. before \in Nat
  BY <1>1, <1>4
<1>10. \A j \in 1 .. k : PolyTagged(before, len, j) = Block1305(before, j)
  <2> SUFFICES ASSUME NEW j \in 1 .. k PROVE PolyTagged(before, len, j) = Block1305(before, j)
    OBVIOUS
  <2>1. j * Poly1305Block <= k * Poly1305Block
    <3>1. CASE j = k
      BY <3>1, <1>1
    <3>2. CASE j < k
      <4>1. PICK jb \in Int : jb = j * Poly1305Block
        BY <1>1
      <4>2. jb + Poly1305Block <= off
        BY <1>1, <1>6, <3>2, <4>1, Whole
      <4> QED BY <1>1, <1>6, <4>1, <4>2
    <3> QED BY <3>1, <3>2
  <2>2. j * Poly1305Block <= len
    <3>1. PICK jb \in Int : jb = j * Poly1305Block
      BY <1>1
    <3> QED BY <1>1, <1>3, <1>6, <1>8, <2>1, <3>1
  <2> QED BY <1>9, <2>2, PolyTagWhole
<1>11. CASE s.leftover = 0
  <2>1. (len + Poly1305Block - 1) \div Poly1305Block = k
    <3>1. len + Poly1305Block - 1 = k * Poly1305Block + (Poly1305Block - 1) /\ Poly1305Block - 1 \in 0 .. (Poly1305Block - 1)
      BY <1>1, <1>6, <1>8, <1>11
    <3> QED BY <1>1, <3>1, DivIs
  <2>2. Poly!Tag(len) = [j \in 1 .. k |-> PolyTagged(before, len, j)]
    BY <2>1, PolyTagIs
  <2>3. [j \in 1 .. k |-> PolyTagged(before, len, j)] = [j \in 1 .. k |-> Block1305(before, j)]
    BY <1>10
  <2>4. Poly!Close(s).h = s.h
    BY <1>11 DEF Poly!Close
  <2> QED BY <1>7, <1>8, <2>2, <2>3, <2>4 DEF PolyHashed
<1>12. CASE s.leftover \in 1 .. (Poly1305Block - 1)
  <2> DEFINE l == s.leftover
             e == [block |-> Poly!ZeroFrom([s.buf EXCEPT ![l] = Poly!Mark], l + 1), hibit |-> FALSE]
             f == PolyHashed(before, k)
  <2>1. (len + Poly1305Block - 1) \div Poly1305Block = k + 1
    <3>1. len + Poly1305Block - 1 = (k + 1) * Poly1305Block + (l - 1) /\ l - 1 \in 0 .. (Poly1305Block - 1)
      <4>1. (k + 1) * Poly1305Block = off + Poly1305Block
        BY <1>1, <1>6
      <4> QED BY <1>1, <1>8, <1>12, <4>1
    <3>2. k + 1 \in Int
      OBVIOUS
    <3> DEFINE r == l - 1
    <3> HIDE DEF r, l
    <3>3. r \in 0 .. (Poly1305Block - 1) /\ len + Poly1305Block - 1 = (k + 1) * Poly1305Block + r
      BY <3>1 DEF r
    <3> QED BY ONLY <1>1, <3>2, <3>3, DivIs
  <2>2. Poly!Tag(len) = [j \in 1 .. (k + 1) |-> PolyTagged(before, len, j)]
    BY <2>1, PolyTagIs
  <2>3. PolyTagged(before, len, k + 1) = e
    BY <1>3, <1>6, <1>8, <1>9, <1>12, PolyTagLast
  <2>4. Poly!Close(s).h = Append(f, e)
    <3>1. PICK T : T = TRUE
      OBVIOUS
    <3> DEFINE st == WithFinal(s, T)
               last == Poly!ZeroFrom([s.buf EXCEPT ![l] = Poly!Mark], l + 1)
               hashed == [block |-> last, hibit |-> ~ st.final]
    <3>2. st = PolyState(s.h, s.buf, s.leftover, T)
      BY <1>3, PolySetFinal
    <3>3. st.h = s.h /\ st.buf = s.buf /\ st.leftover = s.leftover /\ st.final = T
      BY <3>2, PolyFields
    <3>4. (~ st.final) = FALSE
      BY <3>1, <3>3
    <3>5. hashed = e
      BY <3>4
    <3>6. Poly!Close(s) = Poly!Absorb(st, last)
      <4>1. Poly!Close(s) = Poly!Absorb([s EXCEPT !.final = TRUE], last)
        BY <1>1, <1>12 DEF Poly!Close
      <4>2. [s EXCEPT !.final = TRUE] = st
        BY <3>1 DEF WithFinal
      <4> HIDE DEF st, last
      <4> QED BY <4>1, <4>2
    <3>7. Poly!Absorb(st, last) = WithH(st, Append(st.h, hashed))
      BY DEF Poly!Absorb, WithH
    <3> HIDE DEF st, last, hashed
    <3>8. WithH(st, Append(st.h, hashed)) = PolyState(Append(st.h, hashed), s.buf, s.leftover, T)
      BY <3>2, PolySetH
    <3>9. WithH(st, Append(st.h, hashed)).h = Append(st.h, hashed)
      BY <3>8, PolyFields
    <3> HIDE DEF e
    <3> QED BY <1>8, <3>3, <3>5, <3>6, <3>7, <3>9
  <2>5. f = [j \in 1 .. k |-> Block1305(before, j)]
    BY DEF PolyHashed
  <2> HIDE DEF e, f
  <2>6. f = [j \in 1 .. k |-> f[j]] /\ \A j \in 1 .. k : f[j] = PolyTagged(before, len, j)
    BY <1>10, <2>5
  <2>7. Append(f, e) = [j \in 1 .. (k + 1) |-> IF j = k + 1 THEN e ELSE f[j]]
    BY <2>6, Appended
  <2>8. \A j \in 1 .. (k + 1) : (IF j = k + 1 THEN e ELSE f[j]) = PolyTagged(before, len, j)
    BY <2>3, <2>6
  <2>9. Append(f, e) = [j \in 1 .. (k + 1) |-> PolyTagged(before, len, j)]
    BY <2>7, <2>8
  <2> QED BY <1>7, <2>2, <2>4, <2>9
<1> QED BY <1>1, <1>3, <1>11, <1>12

LEMMA PolyStep == ASSUME PolyParameters, PolyInv, [Poly!Next]_(Poly!vars) PROVE PolyInv'
<1>1. MaxIn \in Nat /\ fed \in 0 .. MaxIn /\ before \in 0 .. fed
  BY DEF PolyParameters, PolyInv, PolyCounts
<1>2. CASE Poly!Restart
  <2>1. todo = 0 /\ s' = Poly!Fresh(s.buf) /\ before' = fed /\ out' = <<>> /\ todo' = 0 /\ fed' = fed
    BY <1>2 DEF Poly!Restart
  <2>2. IsBuffer(s.buf, Poly1305Block)
    BY DEF PolyInv, PolyShape
  <2>3. PolyShape(s') /\ PolyMidway(s', 0, fed, fed, 0) /\ PolyCounts(s'.leftover, 0, fed, fed)
    BY <1>1, <2>1, <2>2, PolyFresh
  <2>4. Poly!AuthenticatesTheMessage'
    BY <2>1 DEF Poly!AuthenticatesTheMessage
  <2> QED BY <2>1, <2>3, <2>4 DEF PolyInv
<1>3. CASE \E n \in Chunks : Poly!Update(n)
  BY <1>3, PolyUpdate
<1>4. CASE Poly!UpdateBlock
  BY <1>4, PolyUpdateBlock
<1>5. CASE Poly!UpdateTail
  BY <1>5, PolyUpdateTail
<1>6. CASE Poly!Finish
  <2>1. /\ todo = 0 /\ out' = <<[len |-> fed - before, h |-> Poly!Close(s).h]>> /\ s' = Poly!Fresh(Poly!Zeros(Poly1305Block))
        /\ todo' = 0 /\ before' = before /\ fed' = fed
    BY <1>6 DEF Poly!Finish
  <2>2. PolyShape(s') /\ PolyCounts(s'.leftover, 0, fed, fed)
    BY <1>1, <2>1, PolyFresh, PolyZeros
  <2>3. PolyCounts(s'.leftover, todo', before', fed')
    BY <1>1, <2>1, <2>2 DEF PolyCounts
  <2>4. Poly!AuthenticatesTheMessage'
    <3>1. Poly!Tag(fed - before)' = Poly!Tag(fed - before)
      BY <2>1 DEF Poly!Tag, Poly!Cut
    <3>2. DOMAIN out' = {1} /\ out'[1].len = fed - before /\ out'[1].h = Poly!Tag(fed - before)
      BY <1>6, <2>1, PolyCloses
    <3> QED BY <2>1, <3>1, <3>2 DEF Poly!AuthenticatesTheMessage
  <2>5. out' # <<>>
    BY <2>1
  <2> QED BY <2>1, <2>2, <2>3, <2>4, <2>5 DEF PolyInv
<1>7. CASE UNCHANGED Poly!vars
  <2>1. s' = s /\ todo' = todo /\ before' = before /\ fed' = fed /\ out' = out
    BY <1>7 DEF Poly!vars
  <2>2. Poly!AuthenticatesTheMessage
    BY DEF PolyInv
  <2>3. \A len : Poly!Tag(len)' = Poly!Tag(len)
    BY <2>1 DEF Poly!Tag, Poly!Cut
  <2>4. Poly!AuthenticatesTheMessage'
    BY <2>1, <2>2, <2>3 DEF Poly!AuthenticatesTheMessage
  <2> QED BY <2>1, <2>4 DEF PolyInv
<1> QED BY <1>2, <1>3, <1>4, <1>5, <1>6, <1>7 DEF Poly!Next

LEMMA PolySafe == ASSUME PolyParameters, PolyInv PROVE Poly!Poly1305Authenticates
<1>1. DOMAIN s.buf = 0 .. (Poly1305Block - 1)
  BY DEF PolyInv, PolyShape, IsBuffer
<1>2. s.leftover \in 0 .. (Poly1305Block - 1) /\ s.final \in BOOLEAN
  BY DEF PolyInv, PolyShape
<1> QED BY <1>1, <1>2 DEF PolyInv, PolyCounts, Poly!Poly1305Authenticates, Poly!TypeOK

(* However a message is cut into updates, and whatever an earlier one left *)
(* in the buffer, poly1305_finish() gives the tag of the whole message,    *)
(* the buffer is never overrun and the counts stay in range.               *)
THEOREM Poly1305Tags == ASSUME PolyParameters PROVE Poly!Spec => []Poly!Poly1305Authenticates
<1>1. PolyInv => Poly!Poly1305Authenticates
  BY PolySafe
<1>2. Poly!Init => PolyInv
  BY PolyInit
<1>3. PolyInv /\ [Poly!Next]_(Poly!vars) => PolyInv'
  BY PolyStep
<1> QED BY <1>1, <1>2, <1>3, PTL DEF Poly!Spec

-----------------------------------------------------------------------------
(* BLAKE2b                                                                 *)

BlakeFields == {"h", "t0", "t1", "f0", "keyed", "buf", "buflen"}

KeyBytes(keyed) == IF keyed THEN Blake2bBlock ELSE 0

(* Byte p of what is hashed: the key block and the message after m bytes.  *)
BlakeByte(keyed, m, p) ==
    IF ~ keyed THEN In(m + 1 + p) ELSE IF p < Blake2bBlock THEN Key ELSE In(m + 1 + p - Blake2bBlock)

BlakeHolds(buf, n, keyed, m, off) == \A i \in 0 .. (n - 1) : buf[i] = BlakeByte(keyed, m, off + i)

BlakeCut(keyed, m, k) == [i \in 0 .. (Blake2bBlock - 1) |-> BlakeByte(keyed, m, (k - 1) * Blake2bBlock + i)]

BlakeBlock(keyed, m, k) ==
    [block |-> BlakeCut(keyed, m, k), t0 |-> (k * Blake2bBlock) % Blake2bWordMod, t1 |-> (k * Blake2bBlock) \div Blake2bWordMod, last |-> FALSE]

BlakeHashed(keyed, m, n) == [k \in 1 .. n |-> BlakeBlock(keyed, m, k)]

(* The counter says c.                                                     *)
BlakeCounts(st, c) == st.t0 = c % Blake2bWordMod /\ st.t1 = c \div Blake2bWordMod

BlakeShape(st) ==
    /\ DOMAIN st = BlakeFields /\ IsBuffer(st.buf, 2 * Blake2bBlock) /\ st.buflen \in 0 .. (2 * Blake2bBlock)
    /\ st.t0 \in 0 .. (Blake2bWordMod - 1) /\ st.t1 \in 0 .. (Blake2bWordMod - 1)
    /\ st.f0 \in BOOLEAN /\ st.keyed \in BOOLEAN

(* k blocks are compressed, and the next bytes are in the buffer, which is *)
(* emptied only when more follows.                                         *)
BlakeAt(st, m, k) ==
    /\ st.h = BlakeHashed(st.keyed, m, k) /\ BlakeCounts(st, k * Blake2bBlock)
    /\ BlakeHolds(st.buf, st.buflen, st.keyed, m, k * Blake2bBlock)
    /\ k > 0 => st.buflen > 0

BlakeMidway(st, t, m, f, k) ==
    BlakeAt(st, m, k) /\ k * Blake2bBlock + st.buflen = f - t - m + KeyBytes(st.keyed)

(* RFC 7693, as in Blake2b, with the bytes before the message named.       *)
BlakeDigestBlock(keyed, m, size, n, k) ==
    LET upTo == IF k * Blake2bBlock <= size THEN k * Blake2bBlock ELSE size
    IN  [block |-> [i \in 0 .. (Blake2bBlock - 1) |->
                      IF (k - 1) * Blake2bBlock + i >= size THEN Zero ELSE BlakeByte(keyed, m, (k - 1) * Blake2bBlock + i)],
         t0 |-> upTo % Blake2bWordMod, t1 |-> upTo \div Blake2bWordMod, last |-> k = n]

BlakeLength(size) == IF size = 0 THEN 1 ELSE (size + Blake2bBlock - 1) \div Blake2bBlock

BlakeDigest(keyed, m, size) ==
    [k \in 1 .. BlakeLength(size) |-> BlakeDigestBlock(keyed, m, size, BlakeLength(size), k)]

BlakeHashes(o, m, keyed) ==
    Len(o) <= 1 /\ \A i \in DOMAIN o : o[i].h = BlakeDigest(keyed, m, o[i].len + KeyBytes(keyed))

BlakeInv ==
    /\ BlakeShape(s)
    /\ fed \in 0 .. MaxIn /\ before \in 0 .. fed /\ todo \in 0 .. (fed - before)
    /\ s.f0 = FALSE => out = <<>> /\ \E k \in Nat : BlakeMidway(s, todo, before, fed, k)
    /\ BlakeHashes(out, before, s.keyed)

LEMMA BlakeBytes ==
    ASSUME NEW b, NEW l, NEW f, NEW n
    PROVE  /\ Blake!Copy(b, l, f, n) = Copy(b, l, f, n)
           /\ Blake!In(n) = In(n) /\ Blake!Key = Key /\ Blake!Zero = Zero
  BY DEF Blake!Copy, Copy, Blake!In, In, Blake!Key, Key, Blake!Zero, Zero

LEMMA BlakeDigestIs ==
    ASSUME NEW keyed, NEW len
    PROVE  Blake!Digest(keyed, len) = BlakeDigest(keyed, before, len + KeyBytes(keyed))
  BY DEF Blake!Digest, BlakeDigest, BlakeDigestBlock, BlakeLength, BlakeByte, KeyBytes, Blake!Cut, Blake!Least,
     Blake!In, In, Blake!Key, Key, Blake!Zero, Zero

LEMMA BlakeAppends ==
    ASSUME NEW keyed, NEW m, NEW k \in Nat
    PROVE  Append(BlakeHashed(keyed, m, k), BlakeBlock(keyed, m, k + 1)) = BlakeHashed(keyed, m, k + 1)
<1> DEFINE f == BlakeHashed(keyed, m, k)
           e == BlakeBlock(keyed, m, k + 1)
<1>1. f = [j \in 1 .. k |-> BlakeBlock(keyed, m, j)]
      /\ BlakeHashed(keyed, m, k + 1) = [j \in 1 .. (k + 1) |-> BlakeBlock(keyed, m, j)]
  BY DEF BlakeHashed
<1> HIDE DEF f
<1>2. f = [j \in 1 .. k |-> f[j]] /\ \A j \in 1 .. k : f[j] = BlakeBlock(keyed, m, j)
  BY <1>1
<1>3. Append(f, e) = [j \in 1 .. (k + 1) |-> IF j = k + 1 THEN e ELSE f[j]]
  BY <1>2, Appended
<1>4. \A j \in 1 .. (k + 1) : (IF j = k + 1 THEN e ELSE f[j]) = BlakeBlock(keyed, m, j)
  BY <1>2
<1>5. Append(f, e) = BlakeHashed(keyed, m, k + 1)
  BY <1>1, <1>3, <1>4
<1> QED BY <1>5 DEF f

(* What each helper changes.                                               *)
LEMMA BlakeTicked ==
    ASSUME NEW st, DOMAIN st = BlakeFields, NEW inc
    PROVE  LET x == Blake!Tick(st, inc)
               low == (st.t0 + inc) % Blake2bWordMod
           IN  /\ DOMAIN x = BlakeFields /\ x.h = st.h /\ x.f0 = st.f0 /\ x.keyed = st.keyed
               /\ x.buf = st.buf /\ x.buflen = st.buflen
               /\ x.t0 = low /\ x.t1 = (st.t1 + IF low < inc THEN 1 ELSE 0) % Blake2bWordMod
  BY DEF Blake!Tick, BlakeFields

LEMMA BlakeCompressed ==
    ASSUME NEW st, DOMAIN st = BlakeFields
    PROVE  LET x == Blake!Compress(st)
           IN  /\ DOMAIN x = BlakeFields /\ x.f0 = st.f0 /\ x.keyed = st.keyed
               /\ x.buf = st.buf /\ x.buflen = st.buflen /\ x.t0 = st.t0 /\ x.t1 = st.t1
               /\ x.h = Append(st.h, [block |-> [i \in 0 .. (Blake2bBlock - 1) |-> st.buf[i]],
                                      t0 |-> st.t0, t1 |-> st.t1, last |-> st.f0])
  BY DEF Blake!Compress, BlakeFields

LEMMA BlakeShifted ==
    ASSUME NEW st, DOMAIN st = BlakeFields, NEW n
    PROVE  LET x == Blake!Shift(st, n)
           IN  /\ DOMAIN x = BlakeFields /\ x.h = st.h /\ x.f0 = st.f0 /\ x.keyed = st.keyed
               /\ x.t0 = st.t0 /\ x.t1 = st.t1 /\ x.buflen = st.buflen - Blake2bBlock
               /\ x.buf = [i \in DOMAIN st.buf |-> IF i < n THEN st.buf[i + Blake2bBlock] ELSE st.buf[i]]
  BY DEF Blake!Shift, BlakeFields

(* blake2b_increment_counter()                                             *)
LEMMA BlakeTicks ==
    ASSUME BlakeParameters, NEW st, DOMAIN st = BlakeFields, NEW c \in Nat, BlakeCounts(st, c),
           NEW inc \in 0 .. Blake2bWordMod, c + inc < Blake2bWordMod * Blake2bWordMod
    PROVE  BlakeCounts(Blake!Tick(st, inc), c + inc)
<1> DEFINE W == Blake2bWordMod
           x == Blake!Tick(st, inc)
<1>1. W \in Nat \ {0}
  BY DEF BlakeParameters
<1>2. PICK q \in Nat, r \in 0 .. (W - 1) : c = q * W + r
  <2>1. c \div W \in Nat /\ c % W \in 0 .. (W - 1) /\ c = (c \div W) * W + (c % W)
    BY <1>1
  <2> QED BY <2>1
<1>3. c \div W = q /\ c % W = r
  BY <1>1, <1>2, DivIs
<1>4. st.t0 = r /\ st.t1 = q
  BY <1>3 DEF BlakeCounts
<1>5. x.t0 = (r + inc) % W /\ x.t1 = (q + IF (r + inc) % W < inc THEN 1 ELSE 0) % W
  BY <1>4, BlakeTicked
<1>6. PICK qw \in Nat : qw = q * W
  BY <1>1
<1>7. q < W
  <2>1. CASE q >= W
    <3>1. q * W >= W * W
      BY <1>1, <2>1
    <3> QED BY <1>1, <1>2, <3>1
  <2> QED BY <1>1, <2>1
<1> HIDE DEF x
<1>8. CASE r + inc < W
  <2>1. (r + inc) % W = r + inc /\ q % W = q
    BY <1>1, <1>7, <1>8
  <2>2. c + inc = q * W + (r + inc) /\ r + inc \in 0 .. (W - 1)
    BY <1>1, <1>2, <1>6, <1>8
  <2>3. (c + inc) \div W = q /\ (c + inc) % W = r + inc
    <3>1. PICK e \in 0 .. (W - 1) : e = r + inc
      BY <2>2
    <3>2. c + inc = q * W + e
      BY <2>2, <3>1
    <3>3. (q * W + e) \div W = q /\ (q * W + e) % W = e
      BY <1>1, DivIs
    <3> QED BY <3>1, <3>2, <3>3
  <2>4. ~(r + inc < inc) /\ q + 0 = q
    BY <1>1
  <2>5. x.t0 = r + inc /\ x.t1 = q
    BY <1>5, <2>1, <2>4
  <2> QED BY <2>3, <2>5 DEF BlakeCounts, x
<1>9. CASE r + inc >= W
  <2>1. (q + 1) * W = qw + W
    BY <1>1, <1>6
  <2>2. c + inc = (q + 1) * W + (r + inc - W) /\ r + inc - W \in 0 .. (W - 1)
    BY <1>1, <1>2, <1>6, <1>9, <2>1
  <2>3. (c + inc) \div W = q + 1 /\ (c + inc) % W = r + inc - W
    <3>1. PICK e \in 0 .. (W - 1) : e = r + inc - W
      BY <2>2
    <3>2. c + inc = (q + 1) * W + e /\ q + 1 \in Int
      BY <2>2, <3>1
    <3>3. ((q + 1) * W + e) \div W = q + 1 /\ ((q + 1) * W + e) % W = e
      BY <1>1, <3>2, DivIs
    <3> QED BY <3>1, <3>2, <3>3
  <2>4. r + inc = 1 * W + (r + inc - W)
    BY <1>1
  <2>5. (r + inc) % W = r + inc - W
    <3>1. PICK e \in 0 .. (W - 1) : e = r + inc - W
      BY <2>2
    <3>2. r + inc = 1 * W + e /\ 1 \in Int
      BY <2>4, <3>1
    <3>3. (1 * W + e) % W = e
      BY ONLY <1>1, <3>2, DivIs
    <3> QED BY <3>1, <3>2, <3>3
  <2>6. r + inc - W < inc
    BY <1>1
  <2>7. q + 1 < W
    <3>1. CASE q + 1 >= W
      <4>1. (q + 1) * W >= W * W
        BY <1>1, <3>1
      <4> QED BY <1>1, <2>2, <4>1
    <3> QED BY <1>1, <3>1
  <2>8. (q + 1) % W = q + 1
    BY <1>1, <2>7
  <2>9. x.t0 = r + inc - W /\ x.t1 = q + 1
    BY <1>5, <2>5, <2>6, <2>8
  <2> QED BY <2>3, <2>9 DEF BlakeCounts, x
<1> QED BY <1>1, <1>8, <1>9

(* What memcpy() adds to the buffer.                                       *)
LEMMA BlakeFills ==
    ASSUME BlakeParameters, NEW keyed \in BOOLEAN, NEW m \in Nat, NEW off \in Nat, NEW B \in Nat, NEW lo \in 0 .. B,
           NEW n \in Nat, lo + n <= B, NEW old, IsBuffer(old, B), BlakeHolds(old, lo, keyed, m, off),
           off + lo >= KeyBytes(keyed), NEW from, from = m + 1 + off + lo - KeyBytes(keyed)
    PROVE  /\ IsBuffer(Blake!Copy(old, lo, from, n), B)
           /\ BlakeHolds(Blake!Copy(old, lo, from, n), lo + n, keyed, m, off)
<1> DEFINE new == Copy(old, lo, from, n)
           P == KeyBytes(keyed)
<1>1. Blake2bBlock \in Nat \ {0}
  BY DEF BlakeParameters
<1>2. DOMAIN old = 0 .. (B - 1)
  BY DEF IsBuffer
<1>3. new = [i \in 0 .. (B - 1) |-> IF i \in lo .. (lo + n - 1) THEN In(from + i - lo) ELSE old[i]]
  BY <1>2 DEF Copy
<1> HIDE DEF new
<1>4. IsBuffer(new, B)
  BY <1>3 DEF IsBuffer
<1>5. P \in Nat /\ (keyed => P = Blake2bBlock) /\ (~keyed => P = 0)
  BY <1>1 DEF KeyBytes
<1>6. ASSUME NEW i \in 0 .. (lo + n - 1) PROVE new[i] = BlakeByte(keyed, m, off + i)
  <2>1. i \in 0 .. (B - 1)
    OBVIOUS
  <2>2. CASE i < lo
    <3>1. ~(i \in lo .. (lo + n - 1)) /\ i \in 0 .. (lo - 1)
      BY <2>2
    <3> QED BY <1>3, <2>1, <3>1 DEF BlakeHolds
  <2>3. CASE i >= lo
    <3> HIDE DEF P
    <3>1. from = m + 1 + off + lo - P /\ off + lo >= P
      BY DEF P
    <3>2. i \in lo .. (lo + n - 1) /\ from + i - lo = m + 1 + (off + i) - P /\ off + i >= P
      BY <1>5, <2>3, <3>1
    <3>3. new[i] = In(m + 1 + (off + i) - P)
      BY <1>3, <2>1, <3>2
    <3>4. CASE keyed
      BY <1>1, <1>5, <3>2, <3>3, <3>4 DEF BlakeByte
    <3>5. CASE ~ keyed
      <4>1. m + 1 + (off + i) - P = m + 1 + (off + i)
        BY <1>5, <3>5
      <4> QED BY <3>3, <3>5, <4>1 DEF BlakeByte
    <3> QED BY <3>4, <3>5
  <2> QED BY <2>1, <2>2, <2>3
<1>7. new = Blake!Copy(old, lo, from, n)
  BY BlakeBytes DEF new
<1>8. BlakeHolds(new, lo + n, keyed, m, off)
  BY <1>6 DEF BlakeHolds
<1> QED BY <1>4, <1>7, <1>8

LEMMA BlakeHeld ==
    ASSUME NEW buf, NEW n, NEW keyed, NEW m, NEW off, BlakeHolds(buf, n, keyed, m, off), NEW i \in 0 .. (n - 1)
    PROVE  buf[i] = BlakeByte(keyed, m, off + i)
  BY DEF BlakeHolds

(* The first block of the buffer is compressed and the n bytes after it    *)
(* take its place.                                                         *)
LEMMA BlakeEmptiesShape ==
    ASSUME BlakeParameters, NEW st, BlakeShape(st), NEW n \in 0 .. Blake2bBlock, st.buflen = Blake2bBlock + n
    PROVE  LET a == Blake!Tick(st, Blake2bBlock)
               x == Blake!Shift(Blake!Compress(a), n)
           IN  /\ BlakeShape(x) /\ x.f0 = st.f0 /\ x.keyed = st.keyed /\ x.buflen = n
               /\ x.t0 = a.t0 /\ x.t1 = a.t1
               /\ \A i \in 0 .. (n - 1) : x.buf[i] = st.buf[i + Blake2bBlock]
               /\ x.h = Append(st.h, [block |-> [i \in 0 .. (Blake2bBlock - 1) |-> st.buf[i]],
                                      t0 |-> a.t0, t1 |-> a.t1, last |-> st.f0])
<1> DEFINE a == Blake!Tick(st, Blake2bBlock)
           b == Blake!Compress(a)
           x == Blake!Shift(b, n)
<1>1. Blake2bBlock \in Nat \ {0} /\ Blake2bWordMod \in Nat \ {0} /\ Blake2bBlock \in 0 .. Blake2bWordMod
  BY DEF BlakeParameters
<1>2. /\ DOMAIN st = BlakeFields /\ IsBuffer(st.buf, 2 * Blake2bBlock)
      /\ st.t0 \in 0 .. (Blake2bWordMod - 1) /\ st.t1 \in 0 .. (Blake2bWordMod - 1)
      /\ st.f0 \in BOOLEAN /\ st.keyed \in BOOLEAN
  BY DEF BlakeShape
<1>3. /\ DOMAIN a = BlakeFields /\ a.h = st.h /\ a.f0 = st.f0 /\ a.keyed = st.keyed /\ a.buf = st.buf /\ a.buflen = st.buflen
  BY <1>2, BlakeTicked
<1>4. a.t0 = (st.t0 + Blake2bBlock) % Blake2bWordMod
      /\ a.t1 = (st.t1 + IF (st.t0 + Blake2bBlock) % Blake2bWordMod < Blake2bBlock THEN 1 ELSE 0) % Blake2bWordMod
  BY <1>2, BlakeTicked
<1>5. a.t0 \in 0 .. (Blake2bWordMod - 1) /\ a.t1 \in 0 .. (Blake2bWordMod - 1)
  BY <1>1, <1>2, <1>4
<1> HIDE DEF a
<1>6. /\ DOMAIN b = BlakeFields /\ b.f0 = a.f0 /\ b.keyed = a.keyed /\ b.buf = a.buf /\ b.buflen = a.buflen
      /\ b.t0 = a.t0 /\ b.t1 = a.t1
      /\ b.h = Append(a.h, [block |-> [i \in 0 .. (Blake2bBlock - 1) |-> a.buf[i]], t0 |-> a.t0, t1 |-> a.t1, last |-> a.f0])
  BY <1>3, BlakeCompressed
<1> HIDE DEF b
<1>7. /\ DOMAIN x = BlakeFields /\ x.h = b.h /\ x.f0 = b.f0 /\ x.keyed = b.keyed
      /\ x.t0 = b.t0 /\ x.t1 = b.t1 /\ x.buflen = b.buflen - Blake2bBlock
      /\ x.buf = [i \in DOMAIN b.buf |-> IF i < n THEN b.buf[i + Blake2bBlock] ELSE b.buf[i]]
  BY <1>6, BlakeShifted
<1> HIDE DEF x
<1>8. x.f0 = st.f0 /\ x.keyed = st.keyed
  BY <1>3, <1>6, <1>7
<1>9. x.buflen = n
  BY <1>1, <1>3, <1>6, <1>7
<1>10. DOMAIN b.buf = 0 .. (2 * Blake2bBlock - 1) /\ b.buf = st.buf
  BY <1>2, <1>3, <1>6 DEF IsBuffer
<1>11. IsBuffer(x.buf, 2 * Blake2bBlock)
  BY <1>7, <1>10 DEF IsBuffer
<1>12. \A i \in 0 .. (n - 1) : x.buf[i] = st.buf[i + Blake2bBlock]
  <2> SUFFICES ASSUME NEW i \in 0 .. (n - 1) PROVE x.buf[i] = st.buf[i + Blake2bBlock]
    OBVIOUS
  <2>1. i \in 0 .. (2 * Blake2bBlock - 1) /\ i < n
    BY <1>1
  <2> QED BY <1>7, <1>10, <2>1
<1>13. BlakeShape(x)
  <2>1. x.f0 \in BOOLEAN /\ x.keyed \in BOOLEAN
    BY <1>2, <1>8
  <2>2. x.buflen \in 0 .. (2 * Blake2bBlock)
    BY <1>1, <1>9
  <2>3. x.t0 \in 0 .. (Blake2bWordMod - 1) /\ x.t1 \in 0 .. (Blake2bWordMod - 1)
    BY <1>5, <1>6, <1>7
  <2> QED BY <1>7, <1>11, <2>1, <2>2, <2>3 DEF BlakeShape
<1>14. x.h = Append(st.h, [block |-> [i \in 0 .. (Blake2bBlock - 1) |-> st.buf[i]], t0 |-> a.t0, t1 |-> a.t1, last |-> st.f0])
  BY <1>3, <1>6, <1>7
<1>15. x.t0 = a.t0 /\ x.t1 = a.t1
  BY <1>6, <1>7
<1> QED BY <1>8, <1>9, <1>12, <1>13, <1>14, <1>15 DEF x, b, a

LEMMA BlakeEmpties ==
    ASSUME BlakeParameters, NEW st, BlakeShape(st), st.f0 = FALSE, NEW m \in Nat, NEW k \in Nat, NEW n \in 1 .. Blake2bBlock,
           st.h = BlakeHashed(st.keyed, m, k), BlakeCounts(st, k * Blake2bBlock),
           BlakeHolds(st.buf, Blake2bBlock + n, st.keyed, m, k * Blake2bBlock), st.buflen = Blake2bBlock + n,
           (k + 1) * Blake2bBlock < Blake2bWordMod * Blake2bWordMod
    PROVE  BlakeAt(Blake!Shift(Blake!Compress(Blake!Tick(st, Blake2bBlock)), n), m, k + 1)
<1> DEFINE a == Blake!Tick(st, Blake2bBlock)
           x == Blake!Shift(Blake!Compress(a), n)
           cut == [i \in 0 .. (Blake2bBlock - 1) |-> st.buf[i]]
<1>1. Blake2bBlock \in Nat \ {0} /\ Blake2bWordMod \in Nat \ {0} /\ Blake2bBlock \in 0 .. Blake2bWordMod
  BY DEF BlakeParameters
<1>2. DOMAIN st = BlakeFields
  BY DEF BlakeShape
<1>3. n \in 0 .. Blake2bBlock
  BY <1>1
<1>4. /\ x.keyed = st.keyed /\ x.buflen = n /\ x.t0 = a.t0 /\ x.t1 = a.t1
      /\ \A i \in 0 .. (n - 1) : x.buf[i] = st.buf[i + Blake2bBlock]
      /\ x.h = Append(st.h, [block |-> cut, t0 |-> a.t0, t1 |-> a.t1, last |-> st.f0])
  BY <1>3, BlakeEmptiesShape
<1>5. PICK off \in Nat : off = k * Blake2bBlock
  BY <1>1
<1>6. (k + 1) * Blake2bBlock = off + Blake2bBlock /\ (k + 1 - 1) * Blake2bBlock = off
  BY <1>1, <1>5
<1>7. BlakeCounts(a, off + Blake2bBlock)
  BY <1>1, <1>2, <1>5, <1>6, BlakeTicks
<1> HIDE DEF a, x
<1>8. BlakeHolds(st.buf, Blake2bBlock + n, st.keyed, m, off)
  BY <1>5
<1>9. BlakeCounts(x, off + Blake2bBlock)
  BY <1>4, <1>7 DEF BlakeCounts
<1>10. BlakeHolds(x.buf, n, st.keyed, m, off + Blake2bBlock)
  <2> SUFFICES ASSUME NEW i \in 0 .. (n - 1) PROVE x.buf[i] = BlakeByte(st.keyed, m, off + Blake2bBlock + i)
    BY DEF BlakeHolds
  <2>1. PICK j \in 0 .. ((Blake2bBlock + n) - 1) : j = i + Blake2bBlock
    BY <1>1
  <2>2. st.buf[j] = BlakeByte(st.keyed, m, off + j)
    BY <1>8, BlakeHeld
  <2>3. off + j = off + Blake2bBlock + i
    BY <1>1, <2>1
  <2> QED BY <1>4, <2>1, <2>2, <2>3
<1>11. x.h = BlakeHashed(st.keyed, m, k + 1)
  <2>1. cut = BlakeCut(st.keyed, m, k + 1)
    <3>1. ASSUME NEW i \in 0 .. (Blake2bBlock - 1) PROVE st.buf[i] = BlakeByte(st.keyed, m, off + i)
      <4>1. i \in 0 .. ((Blake2bBlock + n) - 1)
        BY <1>1
      <4> QED BY <1>8, <4>1, BlakeHeld
    <3>2. cut = [i \in 0 .. (Blake2bBlock - 1) |-> BlakeByte(st.keyed, m, off + i)]
      BY <3>1
    <3> HIDE DEF cut
    <3> QED BY <1>6, <3>2 DEF BlakeCut
  <2> HIDE DEF cut
  <2>2. [block |-> cut, t0 |-> a.t0, t1 |-> a.t1, last |-> st.f0] = BlakeBlock(st.keyed, m, k + 1)
    <3>1. a.t0 = ((k + 1) * Blake2bBlock) % Blake2bWordMod /\ a.t1 = ((k + 1) * Blake2bBlock) \div Blake2bWordMod
      BY <1>6, <1>7 DEF BlakeCounts
    <3> QED BY <2>1, <3>1 DEF BlakeBlock
  <2> QED BY <1>4, <2>2, BlakeAppends
<1>12. BlakeAt(x, m, k + 1)
  BY <1>4, <1>6, <1>9, <1>10, <1>11 DEF BlakeAt
<1> QED BY <1>12 DEF x, a

LEMMA BlakeFresh ==
    ASSUME BlakeParameters, NEW keyed \in BOOLEAN, NEW m \in Nat
    PROVE  LET x == Blake!Fresh(keyed)
           IN  BlakeShape(x) /\ x.keyed = keyed /\ x.f0 = FALSE /\ BlakeMidway(x, 0, m, m, 0)
<1> DEFINE x == Blake!Fresh(keyed)
           buf == [i \in 0 .. (2 * Blake2bBlock - 1) |-> IF keyed /\ i < Blake2bBlock THEN Blake!Key ELSE Blake!Zero]
<1>1. Blake2bBlock \in Nat \ {0} /\ Blake2bWordMod \in Nat \ {0} /\ 0 * Blake2bBlock = 0
  BY DEF BlakeParameters
<1>2. /\ DOMAIN x = BlakeFields /\ x.h = <<>> /\ x.t0 = 0 /\ x.t1 = 0 /\ x.buf = buf
      /\ x.buflen = IF keyed THEN Blake2bBlock ELSE 0
  BY DEF Blake!Fresh, BlakeFields, Blake!Buffer
<1>3. x.f0 = FALSE /\ x.keyed = keyed
  BY DEF Blake!Fresh
<1> HIDE DEF x
<1>4. x.buflen = KeyBytes(keyed) /\ KeyBytes(keyed) \in 0 .. Blake2bBlock
  BY <1>1, <1>2 DEF KeyBytes
<1>5. IsBuffer(x.buf, 2 * Blake2bBlock)
  <2>1. buf = [i \in 0 .. (2 * Blake2bBlock - 1) |-> buf[i]]
    OBVIOUS
  <2> QED BY <1>2, <2>1 DEF IsBuffer
<1>6. BlakeShape(x)
  <2>1. x.t0 \in 0 .. (Blake2bWordMod - 1) /\ x.t1 \in 0 .. (Blake2bWordMod - 1) /\ x.buflen \in 0 .. (2 * Blake2bBlock)
    BY <1>1, <1>2, <1>4
  <2>2. x.f0 \in BOOLEAN /\ x.keyed \in BOOLEAN
    BY <1>3
  <2> QED BY <1>2, <1>5, <2>1, <2>2 DEF BlakeShape
<1>7. BlakeHolds(x.buf, x.buflen, keyed, m, 0)
  <2> SUFFICES ASSUME NEW i \in 0 .. (x.buflen - 1) PROVE x.buf[i] = BlakeByte(keyed, m, 0 + i)
    BY DEF BlakeHolds
  <2>1. keyed /\ i < Blake2bBlock /\ i \in 0 .. (2 * Blake2bBlock - 1)
    BY <1>1, <1>4 DEF KeyBytes
  <2>2. x.buf[i] = Blake!Key
    BY <1>2, <2>1
  <2> QED BY <2>1, <2>2, BlakeBytes DEF BlakeByte
<1>8. BlakeCounts(x, 0)
  BY <1>1, <1>2 DEF BlakeCounts
<1>9. BlakeHashed(keyed, m, 0) = <<>>
  BY DEF BlakeHashed
<1>10. BlakeAt(x, m, 0)
  BY <1>1, <1>2, <1>3, <1>7, <1>8, <1>9 DEF BlakeAt
<1>11. 0 * Blake2bBlock + x.buflen = m - 0 - m + KeyBytes(x.keyed)
  <2>1. x.buflen \in Int
    BY <1>1, <1>4
  <2> QED BY <1>1, <1>3, <1>4, <2>1
<1> QED BY <1>3, <1>6, <1>10, <1>11 DEF BlakeMidway, x

LEMMA BlakeInit == ASSUME BlakeParameters, Blake!Init PROVE BlakeInv
<1>1. PICK keyed \in BOOLEAN : s = Blake!Fresh(keyed)
  BY DEF Blake!Init
<1>2. todo = 0 /\ before = 0 /\ fed = 0 /\ out = <<>> /\ 0 \in 0 .. MaxIn /\ 0 \in 0 .. (0 - 0) /\ 0 \in 0 .. 0
  BY DEF Blake!Init, BlakeParameters
<1>3. BlakeShape(s) /\ BlakeMidway(s, 0, 0, 0, 0)
  BY <1>1, BlakeFresh
<1>4. BlakeHashes(out, before, s.keyed)
  BY <1>2 DEF BlakeHashes
<1> QED BY <1>2, <1>3, <1>4 DEF BlakeInv

(* The bytes of the buffer are the bytes of the message, whatever the cuts.*)
LEMMA BlakeUpdateCompresses == ASSUME BlakeParameters, BlakeInv, Blake!UpdateCompresses PROVE BlakeInv'
<1> DEFINE fill == 2 * Blake2bBlock - s.buflen
           from == fed - todo + 1
           buf == Blake!Copy(s.buf, s.buflen, from, fill)
           filled == [s EXCEPT !.buf = buf, !.buflen = 2 * Blake2bBlock]
           a == Blake!Tick(filled, Blake2bBlock)
           x == Blake!Shift(Blake!Compress(a), Blake2bBlock)
<1>1. Blake2bBlock \in Nat \ {0} /\ Blake2bWordMod \in Nat \ {0} /\ MaxIn \in Nat /\ MaxIn + Blake2bBlock < Blake2bWordMod * Blake2bWordMod
  BY DEF BlakeParameters
<1>2. todo > fill /\ s' = x /\ todo' = todo - fill /\ before' = before /\ fed' = fed /\ out' = out
  BY DEF Blake!UpdateCompresses, Blake!Buffer
<1>3. /\ DOMAIN s = BlakeFields /\ IsBuffer(s.buf, 2 * Blake2bBlock) /\ s.buflen \in 0 .. (2 * Blake2bBlock)
      /\ s.t0 \in 0 .. (Blake2bWordMod - 1) /\ s.t1 \in 0 .. (Blake2bWordMod - 1)
      /\ s.f0 \in BOOLEAN /\ s.keyed \in BOOLEAN
  BY DEF BlakeInv, BlakeShape
<1>4. fed \in 0 .. MaxIn /\ before \in 0 .. fed /\ todo \in 0 .. (fed - before)
  BY DEF BlakeInv
<1>5. fill \in 0 .. (2 * Blake2bBlock) /\ s.buflen + fill = 2 * Blake2bBlock /\ fill \in Nat
  BY <1>1, <1>3
<1>6. /\ DOMAIN filled = BlakeFields /\ filled.h = s.h /\ filled.t0 = s.t0 /\ filled.t1 = s.t1 /\ filled.f0 = s.f0
      /\ filled.keyed = s.keyed /\ filled.buf = buf /\ filled.buflen = 2 * Blake2bBlock
  BY <1>3 DEF BlakeFields
<1>7. IsBuffer(buf, 2 * Blake2bBlock)
  <2>1. DOMAIN s.buf = 0 .. (2 * Blake2bBlock - 1)
    BY <1>3 DEF IsBuffer
  <2> QED BY <2>1 DEF IsBuffer, Blake!Copy
<1> HIDE DEF fill, from, buf, filled
<1>8. BlakeShape(filled)
  <2>1. 2 * Blake2bBlock \in 0 .. (2 * Blake2bBlock)
    BY <1>1
  <2> QED BY <1>3, <1>6, <1>7, <2>1 DEF BlakeShape
<1>9. todo' \in 0 .. (fed' - before')
  BY <1>1, <1>2, <1>4, <1>5
<1>13. BlakeShape(x) /\ x.f0 = s.f0 /\ x.keyed = s.keyed /\ x.buflen = Blake2bBlock
  <2>1. Blake2bBlock \in 0 .. Blake2bBlock /\ filled.buflen = Blake2bBlock + Blake2bBlock
    BY <1>1, <1>6
  <2> QED BY <1>6, <1>8, <2>1, BlakeEmptiesShape
<1>10. BlakeHashes(out', before', s.keyed)
  BY <1>2 DEF BlakeInv
<1>11. CASE s.f0 = FALSE
  <2>1. PICK k \in Nat : BlakeMidway(s, todo, before, fed, k)
    BY <1>11 DEF BlakeInv
  <2>2. PICK off \in Nat : off = k * Blake2bBlock
    BY <1>1
  <2>3. /\ s.h = BlakeHashed(s.keyed, before, k) /\ BlakeCounts(s, k * Blake2bBlock)
        /\ BlakeHolds(s.buf, s.buflen, s.keyed, before, off)
        /\ off + s.buflen = fed - todo - before + KeyBytes(s.keyed)
    BY <2>1, <2>2 DEF BlakeMidway, BlakeAt
  <2>4. KeyBytes(s.keyed) \in 0 .. Blake2bBlock
    BY <1>1 DEF KeyBytes
  <2>5. before \in Nat /\ off + s.buflen >= KeyBytes(s.keyed) /\ from = before + 1 + off + s.buflen - KeyBytes(s.keyed)
    BY <1>1, <1>3, <1>4, <2>3, <2>4 DEF from
  <2>6. BlakeHolds(buf, s.buflen + fill, s.keyed, before, off)
    <3>1. 2 * Blake2bBlock \in Nat /\ s.buflen + fill <= 2 * Blake2bBlock
      BY <1>1, <1>5
    <3> QED BY <1>3, <1>5, <2>2, <2>3, <2>5, <3>1, BlakeFills DEF buf
  <2>7. BlakeHolds(filled.buf, Blake2bBlock + Blake2bBlock, filled.keyed, before, k * Blake2bBlock) /\ filled.buflen = Blake2bBlock + Blake2bBlock
    <3>1. s.buflen + fill = Blake2bBlock + Blake2bBlock /\ 2 * Blake2bBlock = Blake2bBlock + Blake2bBlock
      BY <1>1, <1>5
    <3> QED BY <1>6, <2>2, <2>6, <3>1
  <2>8. (k + 1) * Blake2bBlock < Blake2bWordMod * Blake2bWordMod
    <3>1. (k + 1) * Blake2bBlock = off + Blake2bBlock
      BY <1>1, <2>2
    <3>2. PICK ww \in Nat : ww = Blake2bWordMod * Blake2bWordMod
      BY <1>1
    <3>3. off + Blake2bBlock <= MaxIn + Blake2bBlock
      BY <1>1, <1>2, <1>3, <1>4, <1>5, <2>2, <2>3, <2>4 DEF fill
    <3> QED BY <1>1, <2>2, <3>1, <3>2, <3>3
  <2>9. BlakeCounts(filled, k * Blake2bBlock) /\ filled.f0 = FALSE /\ filled.h = BlakeHashed(filled.keyed, before, k)
    BY <1>6, <1>11, <2>3 DEF BlakeCounts
  <2>10. BlakeAt(x, before, k + 1)
    <3>1. Blake2bBlock \in 1 .. Blake2bBlock
      BY <1>1
    <3> QED BY <1>8, <2>5, <2>7, <2>8, <2>9, <3>1, BlakeEmpties
  <2> HIDE DEF x
  <2>11. BlakeMidway(s', todo', before', fed', k + 1)
    <3>1. (k + 1) * Blake2bBlock = off + Blake2bBlock
      BY <1>1, <2>2
    <3>2. off + Blake2bBlock + Blake2bBlock = fed' - todo' - before' + KeyBytes(s'.keyed)
      <4>1. KeyBytes(s'.keyed) = KeyBytes(s.keyed)
        BY <1>2, <1>13
      <4> QED BY <1>1, <1>2, <1>3, <1>4, <1>5, <2>2, <2>3, <2>4, <4>1
    <3> QED BY <1>2, <1>13, <2>10, <3>1, <3>2 DEF BlakeMidway
  <2>12. out = <<>>
    BY <1>11 DEF BlakeInv
  <2> QED BY <1>2, <1>4, <1>9, <1>10, <1>13, <2>11, <2>12 DEF BlakeInv
<1>12. CASE s.f0 = TRUE
  <2> HIDE DEF x
  <2> QED BY <1>2, <1>4, <1>9, <1>10, <1>12, <1>13 DEF BlakeInv
<1> QED BY <1>3, <1>11, <1>12


LEMMA BlakeUpdateIsLazy == ASSUME BlakeParameters, BlakeInv, Blake!UpdateIsLazy PROVE BlakeInv'
<1> DEFINE from == fed - todo + 1
           buf == Blake!Copy(s.buf, s.buflen, from, todo)
<1>1. Blake2bBlock \in Nat \ {0} /\ MaxIn \in Nat
  BY DEF BlakeParameters
<1>2. /\ todo \in 1 .. (2 * Blake2bBlock - s.buflen) /\ s' = [s EXCEPT !.buf = buf, !.buflen = @ + todo]
      /\ todo' = 0 /\ before' = before /\ fed' = fed /\ out' = out
  BY DEF Blake!UpdateIsLazy, Blake!Buffer
<1>3. /\ DOMAIN s = BlakeFields /\ IsBuffer(s.buf, 2 * Blake2bBlock) /\ s.buflen \in 0 .. (2 * Blake2bBlock)
      /\ s.t0 \in 0 .. (Blake2bWordMod - 1) /\ s.t1 \in 0 .. (Blake2bWordMod - 1)
      /\ s.f0 \in BOOLEAN /\ s.keyed \in BOOLEAN
  BY DEF BlakeInv, BlakeShape
<1>4. fed \in 0 .. MaxIn /\ before \in 0 .. fed /\ todo \in 0 .. (fed - before)
  BY DEF BlakeInv
<1>5. IsBuffer(buf, 2 * Blake2bBlock)
  <2>1. DOMAIN s.buf = 0 .. (2 * Blake2bBlock - 1)
    BY <1>3 DEF IsBuffer
  <2> QED BY <2>1 DEF IsBuffer, Blake!Copy
<1> HIDE DEF from, buf
<1>6. /\ DOMAIN s' = BlakeFields /\ s'.h = s.h /\ s'.t0 = s.t0 /\ s'.t1 = s.t1 /\ s'.f0 = s.f0
      /\ s'.keyed = s.keyed /\ s'.buf = buf /\ s'.buflen = s.buflen + todo
  BY <1>2, <1>3 DEF BlakeFields
<1>7. BlakeShape(s')
  <2>1. s.buflen + todo \in 0 .. (2 * Blake2bBlock)
    BY <1>1, <1>2, <1>3
  <2> QED BY <1>3, <1>5, <1>6, <2>1 DEF BlakeShape
<1>8. todo' \in 0 .. (fed' - before')
  BY <1>1, <1>2, <1>4
<1>9. BlakeHashes(out', before', s'.keyed)
  BY <1>2, <1>6 DEF BlakeInv
<1>10. CASE s.f0 = FALSE
  <2>1. PICK k \in Nat : BlakeMidway(s, todo, before, fed, k)
    BY <1>10 DEF BlakeInv
  <2>2. PICK off \in Nat : off = k * Blake2bBlock
    BY <1>1
  <2>3. /\ s.h = BlakeHashed(s.keyed, before, k) /\ BlakeCounts(s, k * Blake2bBlock)
        /\ BlakeHolds(s.buf, s.buflen, s.keyed, before, off) /\ (k > 0 => s.buflen > 0)
        /\ off + s.buflen = fed - todo - before + KeyBytes(s.keyed)
    BY <2>1, <2>2 DEF BlakeMidway, BlakeAt
  <2>4. KeyBytes(s.keyed) \in 0 .. Blake2bBlock
    BY <1>1 DEF KeyBytes
  <2>5. before \in Nat /\ off + s.buflen >= KeyBytes(s.keyed) /\ from = before + 1 + off + s.buflen - KeyBytes(s.keyed)
    BY <1>1, <1>3, <1>4, <2>3, <2>4 DEF from
  <2>6. BlakeHolds(buf, s.buflen + todo, s.keyed, before, off)
    <3>1. 2 * Blake2bBlock \in Nat /\ s.buflen + todo <= 2 * Blake2bBlock /\ todo \in Nat
      BY <1>1, <1>2, <1>3
    <3> QED BY <1>3, <2>2, <2>3, <2>5, <3>1, BlakeFills DEF buf
  <2>7. BlakeCounts(s', k * Blake2bBlock)
    BY <1>6, <2>3 DEF BlakeCounts
  <2>8. k > 0 => s'.buflen > 0
    BY <1>1, <1>2, <1>3, <1>6
  <2>9. BlakeAt(s', before, k)
    BY <1>6, <2>2, <2>3, <2>6, <2>7, <2>8 DEF BlakeAt
  <2>10. off + s'.buflen = fed' - todo' - before' + KeyBytes(s'.keyed)
    <3>1. KeyBytes(s'.keyed) = KeyBytes(s.keyed)
      BY <1>6
    <3> QED BY <1>1, <1>2, <1>3, <1>4, <1>6, <2>2, <2>3, <2>4, <3>1
  <2>11. BlakeMidway(s', todo', before', fed', k)
    BY <1>2, <2>2, <2>9, <2>10 DEF BlakeMidway
  <2>12. out = <<>>
    BY <1>10 DEF BlakeInv
  <2> QED BY <1>2, <1>4, <1>7, <1>8, <1>9, <2>11, <2>12 DEF BlakeInv
<1>11. CASE s.f0 = TRUE
  BY <1>2, <1>4, <1>6, <1>7, <1>8, <1>9, <1>11 DEF BlakeInv
<1> QED BY <1>3, <1>10, <1>11

LEMMA BlakeUpdate == ASSUME BlakeParameters, BlakeInv, NEW n \in Chunks, Blake!Update(n) PROVE BlakeInv'
<1>1. n \in Nat /\ MaxIn \in Nat
  BY DEF BlakeParameters
<1>2. todo = 0 /\ fed + n <= MaxIn /\ todo' = n /\ fed' = fed + n /\ s' = s /\ before' = before /\ out' = out
  BY DEF Blake!Update
<1>3. fed \in 0 .. MaxIn /\ before \in 0 .. fed
  BY DEF BlakeInv
<1>4. fed' \in 0 .. MaxIn /\ before' \in 0 .. fed' /\ todo' \in 0 .. (fed' - before')
  BY <1>1, <1>2, <1>3
<1>5. ASSUME NEW k \in Nat, BlakeMidway(s, todo, before, fed, k) PROVE BlakeMidway(s', todo', before', fed', k)
  <2>1. fed' - todo' = fed - todo
    BY <1>1, <1>2, <1>3
  <2> QED BY <1>2, <1>5, <2>1 DEF BlakeMidway
<1> QED BY <1>2, <1>4, <1>5 DEF BlakeInv

-----------------------------------------------------------------------------
(* blake2b_final()                                                         *)

(* What is left for the last call of the compression function.             *)
BlakeLast(st, m, size, k) ==
    /\ BlakeShape(st) /\ st.h = BlakeHashed(st.keyed, m, k) /\ BlakeCounts(st, k * Blake2bBlock)
    /\ BlakeHolds(st.buf, st.buflen, st.keyed, m, k * Blake2bBlock)
    /\ k * Blake2bBlock + st.buflen = size /\ st.buflen \in 0 .. Blake2bBlock
    /\ (st.buflen = 0 => k = 0)

BlakeOne(st) ==
    IF st.buflen > Blake2bBlock THEN Blake!Shift(Blake!Compress(Blake!Tick(st, Blake2bBlock)), st.buflen - Blake2bBlock) ELSE st

LEMMA BlakeOneIsLast ==
    ASSUME BlakeParameters, BlakeInv, todo = 0, s.f0 = FALSE
    PROVE  /\ \E k \in Nat : BlakeLast(BlakeOne(s), before, fed - before + KeyBytes(s.keyed), k)
           /\ BlakeOne(s).keyed = s.keyed
<1> DEFINE size == fed - before + KeyBytes(s.keyed)
<1>1. Blake2bBlock \in Nat \ {0} /\ Blake2bWordMod \in Nat /\ MaxIn \in Nat /\ MaxIn + Blake2bBlock < Blake2bWordMod * Blake2bWordMod
  BY DEF BlakeParameters
<1>2. BlakeShape(s) /\ s.buflen \in 0 .. (2 * Blake2bBlock)
  BY DEF BlakeInv, BlakeShape
<1>3. fed \in 0 .. MaxIn /\ before \in 0 .. fed /\ KeyBytes(s.keyed) \in 0 .. Blake2bBlock
  BY <1>1 DEF BlakeInv, KeyBytes
<1>4. PICK k \in Nat : BlakeMidway(s, todo, before, fed, k)
  BY DEF BlakeInv
<1>5. PICK off \in Nat : off = k * Blake2bBlock
  BY <1>1
<1>6. /\ s.h = BlakeHashed(s.keyed, before, k) /\ BlakeCounts(s, k * Blake2bBlock)
      /\ BlakeHolds(s.buf, s.buflen, s.keyed, before, k * Blake2bBlock) /\ (k > 0 => s.buflen > 0)
      /\ off + s.buflen = fed - todo - before + KeyBytes(s.keyed)
  BY <1>4, <1>5 DEF BlakeMidway, BlakeAt
<1>7. off + s.buflen = size /\ size <= MaxIn + Blake2bBlock /\ before \in Nat
  BY <1>1, <1>2, <1>3, <1>5, <1>6
<1> HIDE DEF size
<1>8. CASE s.buflen > Blake2bBlock
  <2> DEFINE n == s.buflen - Blake2bBlock
             x == BlakeOne(s)
  <2>1. n \in 1 .. Blake2bBlock /\ n \in 0 .. Blake2bBlock /\ s.buflen = Blake2bBlock + n
    BY <1>1, <1>2, <1>8
  <2>2. x = Blake!Shift(Blake!Compress(Blake!Tick(s, Blake2bBlock)), n)
    BY <1>8 DEF BlakeOne
  <2>3. (k + 1) * Blake2bBlock = off + Blake2bBlock
    BY <1>1, <1>5
  <2>4. (k + 1) * Blake2bBlock < Blake2bWordMod * Blake2bWordMod
    <3>1. PICK ww \in Nat : ww = Blake2bWordMod * Blake2bWordMod
      BY <1>1
    <3>2. off + Blake2bBlock <= MaxIn + Blake2bBlock
      BY <1>1, <1>2, <1>3, <1>5, <1>7, <2>1
    <3> QED BY <1>1, <1>5, <2>3, <3>1, <3>2
  <2> HIDE DEF n, x
  <2>5. BlakeShape(x) /\ x.keyed = s.keyed /\ x.buflen = n
    BY <1>2, <2>1, <2>2, BlakeEmptiesShape
  <2>6. BlakeAt(x, before, k + 1)
    BY <1>2, <1>6, <1>7, <2>1, <2>2, <2>4, BlakeEmpties
  <2>7. (k + 1) * Blake2bBlock + x.buflen = size
    BY <1>1, <1>2, <1>5, <1>7, <2>1, <2>3, <2>5
  <2>8. x.buflen \in 0 .. Blake2bBlock /\ x.buflen # 0
    BY <1>1, <2>1, <2>5
  <2>9. BlakeLast(x, before, size, k + 1)
    BY <2>5, <2>6, <2>7, <2>8 DEF BlakeLast, BlakeAt
  <2> QED BY <2>5, <2>9 DEF x, size
<1>9. CASE s.buflen <= Blake2bBlock
  <2>1. BlakeOne(s) = s
    BY <1>1, <1>2, <1>9 DEF BlakeOne
  <2>2. s.buflen \in 0 .. Blake2bBlock /\ (s.buflen = 0 => k = 0) /\ k * Blake2bBlock + s.buflen = size
    BY <1>1, <1>2, <1>5, <1>6, <1>7, <1>9
  <2>3. BlakeLast(s, before, size, k)
    BY <1>2, <1>6, <2>2 DEF BlakeLast
  <2> QED BY <2>1, <2>3 DEF size
<1> QED BY <1>1, <1>2, <1>8, <1>9

BlakeFinalBlock(st) ==
    [block |-> [i \in 0 .. (Blake2bBlock - 1) |-> Blake!ZeroFrom(st.buf, st.buflen)[i]],
     t0 |-> Blake!Tick(st, st.buflen).t0, t1 |-> Blake!Tick(st, st.buflen).t1, last |-> TRUE]

LEMMA BlakeLastBlock ==
    ASSUME BlakeParameters, NEW st, DOMAIN BlakeOne(st) = BlakeFields
    PROVE  LET one == BlakeOne(st)
               x == Blake!LastBlock(st)
           IN  /\ DOMAIN x = BlakeFields /\ x.keyed = one.keyed /\ x.buflen = one.buflen /\ x.f0 = TRUE
               /\ x.t0 = Blake!Tick(one, one.buflen).t0 /\ x.t1 = Blake!Tick(one, one.buflen).t1
               /\ x.h = Append(one.h, BlakeFinalBlock(one))
<1> DEFINE one == BlakeOne(st)
           ticked == Blake!Tick(one, one.buflen)
           two == [ticked EXCEPT !.f0 = TRUE]
           three == [two EXCEPT !.buf = Blake!ZeroFrom(@, two.buflen)]
           x == Blake!Compress(three)
<1>1. Blake!LastBlock(st) = x
  BY DEF Blake!LastBlock, BlakeOne
<1>2. /\ DOMAIN ticked = BlakeFields /\ ticked.h = one.h /\ ticked.keyed = one.keyed
      /\ ticked.buf = one.buf /\ ticked.buflen = one.buflen
  BY BlakeTicked
<1> HIDE DEF one, ticked
<1>3. /\ DOMAIN two = BlakeFields /\ two.h = ticked.h /\ two.keyed = ticked.keyed /\ two.t0 = ticked.t0 /\ two.t1 = ticked.t1
      /\ two.buf = ticked.buf /\ two.buflen = ticked.buflen
  BY <1>2 DEF BlakeFields
<1>4. two.f0 = TRUE
  BY <1>2 DEF BlakeFields
<1> HIDE DEF two
<1>5. /\ DOMAIN three = BlakeFields /\ three.h = two.h /\ three.keyed = two.keyed /\ three.t0 = two.t0 /\ three.t1 = two.t1
      /\ three.buf = Blake!ZeroFrom(two.buf, two.buflen) /\ three.buflen = two.buflen /\ three.f0 = two.f0
  BY <1>3 DEF BlakeFields
<1> HIDE DEF three
<1>6. /\ DOMAIN x = BlakeFields /\ x.f0 = three.f0 /\ x.keyed = three.keyed
      /\ x.buflen = three.buflen /\ x.t0 = three.t0 /\ x.t1 = three.t1
      /\ x.h = Append(three.h, [block |-> [i \in 0 .. (Blake2bBlock - 1) |-> three.buf[i]],
                                t0 |-> three.t0, t1 |-> three.t1, last |-> three.f0])
  BY <1>5, BlakeCompressed
<1> HIDE DEF x
<1>7. [block |-> [i \in 0 .. (Blake2bBlock - 1) |-> three.buf[i]], t0 |-> three.t0, t1 |-> three.t1, last |-> three.f0]
      = BlakeFinalBlock(one)
  <2>1. three.buf = Blake!ZeroFrom(one.buf, one.buflen) /\ three.t0 = ticked.t0 /\ three.t1 = ticked.t1
    BY <1>2, <1>3, <1>5
  <2>2. three.f0 = TRUE
    BY <1>4, <1>5
  <2> QED BY <2>1, <2>2 DEF BlakeFinalBlock, ticked
<1>8. x.f0 = TRUE
  BY <1>4, <1>5, <1>6
<1>9. x.keyed = one.keyed /\ x.buflen = one.buflen /\ x.t0 = ticked.t0 /\ x.t1 = ticked.t1
  BY <1>2, <1>3, <1>5, <1>6
<1>10. x.h = Append(one.h, BlakeFinalBlock(one))
  BY <1>2, <1>3, <1>5, <1>6, <1>7
<1> QED BY <1>1, <1>6, <1>8, <1>9, <1>10 DEF one, ticked


LEMMA BlakeDigestWhole ==
    ASSUME BlakeParameters, NEW keyed, NEW m, NEW size \in Nat, NEW n \in Nat, NEW j \in 1 .. (n - 1), j * Blake2bBlock <= size
    PROVE  BlakeDigestBlock(keyed, m, size, n, j) = BlakeBlock(keyed, m, j)
<1>1. Blake2bBlock \in Nat \ {0}
  BY DEF BlakeParameters
<1>2. PICK off \in Int : off = (j - 1) * Blake2bBlock
  BY <1>1
<1>3. PICK jb \in Int : jb = j * Blake2bBlock
  BY <1>1
<1>4. jb = off + Blake2bBlock /\ jb <= size
  BY <1>1, <1>2, <1>3
<1> DEFINE cut == [i \in 0 .. (Blake2bBlock - 1) |-> IF off + i >= size THEN Zero ELSE BlakeByte(keyed, m, off + i)]
           upTo == IF jb <= size THEN jb ELSE size
           last == j = n
<1>5. BlakeDigestBlock(keyed, m, size, n, j) = [block |-> cut, t0 |-> upTo % Blake2bWordMod, t1 |-> upTo \div Blake2bWordMod, last |-> last]
  BY <1>2, <1>3 DEF BlakeDigestBlock
<1>6. cut = BlakeCut(keyed, m, j)
  <2>1. \A i \in 0 .. (Blake2bBlock - 1) : ~(off + i >= size)
    BY <1>1, <1>4
  <2>2. cut = [i \in 0 .. (Blake2bBlock - 1) |-> BlakeByte(keyed, m, off + i)]
    BY <2>1
  <2> HIDE DEF cut
  <2> QED BY <1>2, <2>2 DEF BlakeCut
<1>7. upTo = j * Blake2bBlock
  BY <1>3, <1>4
<1>8. last = FALSE
  OBVIOUS
<1> HIDE DEF cut, upTo, last
<1> QED BY <1>5, <1>6, <1>7, <1>8 DEF BlakeBlock

LEMMA BlakeDigestLast ==
    ASSUME BlakeParameters, NEW st, NEW m \in Nat, NEW size \in Nat, size <= MaxIn + Blake2bBlock, NEW k \in Nat,
           BlakeLast(st, m, size, k)
    PROVE  BlakeDigestBlock(st.keyed, m, size, k + 1, k + 1) = BlakeFinalBlock(st)
<1>1. Blake2bBlock \in Nat \ {0} /\ Blake2bWordMod \in Nat \ {0} /\ Blake2bBlock <= Blake2bWordMod /\ MaxIn \in Nat /\ MaxIn + Blake2bBlock < Blake2bWordMod * Blake2bWordMod
  BY DEF BlakeParameters
<1>2. PICK off \in Nat : off = k * Blake2bBlock
  BY <1>1
<1>3. (k + 1 - 1) * Blake2bBlock = off /\ (k + 1) * Blake2bBlock = off + Blake2bBlock
  BY <1>1, <1>2
<1>4. BlakeShape(st) /\ BlakeCounts(st, off) /\ BlakeHolds(st.buf, st.buflen, st.keyed, m, off)
  BY <1>2 DEF BlakeLast
<1>5. off + st.buflen = size /\ st.buflen \in 0 .. Blake2bBlock
  BY <1>2 DEF BlakeLast
<1>6. DOMAIN st = BlakeFields /\ DOMAIN st.buf = 0 .. (2 * Blake2bBlock - 1)
  BY <1>4 DEF BlakeShape, IsBuffer
<1> DEFINE cut == [i \in 0 .. (Blake2bBlock - 1) |-> IF off + i >= size THEN Zero ELSE BlakeByte(st.keyed, m, off + i)]
           upTo == IF off + Blake2bBlock <= size THEN off + Blake2bBlock ELSE size
           whole == k + 1 = k + 1
<1>7. BlakeDigestBlock(st.keyed, m, size, k + 1, k + 1)
      = [block |-> cut, t0 |-> upTo % Blake2bWordMod, t1 |-> upTo \div Blake2bWordMod, last |-> whole]
  <2> DEFINE cutAt(b) == [i \in 0 .. (Blake2bBlock - 1) |-> IF b + i >= size THEN Zero ELSE BlakeByte(st.keyed, m, b + i)]
             ends(b) == IF b <= size THEN b ELSE size
  <2>1. BlakeDigestBlock(st.keyed, m, size, k + 1, k + 1)
        = [block |-> cutAt((k + 1 - 1) * Blake2bBlock), t0 |-> ends((k + 1) * Blake2bBlock) % Blake2bWordMod,
           t1 |-> ends((k + 1) * Blake2bBlock) \div Blake2bWordMod, last |-> whole]
    BY DEF BlakeDigestBlock
  <2>2. cutAt((k + 1 - 1) * Blake2bBlock) = cutAt(off) /\ ends((k + 1) * Blake2bBlock) = ends(off + Blake2bBlock)
    BY <1>3
  <2>3. cutAt(off) = cut /\ ends(off + Blake2bBlock) = upTo
    OBVIOUS
  <2> HIDE DEF cutAt, ends, cut, upTo, whole
  <2> QED BY <2>1, <2>2, <2>3
<1>8. upTo = size
  BY <1>1, <1>5
<1>9. whole = TRUE
  OBVIOUS
<1>10. Blake!Tick(st, st.buflen).t0 = size % Blake2bWordMod /\ Blake!Tick(st, st.buflen).t1 = size \div Blake2bWordMod
  <2>1. PICK ww \in Nat : ww = Blake2bWordMod * Blake2bWordMod
    BY <1>1
  <2>2. st.buflen \in 0 .. Blake2bWordMod /\ off + st.buflen < Blake2bWordMod * Blake2bWordMod
    BY <1>1, <1>5, <2>1
  <2>3. BlakeCounts(Blake!Tick(st, st.buflen), off + st.buflen)
    BY <1>4, <1>6, <2>2, BlakeTicks
  <2> QED BY <1>5, <2>3 DEF BlakeCounts
<1>11. cut = [i \in 0 .. (Blake2bBlock - 1) |-> Blake!ZeroFrom(st.buf, st.buflen)[i]]
  <2> SUFFICES ASSUME NEW i \in 0 .. (Blake2bBlock - 1)
               PROVE  (IF off + i >= size THEN Zero ELSE BlakeByte(st.keyed, m, off + i))
                      = Blake!ZeroFrom(st.buf, st.buflen)[i]
    OBVIOUS
  <2>1. Blake!ZeroFrom(st.buf, st.buflen)[i] = IF i >= st.buflen THEN Zero ELSE st.buf[i]
    <3>1. i \in DOMAIN st.buf
      BY <1>1, <1>6
    <3> QED BY <3>1, BlakeBytes DEF Blake!ZeroFrom
  <2>2. CASE i >= st.buflen
    <3>1. off + i >= size
      BY <1>1, <1>5, <2>2
    <3> QED BY <2>1, <2>2, <3>1
  <2>3. CASE i < st.buflen
    <3>1. ~(off + i >= size) /\ ~(i >= st.buflen) /\ i \in 0 .. (st.buflen - 1)
      BY <1>1, <1>5, <2>3
    <3>2. st.buf[i] = BlakeByte(st.keyed, m, off + i)
      BY <1>4, <3>1, BlakeHeld
    <3> QED BY <2>1, <3>1, <3>2
  <2> QED BY <1>1, <1>5, <2>2, <2>3
<1> HIDE DEF cut, upTo, whole
<1> QED BY <1>7, <1>8, <1>9, <1>10, <1>11 DEF BlakeFinalBlock

LEMMA BlakeDigested ==
    ASSUME BlakeParameters, NEW st, NEW m \in Nat, NEW size \in Nat, size <= MaxIn + Blake2bBlock, NEW k \in Nat,
           BlakeLast(st, m, size, k)
    PROVE  Append(st.h, BlakeFinalBlock(st)) = BlakeDigest(st.keyed, m, size)
<1> DEFINE f == BlakeHashed(st.keyed, m, k)
           e == BlakeFinalBlock(st)
           d(j) == BlakeDigestBlock(st.keyed, m, size, k + 1, j)
<1>1. Blake2bBlock \in Nat \ {0}
  BY DEF BlakeParameters
<1>2. PICK off \in Nat : off = k * Blake2bBlock
  BY <1>1
<1>3. st.h = f /\ off + st.buflen = size /\ st.buflen \in 0 .. Blake2bBlock /\ (st.buflen = 0 => k = 0)
  BY <1>2 DEF BlakeLast
<1>4. BlakeLength(size) = k + 1
  <2>1. CASE st.buflen = 0
    BY <1>1, <1>2, <1>3, <2>1 DEF BlakeLength
  <2>2. CASE st.buflen > 0
    <3>1. PICK r \in 0 .. (Blake2bBlock - 1) : r = st.buflen - 1
      BY <1>1, <1>3, <2>2
    <3>2. (k + 1) * Blake2bBlock = off + Blake2bBlock /\ k + 1 \in Int
      BY <1>1, <1>2
    <3>3. size + Blake2bBlock - 1 = (k + 1) * Blake2bBlock + r
      BY <1>1, <1>2, <1>3, <3>1, <3>2
    <3>4. ((k + 1) * Blake2bBlock + r) \div Blake2bBlock = k + 1
      BY <1>1, <3>2, DivIs
    <3>5. size # 0
      BY <1>1, <1>3, <2>2
    <3> QED BY <3>3, <3>4, <3>5 DEF BlakeLength
  <2> QED BY <1>1, <1>3, <2>1, <2>2
<1>5. \A j \in 1 .. k : BlakeBlock(st.keyed, m, j) = d(j)
  <2> SUFFICES ASSUME NEW j \in 1 .. k PROVE BlakeBlock(st.keyed, m, j) = d(j)
    OBVIOUS
  <2>1. PICK jb \in Int : jb = j * Blake2bBlock
    BY <1>1
  <2>2. jb <= off
    <3>1. CASE j = k
      BY <1>2, <2>1, <3>1
    <3>2. CASE j < k
      <4>1. j * Blake2bBlock + Blake2bBlock <= k * Blake2bBlock
        BY <1>1, <3>2, Whole
      <4> QED BY <1>1, <1>2, <2>1, <4>1
    <3> QED BY <3>1, <3>2
  <2>3. j * Blake2bBlock <= size /\ k + 1 \in Nat /\ j \in 1 .. ((k + 1) - 1)
    BY <1>1, <1>3, <2>1, <2>2
  <2> QED BY <2>3, BlakeDigestWhole
<1>6. e = d(k + 1)
  BY BlakeDigestLast
<1>7. f = [j \in 1 .. k |-> BlakeBlock(st.keyed, m, j)]
  BY DEF BlakeHashed
<1> HIDE DEF f, e, d
<1>8. f = [j \in 1 .. k |-> f[j]] /\ \A j \in 1 .. k : f[j] = d(j)
  BY <1>5, <1>7
<1>9. Append(f, e) = [j \in 1 .. (k + 1) |-> IF j = k + 1 THEN e ELSE f[j]]
  BY <1>8, Appended
<1>10. \A j \in 1 .. (k + 1) : (IF j = k + 1 THEN e ELSE f[j]) = d(j)
  BY <1>6, <1>8
<1>11. Append(f, e) = [j \in 1 .. (k + 1) |-> d(j)]
  BY <1>9, <1>10
<1> QED BY <1>3, <1>4, <1>11 DEF BlakeDigest, d, e

LEMMA BlakeFinal == ASSUME BlakeParameters, BlakeInv, Blake!Final PROVE BlakeInv'
<1> DEFINE size == fed - before + KeyBytes(s.keyed)
           x == Blake!LastBlock(s)
           one == BlakeOne(s)
<1>1. Blake2bBlock \in Nat \ {0} /\ Blake2bWordMod \in Nat \ {0} /\ MaxIn \in Nat
  BY DEF BlakeParameters
<1>2. /\ todo = 0 /\ s.f0 = FALSE /\ s' = [x EXCEPT !.h = <<>>, !.buf = Blake!Zeros(2 * Blake2bBlock)]
      /\ out' = Append(out, [len |-> fed - before, h |-> x.h])
      /\ todo' = todo /\ before' = before /\ fed' = fed
  <2>1. s.f0 \in BOOLEAN
    BY DEF BlakeInv, BlakeShape
  <2>2. s.f0 = FALSE
    BY <2>1 DEF Blake!Final
  <2> QED BY <2>2 DEF Blake!Final, Blake!Buffer
<1>3. out = <<>> /\ fed \in 0 .. MaxIn /\ before \in 0 .. fed /\ s.keyed \in BOOLEAN
  BY <1>2 DEF BlakeInv, BlakeShape
<1>4. PICK k \in Nat : BlakeLast(one, before, size, k)
  BY <1>2, BlakeOneIsLast
<1>5. one.keyed = s.keyed
  BY <1>2, BlakeOneIsLast
<1> HIDE DEF one
<1>6. DOMAIN one = BlakeFields /\ one.buflen \in 0 .. Blake2bBlock /\ one.t0 \in 0 .. (Blake2bWordMod - 1) /\ one.t1 \in 0 .. (Blake2bWordMod - 1)
  BY <1>4 DEF BlakeLast, BlakeShape
<1>7. /\ DOMAIN x = BlakeFields /\ x.keyed = one.keyed /\ x.buflen = one.buflen /\ x.f0 = TRUE
      /\ x.t0 = Blake!Tick(one, one.buflen).t0 /\ x.t1 = Blake!Tick(one, one.buflen).t1
      /\ x.h = Append(one.h, BlakeFinalBlock(one))
  BY <1>6, BlakeLastBlock DEF one
<1> HIDE DEF x
<1>8. x.t0 \in 0 .. (Blake2bWordMod - 1) /\ x.t1 \in 0 .. (Blake2bWordMod - 1)
  <2> DEFINE low == (one.t0 + one.buflen) % Blake2bWordMod
             c == IF low < one.buflen THEN 1 ELSE 0
  <2>1. x.t0 = low /\ x.t1 = (one.t1 + c) % Blake2bWordMod
    BY <1>6, <1>7, BlakeTicked
  <2>2. c \in Int
    OBVIOUS
  <2> HIDE DEF c
  <2> QED BY <1>1, <1>6, <2>1, <2>2
<1>9. /\ DOMAIN s' = BlakeFields /\ s'.keyed = x.keyed /\ s'.buflen = x.buflen /\ s'.t0 = x.t0 /\ s'.t1 = x.t1
      /\ s'.buf = Blake!Zeros(2 * Blake2bBlock) /\ s'.f0 = x.f0
  BY <1>2, <1>7 DEF BlakeFields
<1>10. IsBuffer(s'.buf, 2 * Blake2bBlock)
  BY <1>9 DEF IsBuffer, Blake!Zeros
<1>11. s'.f0 = TRUE /\ s'.keyed = s.keyed
  BY <1>5, <1>7, <1>9
<1>12. BlakeShape(s')
  <2>1. s'.f0 \in BOOLEAN /\ s'.keyed \in BOOLEAN
    BY <1>3, <1>11
  <2>2. s'.buflen \in 0 .. (2 * Blake2bBlock)
    BY <1>1, <1>6, <1>7, <1>9
  <2> QED BY <1>8, <1>9, <1>10, <2>1, <2>2 DEF BlakeShape
<1>13. x.h = BlakeDigest(s.keyed, before, size)
  <2>1. KeyBytes(s.keyed) \in 0 .. Blake2bBlock
    BY <1>1 DEF KeyBytes
  <2>2. size \in Nat /\ size <= MaxIn + Blake2bBlock /\ before \in Nat
    BY <1>1, <1>3, <2>1
  <2> HIDE DEF size
  <2>3. Append(one.h, BlakeFinalBlock(one)) = BlakeDigest(one.keyed, before, size)
    BY <1>4, <2>2, BlakeDigested
  <2> QED BY <1>5, <1>7, <2>3
<1>14. BlakeHashes(out', before', s'.keyed)
  <2> DEFINE e == [len |-> fed - before, h |-> x.h]
  <2>1. out' = <<e>>
    BY <1>2, <1>3
  <2>2. Len(out') = 1 /\ DOMAIN out' = {1} /\ out'[1].len = fed - before /\ out'[1].h = x.h
    BY <2>1
  <2> QED BY <1>2, <1>11, <1>13, <2>2 DEF BlakeHashes
<1>15. ~(s'.f0 = FALSE)
  BY <1>11
<1>16. todo' \in 0 .. (fed' - before') /\ fed' \in 0 .. MaxIn /\ before' \in 0 .. fed'
  BY <1>1, <1>2, <1>3
<1> QED BY <1>12, <1>14, <1>15, <1>16 DEF BlakeInv

LEMMA BlakeStep == ASSUME BlakeParameters, BlakeInv, [Blake!Next]_(Blake!vars) PROVE BlakeInv'
<1>1. MaxIn \in Nat /\ fed \in 0 .. MaxIn /\ before \in 0 .. fed
  BY DEF BlakeParameters, BlakeInv
<1>2. CASE Blake!Restart
  <2>1. PICK keyed \in BOOLEAN : s' = Blake!Fresh(keyed)
    BY <1>2 DEF Blake!Restart
  <2>2. todo' = 0 /\ before' = fed /\ fed' = fed /\ out' = <<>>
    BY <1>2 DEF Blake!Restart
  <2>3. BlakeShape(s') /\ BlakeMidway(s', 0, fed, fed, 0)
    <3>1. fed \in Nat
      BY <1>1
    <3> QED BY <2>1, <3>1, BlakeFresh
  <2>4. BlakeHashes(out', before', s'.keyed)
    BY <2>2 DEF BlakeHashes
  <2>5. fed' \in 0 .. MaxIn /\ before' \in 0 .. fed' /\ todo' \in 0 .. (fed' - before')
    BY <1>1, <2>2
  <2> QED BY <2>2, <2>3, <2>4, <2>5 DEF BlakeInv
<1>3. CASE \E n \in Chunks : Blake!Update(n)
  BY <1>3, BlakeUpdate
<1>4. CASE Blake!UpdateCompresses
  BY <1>4, BlakeUpdateCompresses
<1>5. CASE Blake!UpdateIsLazy
  BY <1>5, BlakeUpdateIsLazy
<1>6. CASE Blake!Final
  BY <1>6, BlakeFinal
<1>7. CASE Blake!FinalAgain \/ UNCHANGED Blake!vars
  <2>1. s' = s /\ todo' = todo /\ before' = before /\ fed' = fed /\ out' = out
    BY <1>7 DEF Blake!vars, Blake!FinalAgain
  <2> QED BY <2>1 DEF BlakeInv
<1> QED BY <1>2, <1>3, <1>4, <1>5, <1>6, <1>7 DEF Blake!Next

LEMMA BlakeSafe == ASSUME BlakeParameters, BlakeInv PROVE Blake!Blake2bHashes
<1>1. Blake!HashesTheMessage
  BY BlakeDigestIs DEF BlakeInv, BlakeHashes, Blake!HashesTheMessage
<1>2. DOMAIN s.buf = 0 .. (2 * Blake2bBlock - 1)
  BY DEF BlakeInv, BlakeShape, IsBuffer
<1>3. todo \in 0 .. fed /\ fed \in 0 .. MaxIn /\ before \in 0 .. fed
  BY DEF BlakeInv, BlakeParameters
<1> QED BY <1>1, <1>2, <1>3 DEF BlakeInv, BlakeShape, Blake!Blake2bHashes, Blake!TypeOK, Blake!Buffer

(* However a message is cut into updates, with a key or without, and       *)
(* whatever the state was used for before, blake2b_final() gives the       *)
(* digest of the whole message, every block with its byte count carried    *)
(* into the second word, only the last one with the final flag; it gives   *)
(* it once, and the buffer is never overrun.                               *)
THEOREM Blake2bDigests == ASSUME BlakeParameters PROVE Blake!Spec => []Blake!Blake2bHashes
<1>1. BlakeInv => Blake!Blake2bHashes
  BY BlakeSafe
<1>2. Blake!Init => BlakeInv
  BY BlakeInit
<1>3. BlakeInv /\ [Blake!Next]_(Blake!vars) => BlakeInv'
  BY BlakeStep
<1> QED BY <1>1, <1>2, <1>3, PTL DEF Blake!Spec

-----------------------------------------------------------------------------
(* SHA-256 and SHA-512                                                     *)

ShaFields == {"wide", "hi", "lo", "h", "buf"}

(* The first n blocks of a message that follows m bytes.                   *)
ShaHashed(m, n) == [k \in 1 .. n |-> InBlock(m + (k - 1) * Sha2Block + 1, Sha2Block)]

(* The counter says c bytes, in bits.                                      *)
ShaHigh(wide, c) == IF wide THEN ((8 * c) \div Sha2WordMod) % Sha2WordMod ELSE 0
ShaCounts(st, c) == st.lo = (8 * c) % Sha2WordMod /\ st.hi = ShaHigh(st.wide, c)

ShaShape(st) ==
    /\ DOMAIN st = ShaFields /\ IsBuffer(st.buf, Sha2Block) /\ st.wide \in BOOLEAN
    /\ \E c \in Nat : ShaCounts(st, c)

(* k blocks are hashed, and l bytes wait in the buffer.                    *)
ShaAt(st, m, k, l) == st.h = ShaHashed(m, k) /\ HoldsInput(st.buf, l, m + k * Sha2Block)

ShaMidway(st, t, m, f, k, l) ==
    ShaAt(st, m, k, l) /\ ShaCounts(st, f - m) /\ f = m + k * Sha2Block + l + t /\ (t > 0 => l = 0)

(* FIPS 180, as in Sha2, with the bytes before the message named.          *)
ShaByte(m, len, n, bits, p) ==
    IF p < len THEN In(m + 1 + p)
    ELSE IF p = len THEN Mark
    ELSE IF p >= n * Sha2Block - LengthBytes THEN Length(bits) ELSE Zero

ShaBlock(m, len, n, bits, k) == [i \in 0 .. (Sha2Block - 1) |-> ShaByte(m, len, n, bits, (k - 1) * Sha2Block + i)]
ShaLength(len) == (len + LengthBytes) \div Sha2Block + 1
ShaBits(wide, len) == <<ShaHigh(wide, len), (8 * len) % Sha2WordMod>>

ShaDigest(wide, m, len) ==
    [k \in 1 .. ShaLength(len) |-> ShaBlock(m, len, ShaLength(len), ShaBits(wide, len), k)]

ShaHashes(o, m, wide) == \A i \in DOMAIN o : o[i].h = ShaDigest(wide, m, o[i].len)

ShaInv ==
    /\ ShaShape(s)
    /\ fed \in 0 .. MaxIn /\ before \in 0 .. fed /\ todo \in 0 .. (fed - before)
    /\ out = <<>> => \E k \in Nat, l \in 0 .. (Sha2Block - 1) : ShaMidway(s, todo, before, fed, k, l)
    /\ out # <<>> => todo = 0
    /\ ShaHashes(out, before, s.wide)

LEMMA ShaBytes ==
    ASSUME NEW b, NEW l, NEW f, NEW n
    PROVE  /\ Sha!Copy(b, l, f, n) = Copy(b, l, f, n)
           /\ Sha!InBlock(f, n) = InBlock(f, n)
           /\ Sha!In(n) = In(n) /\ Sha!Length(n) = Length(n) /\ Sha!Mark = Mark /\ Sha!Zero = Zero
  BY DEF Sha!Copy, Copy, Sha!InBlock, InBlock, Sha!In, In, Sha!Length, Length, Sha!Mark, Mark, Sha!Zero, Zero

LEMMA ShaDigestIs ==
    ASSUME NEW wide, NEW len
    PROVE  Sha!Digest(wide, len) = ShaDigest(wide, before, len)
  BY DEF Sha!Digest, Sha!Cut, ShaDigest, ShaBlock, ShaByte, ShaLength, ShaBits, ShaHigh, Sha!In, In, Sha!Mark, Mark,
     Sha!Zero, Zero, Sha!Length, Length

LEMMA ShaAppends ==
    ASSUME NEW m, NEW k \in Nat
    PROVE  Append(ShaHashed(m, k), InBlock(m + k * Sha2Block + 1, Sha2Block)) = ShaHashed(m, k + 1)
<1> DEFINE f == ShaHashed(m, k)
           b(j) == InBlock(m + (j - 1) * Sha2Block + 1, Sha2Block)
           e == InBlock(m + k * Sha2Block + 1, Sha2Block)
<1>1. f = [j \in 1 .. k |-> b(j)] /\ ShaHashed(m, k + 1) = [j \in 1 .. (k + 1) |-> b(j)]
  BY DEF ShaHashed
<1>2. e = b(k + 1)
  <2>1. (k + 1) - 1 = k
    OBVIOUS
  <2> QED BY <2>1
<1> HIDE DEF f, b, e
<1>3. f = [j \in 1 .. k |-> f[j]] /\ \A j \in 1 .. k : f[j] = b(j)
  BY <1>1
<1>4. Append(f, e) = [j \in 1 .. (k + 1) |-> IF j = k + 1 THEN e ELSE f[j]]
  BY <1>3, Appended
<1>5. \A j \in 1 .. (k + 1) : (IF j = k + 1 THEN e ELSE f[j]) = b(j)
  BY <1>2, <1>3
<1>6. Append(f, e) = ShaHashed(m, k + 1)
  BY <1>1, <1>4, <1>5
<1> QED BY <1>6 DEF f, e

(* The words of the counter.                                               *)
IsSplit(W, x, q, r) ==
    q \in Nat /\ r \in 0 .. (W - 1) /\ x = q * W + r /\ x \div W = q /\ x % W = r

LEMMA Splits ==
    ASSUME NEW W \in Nat \ {0}, NEW x \in Nat
    PROVE  IsSplit(W, x, x \div W, x % W)
<1>1. x \div W \in Nat /\ x % W \in 0 .. (W - 1) /\ x = (x \div W) * W + (x % W)
  OBVIOUS
<1> QED BY <1>1 DEF IsSplit

LEMMA Parts ==
    ASSUME NEW W \in Nat \ {0}, NEW x \in Nat
    PROVE  \E q \in Nat, r \in 0 .. (W - 1) : x = q * W + r /\ x \div W = q /\ x % W = r
  BY Splits DEF IsSplit

LEMMA ModAdds ==
    ASSUME NEW W \in Nat \ {0}, NEW q \in Nat, NEW p \in Nat
    PROVE  ((q % W) + p) % W = (q + p) % W
<1>1. PICK a \in Nat, b \in 0 .. (W - 1) : q = a * W + b /\ q % W = b
  BY Parts
<1>2. PICK u \in Nat, v \in 0 .. (W - 1) : b + p = u * W + v /\ (b + p) % W = v
  <2>1. b + p \in Nat /\ W \in Nat \ {0}
    BY <1>1
  <2>2. PICK z \in Nat : z = b + p
    BY <2>1
  <2>3. \E u \in Nat, v \in 0 .. (W - 1) : z = u * W + v /\ z % W = v
    <3>1. W \in Nat \ {0} /\ z \in Nat
      BY <2>1
    <3> QED BY ONLY <3>1, Splits DEF IsSplit
  <2> QED BY <2>2, <2>3
<1>3. a * W \in Nat /\ u * W \in Nat /\ (a + u) * W = a * W + u * W /\ a + u \in Int
  OBVIOUS
<1>4. q + p = (a + u) * W + v
  BY <1>1, <1>2, <1>3
<1>5. ((a + u) * W + v) % W = v
  BY <1>3, DivIs
<1> QED BY <1>1, <1>2, <1>4, <1>5

LEMMA ShaCounted ==
    ASSUME NEW st, DOMAIN st = ShaFields, NEW n
    PROVE  LET x == Sha!Count(st, n)
               bits == (8 * n) % Sha2WordMod
               low == (st.lo + bits) % Sha2WordMod
           IN  /\ DOMAIN x = ShaFields /\ x.h = st.h /\ x.buf = st.buf /\ x.wide = st.wide
               /\ x.lo = low
               /\ x.hi = IF st.wide THEN (st.hi + (IF low < bits THEN 1 ELSE 0) + ((8 * n) \div Sha2WordMod)) % Sha2WordMod ELSE 0
  BY DEF Sha!Count, ShaFields

LEMMA ShaCarries ==
    ASSUME ShaParameters, NEW st, DOMAIN st = ShaFields, NEW c \in Nat, ShaCounts(st, c), NEW n \in Nat
    PROVE  ShaCounts(Sha!Count(st, n), c + n)
<1> DEFINE W == Sha2WordMod
           x == Sha!Count(st, n)
<1>1. W \in Nat \ {0}
  BY DEF ShaParameters
<1>2. PICK q \in Nat, r \in 0 .. (W - 1) : 8 * c = q * W + r /\ (8 * c) \div W = q /\ (8 * c) % W = r
  <2>1. 8 * c \in Nat
    OBVIOUS
  <2> QED BY <1>1, <2>1, Parts
<1>3. PICK p \in Nat, t \in 0 .. (W - 1) : 8 * n = p * W + t /\ (8 * n) \div W = p /\ (8 * n) % W = t
  <2>1. 8 * n \in Nat
    OBVIOUS
  <2> QED BY <1>1, <2>1, Parts
<1> DEFINE carry == IF (r + t) % W < t THEN 1 ELSE 0
<1>4. /\ x.wide = st.wide /\ x.lo = (r + t) % W
      /\ x.hi = IF st.wide THEN (st.hi + carry + p) % W ELSE 0
  BY <1>2, <1>3, ShaCounted DEF ShaCounts
<1>5. st.hi = IF st.wide THEN q % W ELSE 0
  BY <1>2 DEF ShaCounts, ShaHigh
<1> HIDE DEF x
<1>6. PICK qw \in Nat, pw \in Nat : qw = q * W /\ pw = p * W
  BY <1>1
<1>7. (q + p) * W = qw + pw /\ (q + p + 1) * W = qw + pw + W
  BY <1>1, <1>6
<1>8. 8 * (c + n) = qw + pw + (r + t)
  BY <1>1, <1>2, <1>3, <1>6
<1>9. (8 * (c + n)) \div W = q + p + carry /\ (8 * (c + n)) % W = (r + t) % W /\ carry \in {0, 1}
  <2>1. CASE r + t < W
    <3>1. PICK e \in 0 .. (W - 1) : e = r + t
      BY <1>1, <2>1
    <3>2. 8 * (c + n) = (q + p) * W + e /\ q + p \in Int
      BY <1>1, <1>6, <1>7, <1>8, <3>1
    <3>3. ((q + p) * W + e) \div W = q + p /\ ((q + p) * W + e) % W = e
      BY <1>1, <3>2, DivIs
    <3>4. e % W = e /\ ~(e < t)
      BY <1>1, <3>1
    <3> QED BY <3>1, <3>2, <3>3, <3>4
  <2>2. CASE r + t >= W
    <3>1. PICK e \in 0 .. (W - 1) : e = r + t - W
      BY <1>1, <2>2
    <3>2. 8 * (c + n) = (q + p + 1) * W + e /\ q + p + 1 \in Int
      BY <1>1, <1>6, <1>7, <1>8, <3>1
    <3>3. ((q + p + 1) * W + e) \div W = q + p + 1 /\ ((q + p + 1) * W + e) % W = e
      BY <1>1, <3>2, DivIs
    <3>4. r + t = 1 * W + e /\ e < t
      BY <1>1, <3>1
    <3>5. (1 * W + e) % W = e
      BY <1>1, DivIs
    <3> QED BY <3>2, <3>3, <3>4, <3>5
  <2> QED BY <1>1, <2>1, <2>2
<1> HIDE DEF carry
<1>10. ((q % W) + carry + p) % W = (q + p + carry) % W
  <2>1. carry + p \in Nat
    BY <1>9
  <2>2. ((q % W) + (carry + p)) % W = (q + (carry + p)) % W
    BY <1>1, <2>1, ModAdds
  <2>3. q % W \in Int
    BY <1>1
  <2>4. (q % W) + (carry + p) = (q % W) + carry + p /\ q + (carry + p) = q + p + carry
    BY <1>9, <2>3
  <2> QED BY <2>2, <2>4
<1>11. x.hi = IF st.wide THEN (q + p + carry) % W ELSE 0
  BY <1>4, <1>5, <1>10
<1>12. ShaCounts(x, c + n)
  BY <1>4, <1>9, <1>11 DEF ShaCounts, ShaHigh
<1> QED BY <1>12 DEF x

(* How full the buffer is.                                                 *)
LEMMA ShaResidue ==
    ASSUME ShaParameters, NEW st, NEW c \in Nat, ShaCounts(st, c), NEW k \in Nat, NEW l \in 0 .. (Sha2Block - 1), c = k * Sha2Block + l
    PROVE  Sha!Residue(st) = l
<1>1. Sha2Block \in Nat \ {0} /\ Sha2WordMod \in Nat \ {0}
  BY DEF ShaParameters
<1>2. PICK w \in 1 .. Sha2WordMod : Sha2WordMod = 8 * (w * Sha2Block)
  BY DEF ShaParameters
<1>3. PICK q \in Nat, r \in 0 .. (Sha2WordMod - 1) : 8 * c = q * Sha2WordMod + r /\ (8 * c) % Sha2WordMod = r
  <2>1. 8 * c \in Nat
    OBVIOUS
  <2> QED BY <1>1, <2>1, Parts
<1>4. PICK g \in Nat : g = q * w
  BY <1>2
<1>5. q * Sha2WordMod = 8 * (g * Sha2Block)
  BY <1>1, <1>2, <1>4
<1>6. PICK gb \in Nat : gb = g * Sha2Block
  BY <1>1
<1>7. PICK y \in Int : y = c - gb
  BY <1>6
<1>8. r = 8 * y
  BY <1>1, <1>3, <1>5, <1>6, <1>7
<1>9. r \div 8 = y
  BY <1>8
<1>10. PICK kb \in Nat : kb = k * Sha2Block
  BY <1>1
<1>11. (k - g) * Sha2Block = kb - gb /\ k - g \in Int
  BY <1>1, <1>6, <1>10
<1>12. y = (k - g) * Sha2Block + l
  BY <1>1, <1>6, <1>7, <1>10, <1>11
<1>13. y % Sha2Block = l
  BY <1>1, <1>11, <1>12, DivIs
<1>14. st.lo = r
  BY <1>3 DEF ShaCounts
<1> QED BY <1>9, <1>13, <1>14 DEF Sha!Residue


(* The words stay words, and the count is of whole bytes.                  *)
LEMMA ShaWords ==
    ASSUME ShaParameters, NEW st, NEW c \in Nat, ShaCounts(st, c)
    PROVE  st.hi \in 0 .. (Sha2WordMod - 1) /\ st.lo \in 0 .. (Sha2WordMod - 1) /\ st.lo % 8 = 0
<1>1. Sha2WordMod \in Nat \ {0}
  BY DEF ShaParameters
<1>2. PICK w \in 1 .. Sha2WordMod : Sha2WordMod = 8 * (w * Sha2Block)
  BY DEF ShaParameters
<1>3. PICK v \in Nat : v = w * Sha2Block
  BY <1>2 DEF ShaParameters
<1>4. PICK q \in Nat, r \in 0 .. (Sha2WordMod - 1) : 8 * c = q * Sha2WordMod + r /\ (8 * c) \div Sha2WordMod = q /\ (8 * c) % Sha2WordMod = r
  <2>1. 8 * c \in Nat
    OBVIOUS
  <2> QED BY <1>1, <2>1, Parts
<1>5. PICK u \in Nat : u = q * v
  BY <1>3, <1>4
<1>6. q * Sha2WordMod = 8 * u
  BY <1>2, <1>3, <1>5
<1>7. r = 8 * (c - u) /\ r \in Int /\ c - u \in Int
  BY <1>4, <1>5, <1>6
<1>8. r % 8 = 0
  BY <1>7
<1>9. st.lo = r /\ st.hi = IF st.wide THEN q % Sha2WordMod ELSE 0
  BY <1>4 DEF ShaCounts, ShaHigh
<1>10. q % Sha2WordMod \in 0 .. (Sha2WordMod - 1) /\ 0 \in 0 .. (Sha2WordMod - 1)
  BY <1>1, <1>4
<1> QED BY <1>4, <1>8, <1>9, <1>10

LEMMA ShaFresh ==
    ASSUME ShaParameters, NEW wide \in BOOLEAN, NEW buf, IsBuffer(buf, Sha2Block), NEW m \in Nat
    PROVE  LET x == Sha!Fresh(wide, buf)
           IN  ShaShape(x) /\ x.wide = wide /\ ShaMidway(x, 0, m, m, 0, 0)
<1> DEFINE x == Sha!Fresh(wide, buf)
<1>1. Sha2Block \in Nat \ {0} /\ Sha2WordMod \in Nat \ {0}
  BY DEF ShaParameters
<1>2. DOMAIN x = ShaFields /\ x.wide = wide /\ x.hi = 0 /\ x.lo = 0 /\ x.h = <<>> /\ x.buf = buf
  BY DEF Sha!Fresh, ShaFields
<1> HIDE DEF x
<1>3. ShaCounts(x, 0)
  <2>1. 8 * 0 = 0 /\ 0 % Sha2WordMod = 0 /\ 0 \div Sha2WordMod = 0
    BY <1>1
  <2> QED BY <1>2, <2>1 DEF ShaCounts, ShaHigh
<1>4. ShaShape(x)
  BY <1>2, <1>3 DEF ShaShape
<1>5. ShaHashed(m, 0) = <<>>
  BY DEF ShaHashed
<1>6. HoldsInput(x.buf, 0, m + 0 * Sha2Block)
  BY DEF HoldsInput
<1>7. ShaAt(x, m, 0, 0)
  BY <1>2, <1>5, <1>6 DEF ShaAt
<1>8. m - m = 0 /\ m = m + 0 * Sha2Block + 0 + 0 /\ ~(0 > 0)
  BY <1>1
<1>9. ShaMidway(x, 0, m, m, 0, 0)
  BY <1>3, <1>7, <1>8 DEF ShaMidway
<1> QED BY <1>2, <1>4, <1>9 DEF x

LEMMA ShaTransforms ==
    ASSUME NEW st, DOMAIN st = ShaFields, NEW b
    PROVE  LET x == Sha!Transform(st, b)
           IN  /\ DOMAIN x = ShaFields /\ x.wide = st.wide /\ x.hi = st.hi /\ x.lo = st.lo
               /\ x.buf = st.buf /\ x.h = Append(st.h, b)
  BY DEF Sha!Transform, ShaFields

(* An update counts n bytes and copies the first c of them.                *)
ShaFilled(st, n, from, c) == [Sha!Count(st, n) EXCEPT !.buf = Sha!Copy(@, Sha!Residue(st), from, c)]

LEMMA ShaFills ==
    ASSUME ShaParameters, NEW st, ShaShape(st), NEW m \in Nat, NEW f \in Nat, NEW k \in Nat, NEW l \in 0 .. (Sha2Block - 1),
           ShaMidway(st, 0, m, f, k, l), NEW n \in Nat, NEW c \in Nat, l + c <= Sha2Block
    PROVE  LET x == ShaFilled(st, n, f + 1, c)
           IN  /\ ShaShape(x) /\ x.wide = st.wide /\ x.h = ShaHashed(m, k)
               /\ HoldsInput(x.buf, l + c, m + k * Sha2Block) /\ ShaCounts(x, f + n - m)
<1> DEFINE y == Sha!Count(st, n)
           x == ShaFilled(st, n, f + 1, c)
<1>1. Sha2Block \in Nat \ {0}
  BY DEF ShaParameters
<1>2. PICK off \in Nat : off = k * Sha2Block
  BY <1>1
<1>3. DOMAIN st = ShaFields /\ IsBuffer(st.buf, Sha2Block) /\ st.wide \in BOOLEAN
  BY DEF ShaShape
<1>4. /\ st.h = ShaHashed(m, k) /\ HoldsInput(st.buf, l, m + k * Sha2Block) /\ ShaCounts(st, f - m)
      /\ f = m + off + l
  <2>1. f = m + k * Sha2Block + l + 0
    BY DEF ShaMidway
  <2> QED BY <1>1, <1>2, <2>1 DEF ShaMidway, ShaAt
<1>5. f - m \in Nat /\ f - m = k * Sha2Block + l
  BY <1>1, <1>2, <1>4
<1>6. Sha!Residue(st) = l
  BY <1>4, <1>5, ShaResidue
<1>7. ShaCounts(y, (f - m) + n)
  BY <1>3, <1>4, <1>5, ShaCarries
<1>8. DOMAIN y = ShaFields /\ y.h = st.h /\ y.buf = st.buf /\ y.wide = st.wide
  BY <1>3, ShaCounted
<1> HIDE DEF y
<1>9. /\ DOMAIN x = ShaFields /\ x.wide = y.wide /\ x.hi = y.hi /\ x.lo = y.lo /\ x.h = y.h
      /\ x.buf = Sha!Copy(y.buf, Sha!Residue(st), f + 1, c)
  BY <1>8 DEF ShaFilled, y, ShaFields
<1> HIDE DEF x
<1>10. x.buf = Copy(st.buf, l, f + 1, c)
  BY <1>6, <1>8, <1>9, ShaBytes
<1>11. IsBuffer(x.buf, Sha2Block) /\ HoldsInput(x.buf, l + c, m + off)
  <2>1. Sha2Block \in Nat /\ l \in 0 .. Sha2Block /\ m + off \in Int /\ f + 1 \in Int /\ f + 1 = (m + off) + 1 + l
    BY <1>1, <1>4
  <2>2. HoldsInput(st.buf, l, m + off)
    BY <1>2, <1>4
  <2> QED BY <1>3, <1>10, <2>1, <2>2, CopyExtends
<1>12. ShaCounts(x, f + n - m)
  <2>1. (f - m) + n = f + n - m
    OBVIOUS
  <2>2. ShaCounts(y, f + n - m)
    BY <1>7, <2>1
  <2> QED BY <1>9, <2>2 DEF ShaCounts
<1>13. ShaShape(x)
  <2>1. f + n - m \in Nat
    BY <1>5
  <2> QED BY <1>3, <1>8, <1>9, <1>11, <1>12, <2>1 DEF ShaShape
<1>14. x.wide = st.wide /\ x.h = ShaHashed(m, k)
  BY <1>4, <1>8, <1>9
<1> QED BY <1>2, <1>11, <1>12, <1>13, <1>14 DEF x

(* One more block is hashed, be it the buffer or the input itself.         *)
LEMMA ShaHashesBlock ==
    ASSUME ShaParameters, NEW st, ShaShape(st), NEW m \in Nat, NEW k \in Nat, st.h = ShaHashed(m, k),
           NEW b, b = InBlock(m + k * Sha2Block + 1, Sha2Block)
    PROVE  LET x == Sha!Transform(st, b)
           IN  /\ ShaShape(x) /\ x.wide = st.wide /\ ShaAt(x, m, k + 1, 0)
               /\ \A c : ShaCounts(st, c) => ShaCounts(x, c)
<1> DEFINE x == Sha!Transform(st, b)
<1>1. DOMAIN st = ShaFields /\ IsBuffer(st.buf, Sha2Block) /\ st.wide \in BOOLEAN
  BY DEF ShaShape
<1>2. /\ DOMAIN x = ShaFields /\ x.wide = st.wide /\ x.hi = st.hi /\ x.lo = st.lo
      /\ x.buf = st.buf /\ x.h = Append(st.h, b)
  BY <1>1, ShaTransforms
<1> HIDE DEF x
<1>3. \A c : ShaCounts(st, c) => ShaCounts(x, c)
  BY <1>2 DEF ShaCounts
<1>4. ShaShape(x)
  BY <1>1, <1>2, <1>3 DEF ShaShape
<1>5. x.h = ShaHashed(m, k + 1)
  BY <1>2, ShaAppends
<1>6. HoldsInput(x.buf, 0, m + (k + 1) * Sha2Block)
  BY DEF HoldsInput
<1>7. ShaAt(x, m, k + 1, 0)
  BY <1>5, <1>6 DEF ShaAt
<1> QED BY <1>2, <1>3, <1>4, <1>7 DEF x

LEMMA ShaInit == ASSUME ShaParameters, Sha!Init PROVE ShaInv
<1>1. PICK wide \in BOOLEAN : s = Sha!Fresh(wide, Sha!Zeros(Sha2Block))
  BY DEF Sha!Init
<1>2. IsBuffer(Sha!Zeros(Sha2Block), Sha2Block)
  BY DEF IsBuffer, Sha!Zeros
<1>3. ShaShape(s) /\ ShaMidway(s, 0, 0, 0, 0, 0)
  <2>1. 0 \in Nat
    OBVIOUS
  <2> QED BY <1>1, <1>2, <2>1, ShaFresh
<1>4. todo = 0 /\ before = 0 /\ fed = 0 /\ out = <<>>
  BY DEF Sha!Init
<1>5. 0 \in 0 .. (Sha2Block - 1) /\ 0 \in 0 .. MaxIn /\ 0 \in 0 .. 0 /\ 0 \in 0 .. (0 - 0)
  BY DEF ShaParameters
<1>6. ShaHashes(out, before, s.wide)
  BY <1>4 DEF ShaHashes
<1> QED BY <1>3, <1>4, <1>5, <1>6 DEF ShaInv

LEMMA ShaUpdateShort == ASSUME ShaParameters, ShaInv, NEW n \in Chunks, Sha!UpdateShort(n) PROVE ShaInv'
<1>1. Sha2Block \in Nat \ {0} /\ MaxIn \in Nat /\ n \in Nat
  BY DEF ShaParameters
<1>2. /\ todo = 0 /\ out = <<>> /\ fed + n <= MaxIn /\ n < Sha2Block - Sha!Residue(s)
      /\ s' = ShaFilled(s, n, fed + 1, n) /\ fed' = fed + n
      /\ todo' = todo /\ before' = before /\ out' = out
  BY DEF Sha!UpdateShort, ShaFilled
<1>3. fed \in 0 .. MaxIn /\ before \in 0 .. fed /\ ShaShape(s)
  BY DEF ShaInv
<1>4. PICK k \in Nat, l \in 0 .. (Sha2Block - 1) : ShaMidway(s, todo, before, fed, k, l)
  BY <1>2 DEF ShaInv
<1>5. PICK off \in Nat : off = k * Sha2Block
  BY <1>1
<1>6. fed = before + off + l /\ ShaCounts(s, fed - before)
  <2>1. fed = before + k * Sha2Block + l + todo /\ ShaCounts(s, fed - before)
    BY <1>4 DEF ShaMidway
  <2> QED BY <1>2, <1>3, <1>5, <2>1
<1>7. Sha!Residue(s) = l
  <2>1. fed - before \in Nat /\ fed - before = k * Sha2Block + l
    BY <1>3, <1>5, <1>6
  <2> QED BY <1>6, <2>1, ShaResidue
<1>8. l + n \in 0 .. (Sha2Block - 1) /\ l + n <= Sha2Block
  BY <1>1, <1>2, <1>7
<1>9. /\ ShaShape(s') /\ s'.wide = s.wide /\ s'.h = ShaHashed(before, k)
      /\ HoldsInput(s'.buf, l + n, before + k * Sha2Block) /\ ShaCounts(s', fed + n - before)
  <2>1. before \in Nat /\ fed \in Nat
    BY <1>1, <1>3
  <2>2. ShaMidway(s, 0, before, fed, k, l)
    BY <1>2, <1>4
  <2>3. k \in Nat /\ l \in 0 .. (Sha2Block - 1) /\ n \in Nat /\ l + n <= Sha2Block
    BY <1>1, <1>8
  <2>4. ShaShape(s) /\ s' = ShaFilled(s, n, fed + 1, n)
    BY <1>2, <1>3
  <2> QED BY ONLY ShaParameters, <2>1, <2>2, <2>3, <2>4, ShaFills
<1>10. ShaAt(s', before, k, l + n)
  BY <1>9 DEF ShaAt
<1>11. fed' = before + k * Sha2Block + (l + n) + 0 /\ ~(0 > 0)
  BY <1>1, <1>2, <1>3, <1>5, <1>6
<1>12. ShaMidway(s', todo', before', fed', k, l + n)
  <2>1. ShaCounts(s', fed' - before')
    <3>1. fed' - before' = fed + n - before
      BY <1>1, <1>2, <1>3
    <3> QED BY <3>1, <1>9
  <2>2. ShaAt(s', before', k, l + n)
    BY <1>2, <1>10
  <2>3. fed' = before' + k * Sha2Block + (l + n) + todo' /\ ~(todo' > 0)
    BY <1>2, <1>11
  <2> QED BY ONLY <2>1, <2>2, <2>3 DEF ShaMidway
<1>13. fed' \in 0 .. MaxIn /\ before' \in 0 .. fed' /\ todo' \in 0 .. (fed' - before')
  BY <1>1, <1>2, <1>3
<1>14. ShaHashes(out', before', s'.wide)
  BY <1>2 DEF ShaHashes
<1> QED BY <1>2, <1>8, <1>9, <1>12, <1>13, <1>14 DEF ShaInv

LEMMA ShaUpdateLong == ASSUME ShaParameters, ShaInv, NEW n \in Chunks, Sha!UpdateLong(n) PROVE ShaInv'
<1> DEFINE room == Sha2Block - Sha!Residue(s)
           full == ShaFilled(s, n, fed + 1, room)
<1>1. Sha2Block \in Nat \ {0} /\ MaxIn \in Nat /\ n \in Nat
  BY DEF ShaParameters
<1>2. /\ todo = 0 /\ out = <<>> /\ fed + n <= MaxIn /\ n >= room
      /\ s' = Sha!Transform(full, full.buf) /\ fed' = fed + n /\ todo' = n - room
      /\ before' = before /\ out' = out
  BY DEF Sha!UpdateLong, ShaFilled
<1>3. fed \in 0 .. MaxIn /\ before \in 0 .. fed /\ ShaShape(s) /\ before \in Nat /\ fed \in Nat
  BY <1>1 DEF ShaInv
<1>4. PICK k \in Nat, l \in 0 .. (Sha2Block - 1) : ShaMidway(s, todo, before, fed, k, l)
  BY <1>2 DEF ShaInv
<1>5. PICK off \in Nat : off = k * Sha2Block
  BY <1>1
<1>6. fed = before + off + l /\ ShaCounts(s, fed - before)
  <2>1. fed = before + k * Sha2Block + l + todo /\ ShaCounts(s, fed - before)
    BY <1>4 DEF ShaMidway
  <2> QED BY <1>2, <1>3, <1>5, <2>1
<1>7. room = Sha2Block - l
  <2>1. fed - before \in Nat /\ fed - before = k * Sha2Block + l
    BY <1>3, <1>5, <1>6
  <2>2. Sha!Residue(s) = l
    BY <1>6, <2>1, ShaResidue
  <2> QED BY <2>2
<1> HIDE DEF room
<1>8. room \in Nat /\ l + room = Sha2Block /\ l + room <= Sha2Block
  BY <1>1, <1>7
<1>9. /\ ShaShape(full) /\ full.wide = s.wide /\ full.h = ShaHashed(before, k)
      /\ HoldsInput(full.buf, l + room, before + k * Sha2Block) /\ ShaCounts(full, fed + n - before)
  BY <1>1, <1>2, <1>3, <1>4, <1>8, ShaFills
<1> HIDE DEF full
<1>10. full.buf = InBlock(before + k * Sha2Block + 1, Sha2Block)
  <2>1. Sha2Block \in Nat /\ before + k * Sha2Block \in Int
    BY <1>1, <1>3, <1>5
  <2>2. IsBuffer(full.buf, Sha2Block) /\ HoldsInput(full.buf, Sha2Block, before + k * Sha2Block)
    BY <1>8, <1>9 DEF ShaShape
  <2> QED BY <2>1, <2>2, BufferIsBlock
<1>11. ShaShape(s') /\ s'.wide = full.wide /\ ShaAt(s', before, k + 1, 0) /\ ShaCounts(s', fed + n - before)
  BY <1>2, <1>3, <1>9, <1>10, ShaHashesBlock
<1>12. fed' = before + (k + 1) * Sha2Block + 0 + todo'
  <2>1. (k + 1) * Sha2Block = off + Sha2Block
    BY <1>1, <1>5
  <2> QED BY <1>1, <1>2, <1>3, <1>5, <1>6, <1>7, <2>1
<1>13. ShaMidway(s', todo', before', fed', k + 1, 0)
  <2>1. ShaCounts(s', fed' - before')
    <3>1. fed' - before' = fed + n - before
      BY <1>1, <1>2, <1>3
    <3> QED BY <3>1, <1>11
  <2>2. ShaAt(s', before', k + 1, 0)
    BY <1>2, <1>11
  <2>3. fed' = before' + (k + 1) * Sha2Block + 0 + todo'
    BY <1>2, <1>12
  <2> QED BY ONLY <2>1, <2>2, <2>3 DEF ShaMidway
<1>14. fed' \in 0 .. MaxIn /\ before' \in 0 .. fed' /\ todo' \in 0 .. (fed' - before')
  BY <1>1, <1>2, <1>3, <1>8
<1>15. ShaHashes(out', before', s'.wide)
  BY <1>2 DEF ShaHashes
<1>16. k + 1 \in Nat /\ 0 \in 0 .. (Sha2Block - 1)
  BY <1>1
<1> QED BY <1>2, <1>11, <1>13, <1>14, <1>15, <1>16 DEF ShaInv

LEMMA ShaUpdateBlock == ASSUME ShaParameters, ShaInv, Sha!UpdateBlock PROVE ShaInv'
<1> DEFINE b == InBlock(fed - todo + 1, Sha2Block)
<1>1. Sha2Block \in Nat \ {0} /\ MaxIn \in Nat
  BY DEF ShaParameters
<1>2. /\ todo >= Sha2Block /\ s' = Sha!Transform(s, b) /\ todo' = todo - Sha2Block
      /\ before' = before /\ fed' = fed /\ out' = out
  BY ShaBytes DEF Sha!UpdateBlock
<1>3. fed \in 0 .. MaxIn /\ before \in 0 .. fed /\ todo \in 0 .. (fed - before) /\ ShaShape(s) /\ before \in Nat
  BY <1>1 DEF ShaInv
<1>4. out = <<>> /\ todo > 0
  BY <1>1, <1>2, <1>3 DEF ShaInv
<1>5. PICK k \in Nat, l \in 0 .. (Sha2Block - 1) : ShaMidway(s, todo, before, fed, k, l)
  BY <1>4 DEF ShaInv
<1>6. PICK off \in Nat : off = k * Sha2Block
  BY <1>1
<1>7. l = 0 /\ fed = before + k * Sha2Block + l + todo /\ ShaCounts(s, fed - before) /\ s.h = ShaHashed(before, k)
  BY <1>4, <1>5 DEF ShaMidway, ShaAt
<1>8. fed - todo + 1 = before + k * Sha2Block + 1
  BY <1>3, <1>6, <1>7
<1>9. b = InBlock(before + k * Sha2Block + 1, Sha2Block)
  BY <1>8
<1> HIDE DEF b
<1>10. ShaShape(s') /\ s'.wide = s.wide /\ ShaAt(s', before, k + 1, 0) /\ ShaCounts(s', fed - before)
  BY <1>2, <1>3, <1>7, <1>9, ShaHashesBlock
<1>11. fed' = before + (k + 1) * Sha2Block + 0 + todo'
  <2>1. (k + 1) * Sha2Block = off + Sha2Block
    BY <1>1, <1>6
  <2> QED BY <1>1, <1>2, <1>3, <1>6, <1>7, <2>1
<1>12. ShaMidway(s', todo', before', fed', k + 1, 0)
  <2>1. ShaCounts(s', fed' - before')
    BY <1>2, <1>10
  <2>2. ShaAt(s', before', k + 1, 0)
    BY <1>2, <1>10
  <2>3. fed' = before' + (k + 1) * Sha2Block + 0 + todo'
    BY <1>2, <1>11
  <2> QED BY ONLY <2>1, <2>2, <2>3 DEF ShaMidway
<1>13. fed' \in 0 .. MaxIn /\ before' \in 0 .. fed' /\ todo' \in 0 .. (fed' - before')
  BY <1>1, <1>2, <1>3
<1>14. ShaHashes(out', before', s'.wide)
  BY <1>2, <1>4 DEF ShaHashes
<1>15. k + 1 \in Nat /\ 0 \in 0 .. (Sha2Block - 1)
  BY <1>1
<1> QED BY <1>2, <1>4, <1>10, <1>12, <1>13, <1>14, <1>15 DEF ShaInv

LEMMA ShaUpdateTail == ASSUME ShaParameters, ShaInv, Sha!UpdateTail PROVE ShaInv'
<1> DEFINE buf == Copy(s.buf, 0, fed - todo + 1, todo)
<1>1. Sha2Block \in Nat \ {0} /\ MaxIn \in Nat
  BY DEF ShaParameters
<1>2. /\ todo \in 1 .. (Sha2Block - 1) /\ s' = [s EXCEPT !.buf = buf] /\ todo' = 0
      /\ before' = before /\ fed' = fed /\ out' = out
  BY ShaBytes DEF Sha!UpdateTail
<1>3. fed \in 0 .. MaxIn /\ before \in 0 .. fed /\ todo \in 0 .. (fed - before) /\ ShaShape(s) /\ before \in Nat
  BY <1>1 DEF ShaInv
<1>4. out = <<>> /\ todo > 0
  BY <1>1, <1>2, <1>3 DEF ShaInv
<1>5. PICK k \in Nat, l \in 0 .. (Sha2Block - 1) : ShaMidway(s, todo, before, fed, k, l)
  BY <1>4 DEF ShaInv
<1>6. PICK off \in Nat : off = k * Sha2Block
  BY <1>1
<1>7. l = 0 /\ fed = before + k * Sha2Block + l + todo /\ ShaCounts(s, fed - before) /\ s.h = ShaHashed(before, k)
  BY <1>4, <1>5 DEF ShaMidway, ShaAt
<1>8. IsBuffer(s.buf, Sha2Block) /\ DOMAIN s = ShaFields
  BY <1>3 DEF ShaShape
<1>9. IsBuffer(buf, Sha2Block) /\ HoldsInput(buf, 0 + todo, before + off)
  <2>1. /\ Sha2Block \in Nat /\ 0 \in 0 .. Sha2Block /\ todo \in Nat /\ 0 + todo <= Sha2Block /\ before + off \in Int
        /\ fed - todo + 1 \in Int /\ fed - todo + 1 = (before + off) + 1 + 0
    BY <1>1, <1>2, <1>3, <1>6, <1>7
  <2>2. HoldsInput(s.buf, 0, before + off)
    BY DEF HoldsInput
  <2> QED BY <1>8, <2>1, <2>2, CopyExtends
<1> HIDE DEF buf
<1>10. /\ DOMAIN s' = ShaFields /\ s'.wide = s.wide /\ s'.hi = s.hi /\ s'.lo = s.lo /\ s'.h = s.h /\ s'.buf = buf
  BY <1>2, <1>8 DEF ShaFields
<1>11. ShaCounts(s', fed - before) /\ ShaShape(s')
  <2>1. \A c : ShaCounts(s, c) => ShaCounts(s', c)
    BY <1>10 DEF ShaCounts
  <2>2. s.wide \in BOOLEAN /\ \E c \in Nat : ShaCounts(s, c)
    BY <1>3 DEF ShaShape
  <2> QED BY <1>7, <1>9, <1>10, <2>1, <2>2 DEF ShaShape
<1>12. ShaAt(s', before, k, todo)
  <2>1. 0 + todo = todo
    BY <1>3
  <2> QED BY <1>6, <1>7, <1>9, <1>10, <2>1 DEF ShaAt
<1>13. fed' = before + k * Sha2Block + todo + 0 /\ ~(0 > 0)
  BY <1>1, <1>2, <1>3, <1>6, <1>7
<1>14. ShaMidway(s', todo', before', fed', k, todo)
  <2>1. ShaCounts(s', fed' - before')
    BY <1>2, <1>11
  <2>2. ShaAt(s', before', k, todo)
    BY <1>2, <1>12
  <2>3. fed' = before' + k * Sha2Block + todo + todo' /\ ~(todo' > 0)
    BY <1>2, <1>13
  <2> QED BY ONLY <2>1, <2>2, <2>3 DEF ShaMidway
<1>15. fed' \in 0 .. MaxIn /\ before' \in 0 .. fed' /\ todo' \in 0 .. (fed' - before') /\ todo \in 0 .. (Sha2Block - 1)
  BY <1>1, <1>2, <1>3
<1>16. ShaHashes(out', before', s'.wide)
  BY <1>2, <1>4 DEF ShaHashes
<1> QED BY <1>2, <1>4, <1>11, <1>14, <1>15, <1>16 DEF ShaInv

-----------------------------------------------------------------------------
(* SHA256_Pad()                                                            *)

ShaMarked(b, l, end) ==
    [i \in 0 .. (Sha2Block - 1) |-> IF i = l THEN Mark ELSE IF i \in (l + 1) .. (end - 1) THEN Zero ELSE b[i]]
ShaSealed(b, hi, lo) == [i \in 0 .. (Sha2Block - 1) |-> IF i < Sha2Block - LengthBytes THEN b[i] ELSE Length(<<hi, lo>>)]

LEMMA ShaMarks ==
    ASSUME NEW b, DOMAIN b = 0 .. (Sha2Block - 1), NEW l, NEW end
    PROVE  Sha!Marked(b, l, end) = ShaMarked(b, l, end)
  BY ShaBytes DEF Sha!Marked, ShaMarked

LEMMA ShaSeals ==
    ASSUME NEW st, DOMAIN st = ShaFields, DOMAIN st.buf = 0 .. (Sha2Block - 1)
    PROVE  Sha!Sealed(st).h = Append(st.h, ShaSealed(st.buf, st.hi, st.lo))
<1> DEFINE block == [i \in DOMAIN st.buf |-> IF i < Sha!PadAt THEN st.buf[i] ELSE Sha!Length(<<st.hi, st.lo>>)]
<1>1. Sha!Sealed(st) = Sha!Transform(st, block)
  BY DEF Sha!Sealed
<1>2. block = ShaSealed(st.buf, st.hi, st.lo)
  BY ShaBytes DEF Sha!PadAt, ShaSealed
<1> HIDE DEF block
<1> QED BY <1>1, <1>2, ShaTransforms

LEMMA ShaPads ==
    ASSUME NEW st, DOMAIN st = ShaFields, DOMAIN st.buf = 0 .. (Sha2Block - 1), NEW l, Sha!Residue(st) = l
    PROVE  /\ l < Sha2Block - LengthBytes =>
                Sha!Pad(st).h = Append(st.h, ShaSealed(ShaMarked(st.buf, l, Sha2Block - LengthBytes), st.hi, st.lo))
           /\ ~(l < Sha2Block - LengthBytes) =>
                \E b : /\ \A i \in 0 .. (Sha2Block - 1) : i < Sha2Block - LengthBytes => b[i] = Zero
                       /\ Sha!Pad(st).h = Append(Append(st.h, ShaMarked(st.buf, l, Sha2Block)), ShaSealed(b, st.hi, st.lo))
<1> DEFINE once == [st EXCEPT !.buf = Sha!Marked(@, l, Sha!PadAt)]
           wrap == [st EXCEPT !.buf = Sha!Marked(@, l, Sha2Block)]
           sent == Sha!Transform(wrap, wrap.buf)
           again == [sent EXCEPT !.buf = [i \in DOMAIN @ |-> IF i < Sha!PadAt THEN Sha!Zero ELSE @[i]]]
<1>1. Sha!PadAt = Sha2Block - LengthBytes
  BY DEF Sha!PadAt
<1>2. Sha!Pad(st) = IF l < Sha!PadAt THEN Sha!Sealed(once) ELSE Sha!Sealed(again)
  BY DEF Sha!Pad
<1>3. CASE l < Sha2Block - LengthBytes
  <2>1. Sha!Pad(st) = Sha!Sealed(once)
    BY <1>1, <1>2, <1>3
  <2>2. /\ DOMAIN once = ShaFields /\ once.h = st.h /\ once.hi = st.hi /\ once.lo = st.lo
        /\ once.buf = Sha!Marked(st.buf, l, Sha2Block - LengthBytes)
    BY <1>1 DEF ShaFields
  <2> HIDE DEF once
  <2>3. once.buf = ShaMarked(st.buf, l, Sha2Block - LengthBytes)
    BY <2>2, ShaMarks
  <2>4. DOMAIN once.buf = 0 .. (Sha2Block - 1)
    BY <2>3 DEF ShaMarked
  <2>5. Sha!Sealed(once).h = Append(once.h, ShaSealed(once.buf, once.hi, once.lo))
    BY <2>2, <2>4, ShaSeals
  <2> QED BY <1>3, <2>1, <2>2, <2>3, <2>5
<1>4. CASE ~(l < Sha2Block - LengthBytes)
  <2>1. Sha!Pad(st) = Sha!Sealed(again)
    BY <1>1, <1>2, <1>4
  <2>2. /\ DOMAIN wrap = ShaFields /\ wrap.h = st.h /\ wrap.hi = st.hi /\ wrap.lo = st.lo
        /\ wrap.buf = Sha!Marked(st.buf, l, Sha2Block)
    BY DEF ShaFields
  <2> HIDE DEF wrap
  <2>3. wrap.buf = ShaMarked(st.buf, l, Sha2Block)
    BY <2>2, ShaMarks
  <2>4. /\ DOMAIN sent = ShaFields /\ sent.h = Append(wrap.h, wrap.buf) /\ sent.hi = wrap.hi /\ sent.lo = wrap.lo
        /\ sent.buf = wrap.buf
    BY <2>2, ShaTransforms
  <2> HIDE DEF sent
  <2> DEFINE b == [i \in DOMAIN sent.buf |-> IF i < Sha!PadAt THEN Sha!Zero ELSE sent.buf[i]]
  <2>5. /\ DOMAIN again = ShaFields /\ again.h = sent.h /\ again.hi = sent.hi /\ again.lo = sent.lo
        /\ again.buf = b
    BY <2>4 DEF ShaFields
  <2> HIDE DEF again
  <2>6. DOMAIN sent.buf = 0 .. (Sha2Block - 1)
    BY <2>3, <2>4 DEF ShaMarked
  <2>7. DOMAIN b = 0 .. (Sha2Block - 1)
    BY <2>6
  <2>8. \A i \in 0 .. (Sha2Block - 1) : i < Sha2Block - LengthBytes => b[i] = Zero
    BY <1>1, <2>6, ShaBytes
  <2> HIDE DEF b
  <2>9. Sha!Sealed(again).h = Append(again.h, ShaSealed(again.buf, again.hi, again.lo))
    BY <2>5, <2>7, ShaSeals
  <2>10. Sha!Pad(st).h = Append(Append(st.h, ShaMarked(st.buf, l, Sha2Block)), ShaSealed(b, st.hi, st.lo))
    BY <2>1, <2>2, <2>3, <2>4, <2>5, <2>9
  <2> QED BY <1>4, <2>8, <2>10
<1> QED BY <1>3, <1>4

(* A block that the message fills.                                         *)
LEMMA ShaWholeBlock ==
    ASSUME ShaParameters, NEW m \in Nat, NEW len \in Nat, NEW n, NEW bits, NEW j \in Nat, j * Sha2Block <= len
    PROVE  ShaBlock(m, len, n, bits, j) = InBlock(m + (j - 1) * Sha2Block + 1, Sha2Block)
<1>1. Sha2Block \in Nat \ {0}
  BY DEF ShaParameters
<1>2. PICK off \in Int : off = (j - 1) * Sha2Block
  BY <1>1
<1>3. PICK jb \in Int : jb = j * Sha2Block
  BY <1>1
<1>4. jb = off + Sha2Block /\ jb <= len
  BY <1>1, <1>2, <1>3
<1>5. ShaBlock(m, len, n, bits, j) = [i \in 0 .. (Sha2Block - 1) |-> ShaByte(m, len, n, bits, off + i)]
  BY <1>2 DEF ShaBlock
<1>6. \A i \in 0 .. (Sha2Block - 1) : ShaByte(m, len, n, bits, off + i) = In(m + off + 1 + i)
  <2> SUFFICES ASSUME NEW i \in 0 .. (Sha2Block - 1) PROVE ShaByte(m, len, n, bits, off + i) = In(m + off + 1 + i)
    OBVIOUS
  <2>1. off + i < len
    BY <1>1, <1>4
  <2>2. ShaByte(m, len, n, bits, off + i) = In(m + 1 + (off + i))
    BY <2>1 DEF ShaByte
  <2> QED BY <2>2
<1>7. InBlock(m + off + 1, Sha2Block) = [i \in 0 .. (Sha2Block - 1) |-> In(m + off + 1 + i)]
  BY DEF InBlock
<1> QED BY <1>2, <1>5, <1>6, <1>7

(* The block that starts at byte at of a message padded to e bytes.        *)
ShaStretch(m, len, bits, off, e) ==
    [i \in 0 .. (Sha2Block - 1) |-> IF off + i < len THEN In(m + 1 + (off + i))
                                ELSE IF off + i = len THEN Mark
                                ELSE IF off + i >= e - LengthBytes THEN Length(bits) ELSE Zero]

LEMMA ShaStretches ==
    ASSUME NEW m, NEW len, NEW n, NEW bits, NEW j
    PROVE  ShaBlock(m, len, n, bits, j) = ShaStretch(m, len, bits, (j - 1) * Sha2Block, n * Sha2Block)
  BY DEF ShaBlock, ShaByte, ShaStretch

(* The mark and the counter fit in the block the message ends in.          *)
LEMMA ShaOneBlock ==
    ASSUME ShaParameters, NEW m \in Nat, NEW k \in Nat, NEW l \in 0 .. (Sha2Block - 1), l < Sha2Block - LengthBytes,
           NEW len \in Nat, len = k * Sha2Block + l, NEW b, HoldsInput(b, l, m + k * Sha2Block), NEW hi, NEW lo
    PROVE  ShaSealed(ShaMarked(b, l, Sha2Block - LengthBytes), hi, lo) = ShaBlock(m, len, k + 1, <<hi, lo>>, k + 1)
<1> DEFINE P == Sha2Block - LengthBytes
           bits == <<hi, lo>>
           byte(i, a, c) == IF a + i < len THEN In(m + 1 + (a + i)) ELSE IF a + i = len THEN Mark
                             ELSE IF a + i >= c - LengthBytes THEN Length(bits) ELSE Zero
           marked == ShaMarked(b, l, P)
<1>1. Sha2Block \in Nat \ {0} /\ LengthBytes \in 0 .. Sha2Block
  BY DEF ShaParameters
<1>2. PICK off \in Nat : off = k * Sha2Block
  BY <1>1
<1>9. PICK e \in Int : e = (k + 1) * Sha2Block
  BY <1>1
<1>3. off = ((k + 1) - 1) * Sha2Block /\ e = off + Sha2Block /\ len = off + l
  BY <1>1, <1>2, <1>9
<1>4. ShaBlock(m, len, k + 1, bits, k + 1) = [i \in 0 .. (Sha2Block - 1) |-> byte(i, off, e)]
  <2>1. ShaBlock(m, len, k + 1, bits, k + 1) = ShaStretch(m, len, bits, (k + 1 - 1) * Sha2Block, (k + 1) * Sha2Block)
    BY ShaStretches
  <2>2. ShaBlock(m, len, k + 1, bits, k + 1) = ShaStretch(m, len, bits, off, e)
    BY <1>3, <1>9, <2>1
  <2> QED BY <2>2 DEF ShaStretch
<1>5. ShaSealed(marked, hi, lo) = [i \in 0 .. (Sha2Block - 1) |-> IF i < P THEN marked[i] ELSE Length(bits)]
  BY DEF ShaSealed
<1>6. \A i \in 0 .. (Sha2Block - 1) :
         marked[i] = IF i = l THEN Mark ELSE IF i \in (l + 1) .. (P - 1) THEN Zero ELSE b[i]
  BY DEF ShaMarked
<1> HIDE DEF marked, bits
<1>7. ASSUME NEW i \in 0 .. (Sha2Block - 1)
      PROVE  (IF i < P THEN marked[i] ELSE Length(bits)) = byte(i, off, e)
  <2>1. CASE i < l
    <3>1. i < P /\ i # l /\ ~(i \in (l + 1) .. (P - 1)) /\ i \in 0 .. (l - 1) /\ off + i < len
      BY <1>1, <1>3, <2>1
    <3>2. b[i] = In((m + off) + 1 + i)
      BY <1>2, <3>1 DEF HoldsInput
    <3>3. (m + off) + 1 + i = m + 1 + (off + i)
      OBVIOUS
    <3> QED BY <1>6, <3>1, <3>2, <3>3
  <2>2. CASE i = l
    <3>1. i < P /\ ~(off + i < len) /\ off + i = len
      BY <1>1, <1>3, <2>2
    <3> QED BY <1>6, <2>2, <3>1
  <2>3. CASE i > l /\ i < P
    <3>1. i # l /\ i \in (l + 1) .. (P - 1) /\ ~(off + i < len) /\ off + i # len /\ ~(off + i >= e - LengthBytes)
      BY <1>1, <1>3, <2>3
    <3> QED BY <1>6, <2>3, <3>1
  <2>4. CASE i >= P
    <3>1. ~(i < P) /\ ~(off + i < len) /\ off + i # len /\ off + i >= e - LengthBytes
      BY <1>1, <1>3, <2>4
    <3> QED BY <3>1
  <2> QED BY <1>1, <2>1, <2>2, <2>3, <2>4
<1> HIDE DEF byte, P
<1>8. ShaSealed(marked, hi, lo) = ShaBlock(m, len, k + 1, bits, k + 1)
  BY <1>4, <1>5, <1>7
<1> QED BY <1>8 DEF marked, bits, P

(* They do not: the message's last block, and a block for the counter.     *)
LEMMA ShaTwoBlocks ==
    ASSUME ShaParameters, NEW m \in Nat, NEW k \in Nat, NEW l \in 0 .. (Sha2Block - 1), ~(l < Sha2Block - LengthBytes),
           NEW len \in Nat, len = k * Sha2Block + l, NEW b, HoldsInput(b, l, m + k * Sha2Block), NEW hi, NEW lo,
           NEW z, \A i \in 0 .. (Sha2Block - 1) : i < Sha2Block - LengthBytes => z[i] = Zero
    PROVE  /\ ShaMarked(b, l, Sha2Block) = ShaBlock(m, len, k + 2, <<hi, lo>>, k + 1)
           /\ ShaSealed(z, hi, lo) = ShaBlock(m, len, k + 2, <<hi, lo>>, k + 2)
<1> DEFINE P == Sha2Block - LengthBytes
           bits == <<hi, lo>>
           byte(i, a, c) == IF a + i < len THEN In(m + 1 + (a + i)) ELSE IF a + i = len THEN Mark
                             ELSE IF a + i >= c - LengthBytes THEN Length(bits) ELSE Zero
<1>1. Sha2Block \in Nat \ {0} /\ LengthBytes \in 0 .. Sha2Block
  BY DEF ShaParameters
<1>2. PICK off \in Nat : off = k * Sha2Block
  BY <1>1
<1>12. PICK e \in Int : e = (k + 2) * Sha2Block
  BY <1>1
<1>3. /\ off = ((k + 1) - 1) * Sha2Block /\ off + Sha2Block = ((k + 2) - 1) * Sha2Block /\ e = off + 2 * Sha2Block /\ len = off + l
  BY <1>1, <1>2, <1>12
<1>4. ShaBlock(m, len, k + 2, bits, k + 1) = [i \in 0 .. (Sha2Block - 1) |-> byte(i, off, e)]
  <2>1. ShaBlock(m, len, k + 2, bits, k + 1) = ShaStretch(m, len, bits, (k + 1 - 1) * Sha2Block, (k + 2) * Sha2Block)
    BY ShaStretches
  <2>2. ShaBlock(m, len, k + 2, bits, k + 1) = ShaStretch(m, len, bits, off, e)
    BY <1>3, <1>12, <2>1
  <2> QED BY <2>2 DEF ShaStretch
<1>5. ShaBlock(m, len, k + 2, bits, k + 2) = [i \in 0 .. (Sha2Block - 1) |-> byte(i, off + Sha2Block, e)]
  <2>1. ShaBlock(m, len, k + 2, bits, k + 2) = ShaStretch(m, len, bits, (k + 2 - 1) * Sha2Block, (k + 2) * Sha2Block)
    BY ShaStretches
  <2>2. ShaBlock(m, len, k + 2, bits, k + 2) = ShaStretch(m, len, bits, off + Sha2Block, e)
    BY <1>3, <1>12, <2>1
  <2> QED BY <2>2 DEF ShaStretch
<1>6. ShaSealed(z, hi, lo) = [i \in 0 .. (Sha2Block - 1) |-> IF i < P THEN z[i] ELSE Length(bits)]
  BY DEF ShaSealed
<1>7. ShaMarked(b, l, Sha2Block) = [i \in 0 .. (Sha2Block - 1) |->
         IF i = l THEN Mark ELSE IF i \in (l + 1) .. (Sha2Block - 1) THEN Zero ELSE b[i]]
  BY DEF ShaMarked
<1> HIDE DEF bits
<1>8. ASSUME NEW i \in 0 .. (Sha2Block - 1)
      PROVE  (IF i = l THEN Mark ELSE IF i \in (l + 1) .. (Sha2Block - 1) THEN Zero ELSE b[i]) = byte(i, off, e)
  <2>1. CASE i < l
    <3>1. i # l /\ ~(i \in (l + 1) .. (Sha2Block - 1)) /\ i \in 0 .. (l - 1) /\ off + i < len
      BY <1>1, <1>3, <2>1
    <3>2. b[i] = In((m + off) + 1 + i)
      BY <1>2, <3>1 DEF HoldsInput
    <3>3. (m + off) + 1 + i = m + 1 + (off + i)
      OBVIOUS
    <3> QED BY <3>1, <3>2, <3>3
  <2>2. CASE i = l
    <3>1. ~(off + i < len) /\ off + i = len
      BY <1>1, <1>3, <2>2
    <3> QED BY <2>2, <3>1
  <2>3. CASE i > l
    <3>1. i # l /\ i \in (l + 1) .. (Sha2Block - 1) /\ ~(off + i < len) /\ off + i # len /\ ~(off + i >= e - LengthBytes)
      BY <1>1, <1>3, <2>3
    <3> QED BY <3>1
  <2> QED BY <1>1, <2>1, <2>2, <2>3
<1>9. ASSUME NEW i \in 0 .. (Sha2Block - 1)
      PROVE  (IF i < P THEN z[i] ELSE Length(bits)) = byte(i, off + Sha2Block, e)
  <2>1. ~((off + Sha2Block) + i < len) /\ (off + Sha2Block) + i # len
    BY <1>1, <1>3
  <2>2. CASE i < P
    <3>1. ~((off + Sha2Block) + i >= e - LengthBytes) /\ z[i] = Zero
      BY <1>1, <1>3, <2>2
    <3> QED BY <2>1, <2>2, <3>1
  <2>3. CASE i >= P
    <3>1. (off + Sha2Block) + i >= e - LengthBytes /\ ~(i < P)
      BY <1>1, <1>3, <2>3
    <3> QED BY <2>1, <3>1
  <2> QED BY <1>1, <2>2, <2>3
<1> HIDE DEF byte, P
<1>10. ShaMarked(b, l, Sha2Block) = ShaBlock(m, len, k + 2, bits, k + 1)
  BY <1>4, <1>7, <1>8
<1>11. ShaSealed(z, hi, lo) = ShaBlock(m, len, k + 2, bits, k + 2)
  BY <1>5, <1>6, <1>9
<1> QED BY <1>10, <1>11 DEF bits

(* The blocks of the message, and the one or two that end it.              *)
LEMMA ShaWholeBlocks ==
    ASSUME ShaParameters, NEW m \in Nat, NEW k \in Nat, NEW len \in Nat, k * Sha2Block <= len, NEW n, NEW bits
    PROVE  ShaHashed(m, k) = [j \in 1 .. k |-> ShaBlock(m, len, n, bits, j)]
<1>1. Sha2Block \in Nat \ {0}
  BY DEF ShaParameters
<1>2. PICK off \in Nat : off = k * Sha2Block
  BY <1>1
<1>3. \A j \in 1 .. k : InBlock(m + (j - 1) * Sha2Block + 1, Sha2Block) = ShaBlock(m, len, n, bits, j)
  <2> SUFFICES ASSUME NEW j \in 1 .. k PROVE InBlock(m + (j - 1) * Sha2Block + 1, Sha2Block) = ShaBlock(m, len, n, bits, j)
    OBVIOUS
  <2>1. PICK jb \in Int : jb = j * Sha2Block
    BY <1>1
  <2>2. jb <= off
    <3>1. CASE j = k
      BY <1>2, <2>1, <3>1
    <3>2. CASE j < k
      <4>1. j * Sha2Block + Sha2Block <= k * Sha2Block
        BY <1>1, <3>2, Whole
      <4> QED BY <1>1, <1>2, <2>1, <4>1
    <3> QED BY <3>1, <3>2
  <2>3. j * Sha2Block <= len /\ j \in Nat
    BY <1>2, <2>1, <2>2
  <2> QED BY <2>3, ShaWholeBlock
<1> QED BY <1>3 DEF ShaHashed

LEMMA ShaPadded ==
    ASSUME ShaParameters, NEW st, ShaShape(st), NEW m \in Nat, NEW f \in Nat, NEW k \in Nat, NEW l \in 0 .. (Sha2Block - 1),
           ShaMidway(st, 0, m, f, k, l)
    PROVE  Sha!Pad(st).h = ShaDigest(st.wide, m, f - m)
<1> DEFINE len == f - m
           bits == ShaBits(st.wide, len)
           d(n, j) == ShaBlock(m, len, n, bits, j)
<1>1. Sha2Block \in Nat \ {0} /\ LengthBytes \in 0 .. Sha2Block
  BY DEF ShaParameters
<1>2. PICK off \in Nat : off = k * Sha2Block
  BY <1>1
<1>3. DOMAIN st = ShaFields /\ DOMAIN st.buf = 0 .. (Sha2Block - 1)
  BY DEF ShaShape, IsBuffer
<1>4. /\ st.h = ShaHashed(m, k) /\ HoldsInput(st.buf, l, m + k * Sha2Block) /\ ShaCounts(st, len)
      /\ f = m + k * Sha2Block + l + 0
  BY DEF ShaMidway, ShaAt
<1>5. len \in Nat /\ len = k * Sha2Block + l /\ k * Sha2Block <= len /\ len = off + l
  BY <1>1, <1>2, <1>4
<1>6. Sha!Residue(st) = l
  BY <1>4, <1>5, ShaResidue
<1>7. bits = <<st.hi, st.lo>>
  BY <1>4 DEF ShaBits, ShaCounts
<1> HIDE DEF len, bits
<1>8. \A n : st.h = [j \in 1 .. k |-> d(n, j)]
  <2> TAKE n
  <2>1. ShaHashed(m, k) = [j \in 1 .. k |-> ShaBlock(m, len, n, bits, j)]
    BY <1>5, ShaWholeBlocks
  <2> QED BY <1>4, <2>1
<1> DEFINE n == ShaLength(len)
<1>9. ShaDigest(st.wide, m, len) = [j \in 1 .. n |-> d(n, j)]
  BY DEF ShaDigest, bits
<1>10. CASE l < Sha2Block - LengthBytes
  <2> DEFINE e == ShaSealed(ShaMarked(st.buf, l, Sha2Block - LengthBytes), st.hi, st.lo)
  <2>1. n = k + 1
    <3>1. PICK r \in 0 .. (Sha2Block - 1) : r = l + LengthBytes
      BY <1>1, <1>10
    <3>2. (k * Sha2Block + r) \div Sha2Block = k
      <4>1. k \in Int /\ r \in 0 .. (Sha2Block - 1)
        OBVIOUS
      <4> QED BY ONLY <1>1, <4>1, DivIs
    <3>3. len + LengthBytes = k * Sha2Block + r
      BY <1>1, <1>2, <1>5, <3>1
    <3> QED BY <3>2, <3>3 DEF ShaLength
  <2>2. Sha!Pad(st).h = Append(st.h, e)
    BY <1>3, <1>6, <1>10, ShaPads
  <2>3. e = d(k + 1, k + 1)
    BY <1>4, <1>5, <1>7, <1>10, ShaOneBlock
  <2> HIDE DEF e, d, n
  <2>4. st.h = [j \in 1 .. k |-> st.h[j]] /\ \A j \in 1 .. k : st.h[j] = d(k + 1, j)
    BY <1>8
  <2>5. Append(st.h, e) = [j \in 1 .. (k + 1) |-> IF j = k + 1 THEN e ELSE st.h[j]]
    BY <2>4, Appended
  <2>6. \A j \in 1 .. (k + 1) : (IF j = k + 1 THEN e ELSE st.h[j]) = d(k + 1, j)
    BY <2>3, <2>4
  <2>7. Append(st.h, e) = [j \in 1 .. (k + 1) |-> d(k + 1, j)]
    BY <2>5, <2>6
  <2> QED BY <1>9, <2>1, <2>2, <2>7 DEF len
<1>11. CASE ~(l < Sha2Block - LengthBytes)
  <2> DEFINE e == ShaMarked(st.buf, l, Sha2Block)
  <2>1. n = k + 2
    <3>1. PICK r \in Int : r = l + LengthBytes - Sha2Block
      BY <1>1
    <3>2. (k + 1) * Sha2Block = off + Sha2Block /\ k + 1 \in Int
      BY <1>1, <1>2
    <3>3. r \in 0 .. (Sha2Block - 1) /\ len + LengthBytes = (k + 1) * Sha2Block + r
      BY <1>1, <1>2, <1>5, <1>11, <3>1, <3>2
    <3>4. (len + LengthBytes) \div Sha2Block = k + 1
      BY <1>1, <3>2, <3>3, DivIs
    <3> QED BY <3>4 DEF ShaLength
  <2>2. PICK z : /\ \A i \in 0 .. (Sha2Block - 1) : i < Sha2Block - LengthBytes => z[i] = Zero
                 /\ Sha!Pad(st).h = Append(Append(st.h, e), ShaSealed(z, st.hi, st.lo))
    BY <1>3, <1>6, <1>11, ShaPads
  <2> DEFINE c == ShaSealed(z, st.hi, st.lo)
             g == Append(st.h, e)
  <2>3. e = d(k + 2, k + 1) /\ c = d(k + 2, k + 2)
    BY <1>4, <1>5, <1>7, <1>11, <2>2, ShaTwoBlocks
  <2> HIDE DEF e, c, d, n
  <2>4. st.h = [j \in 1 .. k |-> st.h[j]] /\ \A j \in 1 .. k : st.h[j] = d(k + 2, j)
    BY <1>8
  <2>5. g = [j \in 1 .. (k + 1) |-> IF j = k + 1 THEN e ELSE st.h[j]]
    BY <2>4, Appended
  <2>6. \A j \in 1 .. (k + 1) : (IF j = k + 1 THEN e ELSE st.h[j]) = d(k + 2, j)
    BY <2>3, <2>4
  <2> HIDE DEF g
  <2>7. g = [j \in 1 .. (k + 1) |-> d(k + 2, j)]
    BY <2>5, <2>6
  <2>8. g = [j \in 1 .. (k + 1) |-> g[j]] /\ \A j \in 1 .. (k + 1) : g[j] = d(k + 2, j)
    BY <2>7
  <2>9. (k + 1) + 1 = k + 2 /\ k + 1 \in Nat
    OBVIOUS
  <2>10. Append(g, c) = [j \in 1 .. (k + 2) |-> IF j = k + 2 THEN c ELSE g[j]]
    <3>1. Append(g, c) = [j \in 1 .. ((k + 1) + 1) |-> IF j = (k + 1) + 1 THEN c ELSE g[j]]
      BY <2>8, <2>9, Appended
    <3> QED BY <2>9, <3>1
  <2>11. \A j \in 1 .. (k + 2) : (IF j = k + 2 THEN c ELSE g[j]) = d(k + 2, j)
    BY <2>3, <2>8
  <2>12. Append(g, c) = [j \in 1 .. (k + 2) |-> d(k + 2, j)]
    BY <2>10, <2>11
  <2> QED BY <1>9, <2>1, <2>2, <2>12 DEF len, g, c
<1> QED BY <1>10, <1>11

LEMMA ShaFinal == ASSUME ShaParameters, ShaInv, Sha!Final PROVE ShaInv'
<1> DEFINE len == fed - before
           h == Sha!Pad(s).h
<1>1. Sha2Block \in Nat \ {0} /\ MaxIn \in Nat
  BY DEF ShaParameters
<1>2. /\ todo = 0 /\ out = <<>> /\ out' = <<[len |-> len, h |-> h]>> /\ s' = Sha!Fresh(s.wide, Sha!Zeros(Sha2Block))
      /\ todo' = todo /\ before' = before /\ fed' = fed
  BY DEF Sha!Final
<1>3. fed \in 0 .. MaxIn /\ before \in 0 .. fed /\ ShaShape(s) /\ before \in Nat /\ fed \in Nat
  BY <1>1 DEF ShaInv
<1>4. PICK k \in Nat, l \in 0 .. (Sha2Block - 1) : ShaMidway(s, todo, before, fed, k, l)
  BY <1>2 DEF ShaInv
<1>5. h = ShaDigest(s.wide, before, len)
  BY <1>2, <1>3, <1>4, ShaPadded
<1>6. IsBuffer(Sha!Zeros(Sha2Block), Sha2Block)
  BY DEF IsBuffer, Sha!Zeros
<1>7. ShaShape(s') /\ s'.wide = s.wide
  <2>1. s.wide \in BOOLEAN
    BY <1>3 DEF ShaShape
  <2> QED BY <1>2, <1>3, <1>6, <2>1, ShaFresh
<1> HIDE DEF h, len
<1>8. DOMAIN out' = {1} /\ out'[1].len = len /\ out'[1].h = h
  <2> DEFINE e == [len |-> len, h |-> h]
  <2>1. out' = <<e>>
    BY <1>2
  <2>2. Len(out') = 1 /\ DOMAIN out' = {1} /\ out'[1].len = len /\ out'[1].h = h
    BY <2>1
  <2> QED BY <2>2
<1>9. ShaHashes(out', before', s'.wide)
  BY <1>2, <1>5, <1>7, <1>8 DEF ShaHashes
<1>10. out' # <<>>
  BY <1>8
<1>11. fed' \in 0 .. MaxIn /\ before' \in 0 .. fed' /\ todo' \in 0 .. (fed' - before') /\ todo' = 0
  BY <1>1, <1>2, <1>3
<1> QED BY <1>7, <1>9, <1>10, <1>11 DEF ShaInv

LEMMA ShaStep == ASSUME ShaParameters, ShaInv, [Sha!Next]_(Sha!vars) PROVE ShaInv'
<1>1. Sha2Block \in Nat \ {0} /\ MaxIn \in Nat /\ fed \in 0 .. MaxIn /\ before \in 0 .. fed /\ ShaShape(s)
  BY DEF ShaParameters, ShaInv
<1>2. CASE Sha!Restart
  <2>1. s' = Sha!Fresh(s.wide, s.buf) /\ todo' = 0 /\ before' = fed /\ fed' = fed /\ out' = <<>>
    BY <1>2 DEF Sha!Restart
  <2>2. ShaShape(s') /\ ShaMidway(s', 0, fed, fed, 0, 0)
    <3>1. fed \in Nat /\ s.wide \in BOOLEAN /\ IsBuffer(s.buf, Sha2Block)
      BY <1>1 DEF ShaShape
    <3> QED BY <2>1, <3>1, ShaFresh
  <2>3. ShaHashes(out', before', s'.wide)
    BY <2>1 DEF ShaHashes
  <2>4. fed' \in 0 .. MaxIn /\ before' \in 0 .. fed' /\ todo' \in 0 .. (fed' - before') /\ 0 \in 0 .. (Sha2Block - 1)
    BY <1>1, <2>1
  <2> QED BY <2>1, <2>2, <2>3, <2>4 DEF ShaInv
<1>3. CASE \E n \in Chunks : Sha!UpdateShort(n) \/ Sha!UpdateLong(n)
  BY <1>3, ShaUpdateShort, ShaUpdateLong
<1>4. CASE Sha!UpdateBlock
  BY <1>4, ShaUpdateBlock
<1>5. CASE Sha!UpdateTail
  BY <1>5, ShaUpdateTail
<1>6. CASE Sha!Final
  BY <1>6, ShaFinal
<1>7. CASE UNCHANGED Sha!vars
  <2>1. s' = s /\ todo' = todo /\ before' = before /\ fed' = fed /\ out' = out
    BY <1>7 DEF Sha!vars
  <2> QED BY <2>1 DEF ShaInv
<1> QED BY <1>2, <1>3, <1>4, <1>5, <1>6, <1>7 DEF Sha!Next

LEMMA ShaSafe == ASSUME ShaParameters, ShaInv PROVE Sha!Sha2Hashes
<1>1. Sha!HashesTheMessage
  BY ShaDigestIs DEF ShaInv, ShaHashes, Sha!HashesTheMessage
<1>2. DOMAIN s.buf = 0 .. (Sha2Block - 1) /\ s.wide \in BOOLEAN
  BY DEF ShaInv, ShaShape, IsBuffer
<1>3. todo \in 0 .. fed /\ fed \in 0 .. MaxIn /\ before \in 0 .. fed
  BY DEF ShaInv, ShaParameters
<1>4. PICK c \in Nat : ShaCounts(s, c)
  BY DEF ShaInv, ShaShape
<1>5. s.hi \in 0 .. (Sha2WordMod - 1) /\ s.lo \in 0 .. (Sha2WordMod - 1) /\ s.lo % 8 = 0
  BY <1>4, ShaWords
<1> QED BY <1>1, <1>2, <1>3, <1>5 DEF Sha!Sha2Hashes, Sha!TypeOK

(* However a message is cut into updates, and whatever an earlier one left *)
(* in the buffer, final() hashes the blocks of the message, the mark, the  *)
(* zeros and the count of its bits, in one block more or in two, with the  *)
(* carry between the words of the count where there are two.               *)
THEOREM Sha2Digests == ASSUME ShaParameters PROVE Sha!Spec => []Sha!Sha2Hashes
<1>1. ShaInv => Sha!Sha2Hashes
  BY ShaSafe
<1>2. Sha!Init => ShaInv
  BY ShaInit
<1>3. ShaInv /\ [Sha!Next]_(Sha!vars) => ShaInv'
  BY ShaStep
<1> QED BY <1>1, <1>2, <1>3, PTL DEF Sha!Spec

-----------------------------------------------------------------------------
(* SHAKE, TurboSHAKE and SHA-3                                             *)

SpongeFields == {"xof", "done", "cells", "offset", "squeezing"}

SpongeBlank == [i \in 0 .. (Rate - 1) |-> {}]
SpongeBlanks(n) == [k \in 1 .. n |-> SpongeBlank]

(* A block with the first n bytes of the input after the at-th XORed in.   *)
SpongeCells(off, n) == [i \in 0 .. (Rate - 1) |-> IF i < n THEN {In(off + 1 + i)} ELSE {}]

(* The first k blocks of a message that follows m bytes.                   *)
SpongeAbsorbed(m, k) == [j \in 1 .. k |-> SpongeCells(m + (j - 1) * Rate, Rate)]

(* FIPS 202, as in Sponge, with the bytes before the message named.        *)
SpongePadByte(m, len, n, p) ==
    (IF p < len THEN {In(m + 1 + p)} ELSE {})
    \cup (IF p = len THEN {Mark} ELSE {})
    \cup (IF p = n * Rate - 1 THEN {EndBit} ELSE {})

SpongePadBlock(m, len, n, j) == [i \in 0 .. (Rate - 1) |-> SpongePadByte(m, len, n, (j - 1) * Rate + i)]
SpongeLength(len) == len \div Rate + 1
SpongePadded(m, len) == [j \in 1 .. SpongeLength(len) |-> SpongePadBlock(m, len, SpongeLength(len), j)]

(* The output: d are the blocks permuted until it starts.                  *)
SpongeStride(xof) == IF xof THEN Rate ELSE OutLen
SpongeByte(d, stride, j) ==
    [done |-> d \o SpongeBlanks((j - 1) \div stride), at |-> (j - 1) % stride, cell |-> {}]
SpongeBytes(d, stride, n) == [j \in 1 .. n |-> SpongeByte(d, stride, j)]

IsList(f) == \E n \in Nat : f = [k \in 1 .. n |-> f[k]]

SpongeShape(st) == DOMAIN st = SpongeFields /\ st.xof \in BOOLEAN /\ st.squeezing \in BOOLEAN

(* Absorbing: k blocks are permuted, and l bytes are in the next.          *)
SpongeAt(st, m, b, k, l) ==
    st.done = b \o SpongeAbsorbed(m, k) /\ st.cells = SpongeCells(m + k * Rate, l) /\ st.offset = l

SpongeAbsorbs(st, t, m, f, b, k) ==
    /\ SpongeAt(st, m, b, k, st.offset) /\ st.offset \in 0 .. Rate
    /\ f = m + k * Rate + st.offset + t /\ (t > 0 => st.offset = 0)

(* Squeezing: q permutations after the last of the message.                *)
SpongeGone(st, d, q, o) == st.done = d \o SpongeBlanks(q) /\ st.cells = SpongeBlank /\ st.offset = o

SpongeSqueezed(st, t, d, n, q) ==
    /\ SpongeGone(st, d, q, st.offset) /\ st.offset \in 0 .. Rate
    /\ st.xof = TRUE => /\ n = q * Rate + st.offset /\ (t > 0 => st.offset = 0)
                        /\ (t = 0 /\ st.offset = 0 => q = 0)
    /\ st.xof = FALSE => n = (q + 1) * OutLen /\ st.offset = 0 /\ t = 0

SpongeInv ==
    /\ SpongeShape(s) /\ IsList(base)
    /\ fed \in 0 .. MaxIn /\ before \in 0 .. fed /\ todo \in Nat
    /\ s.squeezing = FALSE => out = <<>> /\ \E k \in Nat : SpongeAbsorbs(s, todo, before, fed, base, k)
    /\ s.squeezing = TRUE =>
         \E q \in Nat, n \in Nat :
            /\ SpongeSqueezed(s, todo, base \o SpongePadded(before, fed - before), n, q)
            /\ out = SpongeBytes(base \o SpongePadded(before, fed - before), SpongeStride(s.xof), n)

LEMMA SpongeSame ==
    /\ Keccak!Blank = SpongeBlank /\ \A n : Keccak!Blanks(n) = SpongeBlanks(n)
    /\ \A len : Keccak!Padded(len) = SpongePadded(before, len)
    /\ \A n : Keccak!In(n) = In(n)
    /\ Keccak!Mark = Mark /\ Keccak!EndBit = EndBit
<1>1. \A n : Keccak!In(n) = In(n)
  BY DEF Keccak!In, In
<1>2. Keccak!Mark = Mark /\ Keccak!EndBit = EndBit
  BY DEF Keccak!Mark, Mark, Keccak!EndBit, EndBit
<1>3. Keccak!Blank = SpongeBlank /\ \A n : Keccak!Blanks(n) = SpongeBlanks(n)
  BY DEF Keccak!Blank, SpongeBlank, Keccak!Blanks, SpongeBlanks
<1>4. ASSUME NEW len PROVE Keccak!Padded(len) = SpongePadded(before, len)
  BY DEF Keccak!Padded, Keccak!Cut, SpongePadded, SpongePadBlock, SpongePadByte, SpongeLength, Keccak!In, In,
     Keccak!Mark, Mark, Keccak!EndBit, EndBit
<1> QED BY <1>1, <1>2, <1>3, <1>4

-----------------------------------------------------------------------------
(* Lists.                                                                  *)
LEMMA Joined ==
    ASSUME NEW m \in Nat, NEW n \in Nat, NEW f, f = [k \in 1 .. m |-> f[k]], NEW g, g = [k \in 1 .. n |-> g[k]]
    PROVE  f \o g = [k \in 1 .. (m + n) |-> IF k <= m THEN f[k] ELSE g[k - m]]
<1> DEFINE S == {f[k] : k \in 1 .. m} \cup {g[k] : k \in 1 .. n}
<1>1. f \in [1 .. m -> S] /\ g \in [1 .. n -> S]
  OBVIOUS
<1> HIDE DEF S
<1>2. f \in Seq(S) /\ g \in Seq(S) /\ Len(f) = m /\ Len(g) = n
  BY <1>1
<1> QED BY <1>2

(* One list after another.                                                 *)
SpongeThen(f, g) == f \o g

IsListOf(f, n) == n \in Nat /\ f = [k \in 1 .. n |-> f[k]]

LEMMA Follows ==
    ASSUME NEW m, NEW n, NEW f, IsListOf(f, m), NEW g, IsListOf(g, n)
    PROVE  LET h == SpongeThen(f, g)
           IN  /\ IsListOf(h, m + n)
               /\ \A k \in 1 .. m : h[k] = f[k]
               /\ \A k \in 1 .. (m + n) : ~(k <= m) => h[k] = g[k - m]
<1> DEFINE h == SpongeThen(f, g)
<1>1. h = [k \in 1 .. (m + n) |-> IF k <= m THEN f[k] ELSE g[k - m]]
  BY Joined DEF SpongeThen, IsListOf
<1> HIDE DEF h
<1>2. h = [k \in 1 .. (m + n) |-> h[k]]
  BY <1>1
<1>3. \A k \in 1 .. m : h[k] = f[k]
  <2> SUFFICES ASSUME NEW k \in 1 .. m PROVE h[k] = f[k]
    OBVIOUS
  <2>1. k \in 1 .. (m + n) /\ k <= m
    BY DEF IsListOf
  <2> QED BY <1>1, <2>1
<1>4. \A k \in 1 .. (m + n) : ~(k <= m) => h[k] = g[k - m]
  BY <1>1
<1>5. IsListOf(h, m + n)
  BY <1>2 DEF IsListOf
<1> QED BY <1>3, <1>4, <1>5 DEF h

LEMMA ListAppends ==
    ASSUME NEW f, IsList(f), NEW g, IsList(g), NEW e
    PROVE  IsList(f \o g) /\ IsList(Append(g, e)) /\ Append(f \o g, e) = f \o Append(g, e)
<1>1. PICK m \in Nat : f = [k \in 1 .. m |-> f[k]]
  BY DEF IsList
<1>2. PICK n \in Nat : g = [k \in 1 .. n |-> g[k]]
  BY DEF IsList
<1> DEFINE h == f \o g
           x == Append(g, e)
<1>3. h = [k \in 1 .. (m + n) |-> IF k <= m THEN f[k] ELSE g[k - m]]
  BY <1>1, <1>2, Joined
<1>4. x = [k \in 1 .. (n + 1) |-> IF k = n + 1 THEN e ELSE g[k]]
  BY <1>2, Appended
<1> HIDE DEF h, x
<1>5. h = [k \in 1 .. (m + n) |-> h[k]] /\ m + n \in Nat
  BY <1>3
<1>6. x = [k \in 1 .. (n + 1) |-> x[k]] /\ n + 1 \in Nat
  BY <1>4
<1>7. Append(h, e) = [k \in 1 .. ((m + n) + 1) |-> IF k = (m + n) + 1 THEN e ELSE h[k]]
  BY <1>5, Appended
<1>8. f \o x = [k \in 1 .. (m + (n + 1)) |-> IF k <= m THEN f[k] ELSE x[k - m]]
  BY <1>1, <1>6, Joined
<1>9. m + (n + 1) = (m + n) + 1
  OBVIOUS
<1>10. ASSUME NEW k \in 1 .. ((m + n) + 1)
       PROVE  (IF k = (m + n) + 1 THEN e ELSE h[k]) = (IF k <= m THEN f[k] ELSE x[k - m])
  <2>1. CASE k = (m + n) + 1
    <3>1. ~(k <= m) /\ k - m = n + 1 /\ n + 1 \in 1 .. (n + 1)
      BY <2>1
    <3>2. x[n + 1] = e
      BY <1>4, <3>1
    <3> QED BY <2>1, <3>1, <3>2
  <2>2. CASE k # (m + n) + 1
    <3>1. k \in 1 .. (m + n)
      BY <2>2
    <3>2. h[k] = IF k <= m THEN f[k] ELSE g[k - m]
      BY <1>3, <3>1
    <3>3. CASE k <= m
      BY <2>2, <3>2, <3>3
    <3>4. CASE ~(k <= m)
      <4>1. k - m \in 1 .. (n + 1) /\ k - m # n + 1
        BY <2>2, <3>4
      <4>2. x[k - m] = g[k - m]
        BY <1>4, <4>1
      <4> QED BY <2>2, <3>2, <3>4, <4>2
    <3> QED BY <3>3, <3>4
  <2> QED BY <2>1, <2>2
<1>11. Append(h, e) = f \o x
  BY <1>7, <1>8, <1>9, <1>10
<1>12. IsList(h) /\ IsList(x)
  BY <1>5, <1>6 DEF IsList
<1> QED BY <1>11, <1>12 DEF h, x

LEMMA ListEmpty == ASSUME NEW f, IsList(f) PROVE f \o <<>> = f /\ IsList(<<>>)
<1>1. PICK m \in Nat : f = [k \in 1 .. m |-> f[k]]
  BY DEF IsList
<1> DEFINE S == {f[k] : k \in 1 .. m}
<1>2. f \in [1 .. m -> S]
  BY <1>1
<1> HIDE DEF S
<1>3. f \in Seq(S)
  BY <1>2
<1>4. f \o <<>> = f
  BY <1>3
<1>5. <<>> = [k \in 1 .. 0 |-> <<>>[k]]
  OBVIOUS
<1> QED BY <1>4, <1>5 DEF IsList

LEMMA SpongeLists ==
    ASSUME NEW n \in Nat, NEW m, NEW d, NEW stride
    PROVE  /\ IsList(SpongeBlanks(n)) /\ IsList(SpongeAbsorbed(m, n)) /\ IsList(SpongeBytes(d, stride, n))
           /\ Append(SpongeBlanks(n), SpongeBlank) = SpongeBlanks(n + 1) /\ SpongeBlanks(0) = <<>>
           /\ Append(SpongeAbsorbed(m, n), SpongeCells(m + n * Rate, Rate)) = SpongeAbsorbed(m, n + 1)
           /\ SpongeAbsorbed(m, 0) = <<>> /\ SpongeBytes(d, stride, 0) = <<>>
<1> DEFINE blanks == SpongeBlanks(n)
           blocks == SpongeAbsorbed(m, n)
           bytes == SpongeBytes(d, stride, n)
           block(j) == SpongeCells(m + (j - 1) * Rate, Rate)
           e == SpongeCells(m + n * Rate, Rate)
<1>1. blanks = [k \in 1 .. n |-> SpongeBlank]
  BY DEF SpongeBlanks
<1>2. blocks = [k \in 1 .. n |-> block(k)]
  BY DEF SpongeAbsorbed
<1>3. bytes = [k \in 1 .. n |-> SpongeByte(d, stride, k)]
  BY DEF SpongeBytes
<1>4. e = block(n + 1)
  <2>1. (n + 1) - 1 = n
    OBVIOUS
  <2> QED BY <2>1
<1>5. SpongeAbsorbed(m, n + 1) = [k \in 1 .. (n + 1) |-> block(k)]
  BY DEF SpongeAbsorbed
<1>6. SpongeBlanks(n + 1) = [k \in 1 .. (n + 1) |-> SpongeBlank]
  BY DEF SpongeBlanks
<1> HIDE DEF blanks, blocks, bytes, block, e
<1>7. blanks = [k \in 1 .. n |-> blanks[k]] /\ \A k \in 1 .. n : blanks[k] = SpongeBlank
  BY <1>1
<1>8. blocks = [k \in 1 .. n |-> blocks[k]] /\ \A k \in 1 .. n : blocks[k] = block(k)
  BY <1>2
<1>9. bytes = [k \in 1 .. n |-> bytes[k]]
  BY <1>3
<1>10. Append(blanks, SpongeBlank) = SpongeBlanks(n + 1)
  <2>1. Append(blanks, SpongeBlank) = [k \in 1 .. (n + 1) |-> IF k = n + 1 THEN SpongeBlank ELSE blanks[k]]
    BY <1>7, Appended
  <2>2. \A k \in 1 .. (n + 1) : (IF k = n + 1 THEN SpongeBlank ELSE blanks[k]) = SpongeBlank
    BY <1>7
  <2> QED BY <1>6, <2>1, <2>2
<1>11. Append(blocks, e) = SpongeAbsorbed(m, n + 1)
  <2>1. Append(blocks, e) = [k \in 1 .. (n + 1) |-> IF k = n + 1 THEN e ELSE blocks[k]]
    BY <1>8, Appended
  <2>2. \A k \in 1 .. (n + 1) : (IF k = n + 1 THEN e ELSE blocks[k]) = block(k)
    BY <1>4, <1>8
  <2> QED BY <1>5, <2>1, <2>2
<1>12. SpongeBlanks(0) = <<>> /\ SpongeAbsorbed(m, 0) = <<>> /\ SpongeBytes(d, stride, 0) = <<>>
  BY DEF SpongeBlanks, SpongeAbsorbed, SpongeBytes
<1>13. IsList(blanks) /\ IsList(blocks) /\ IsList(bytes)
  BY <1>7, <1>8, <1>9 DEF IsList
<1> QED BY <1>10, <1>11, <1>12, <1>13 DEF blanks, blocks, bytes, e

-----------------------------------------------------------------------------
(* The state                                                               *)
LEMMA SpongePermuted ==
    ASSUME NEW st, DOMAIN st = SpongeFields
    PROVE  LET x == Keccak!Permute(st)
           IN  /\ DOMAIN x = SpongeFields /\ x.xof = st.xof /\ x.squeezing = st.squeezing
               /\ x.done = Append(st.done, st.cells) /\ x.cells = SpongeBlank /\ x.offset = 0
<1> DEFINE one == [st EXCEPT !.done = Append(@, st.cells)]
           two == [one EXCEPT !.cells = Keccak!Blank]
           x == [two EXCEPT !.offset = 0]
<1>1. Keccak!Permute(st) = x
  BY DEF Keccak!Permute
<1>2. /\ DOMAIN one = SpongeFields /\ one.xof = st.xof /\ one.squeezing = st.squeezing
      /\ one.done = Append(st.done, st.cells) /\ one.offset = st.offset
  BY DEF SpongeFields
<1> HIDE DEF one
<1>3. /\ DOMAIN two = SpongeFields /\ two.xof = one.xof /\ two.squeezing = one.squeezing
      /\ two.done = one.done /\ two.cells = Keccak!Blank
  BY <1>2 DEF SpongeFields
<1> HIDE DEF two
<1>4. /\ DOMAIN x = SpongeFields /\ x.xof = two.xof /\ x.squeezing = two.squeezing
      /\ x.done = two.done /\ x.cells = two.cells /\ x.offset = 0
  BY <1>3 DEF SpongeFields
<1> HIDE DEF x
<1> QED BY <1>1, <1>2, <1>3, <1>4, SpongeSame

SpongeMixed(c, off, from, n) ==
    [i \in DOMAIN c |-> IF i \in off .. (off + n - 1) THEN Keccak!Flip(c[i], In(from + i - off)) ELSE c[i]]

LEMMA SpongeXored ==
    ASSUME NEW st, DOMAIN st = SpongeFields, NEW off, NEW from, NEW n
    PROVE  LET x == Keccak!XorIn(st, off, from, n)
           IN  /\ DOMAIN x = SpongeFields /\ x.xof = st.xof /\ x.squeezing = st.squeezing
               /\ x.done = st.done /\ x.offset = off + n
               /\ x.cells = SpongeMixed(st.cells, off, from, n)
<1> DEFINE c == [i \in DOMAIN st.cells |-> IF i \in off .. (off + n - 1)
                                           THEN Keccak!Flip(st.cells[i], Keccak!In(from + i - off)) ELSE st.cells[i]]
           one == [st EXCEPT !.cells = c]
           x == [one EXCEPT !.offset = off + n]
<1>1. Keccak!XorIn(st, off, from, n) = x
  BY DEF Keccak!XorIn, SpongeFields
<1>2. c = SpongeMixed(st.cells, off, from, n)
  BY SpongeSame DEF SpongeMixed
<1> HIDE DEF c
<1>3. /\ DOMAIN one = SpongeFields /\ one.xof = st.xof /\ one.squeezing = st.squeezing
      /\ one.done = st.done /\ one.cells = c
  BY DEF SpongeFields
<1> HIDE DEF one
<1>4. /\ DOMAIN x = SpongeFields /\ x.xof = one.xof /\ x.squeezing = one.squeezing
      /\ x.done = one.done /\ x.cells = one.cells /\ x.offset = off + n
  BY <1>3 DEF SpongeFields
<1> HIDE DEF x
<1> QED BY <1>1, <1>2, <1>3, <1>4

LEMMA SpongeSetSqueezing ==
    ASSUME NEW st, DOMAIN st = SpongeFields, NEW v
    PROVE  LET x == [st EXCEPT !.squeezing = v]
           IN  /\ DOMAIN x = SpongeFields /\ x.xof = st.xof /\ x.squeezing = v /\ x.done = st.done
               /\ x.cells = st.cells /\ x.offset = st.offset
  BY DEF SpongeFields

LEMMA SpongeSetOffset ==
    ASSUME NEW st, DOMAIN st = SpongeFields, NEW v
    PROVE  LET x == [st EXCEPT !.offset = v]
           IN  /\ DOMAIN x = SpongeFields /\ x.xof = st.xof /\ x.squeezing = st.squeezing /\ x.done = st.done
               /\ x.cells = st.cells /\ x.offset = v
  BY DEF SpongeFields

LEMMA SpongeSetCells ==
    ASSUME NEW st, DOMAIN st = SpongeFields, NEW v
    PROVE  LET x == [st EXCEPT !.cells = v]
           IN  /\ DOMAIN x = SpongeFields /\ x.xof = st.xof /\ x.squeezing = st.squeezing /\ x.done = st.done
               /\ x.cells = v /\ x.offset = st.offset
  BY DEF SpongeFields

(* The n bytes from there are the next, and take the block to u of them.   *)
SpongeFits(m, k, l, from, n, u) ==
    /\ l \in 0 .. Rate /\ u \in 0 .. Rate /\ n \in Nat /\ u = l + n
    /\ from \in Int /\ from = m + k * Rate + l + 1

(* Bytes go where nothing is yet.                                          *)
LEMMA SpongeIn ==
    ASSUME SpongeParameters, NEW st, DOMAIN st = SpongeFields, NEW m \in Nat, NEW b, NEW k \in Nat, NEW l,
           SpongeAt(st, m, b, k, l), NEW n, NEW u, NEW from, SpongeFits(m, k, l, from, n, u)
    PROVE  LET x == Keccak!XorIn(st, l, from, n)
           IN  /\ DOMAIN x = SpongeFields /\ x.xof = st.xof /\ x.squeezing = st.squeezing
               /\ SpongeAt(x, m, b, k, u)
<1> DEFINE x == Keccak!XorIn(st, l, from, n)
           flipped(i) == IF i \in l .. (l + n - 1) THEN Keccak!Flip(st.cells[i], In(from + i - l)) ELSE st.cells[i]
<1>1. Rate \in Nat \ {0}
  BY DEF SpongeParameters
<1>2. PICK off \in Nat : off = m + k * Rate
  BY <1>1
<1>9. l \in 0 .. Rate /\ u \in 0 .. Rate /\ n \in Nat /\ u = l + n /\ from \in Int /\ from = off + l + 1
  <2>1. l \in 0 .. Rate /\ u \in 0 .. Rate /\ n \in Nat /\ u = l + n /\ from \in Int /\ from = m + k * Rate + l + 1
    BY DEF SpongeFits
  <2> QED BY <1>1, <1>2, <2>1
<1>3. st.done = b \o SpongeAbsorbed(m, k) /\ st.cells = SpongeCells(off, l)
  BY <1>1, <1>2 DEF SpongeAt
<1>4. /\ DOMAIN x = SpongeFields /\ x.xof = st.xof /\ x.squeezing = st.squeezing
      /\ x.done = st.done /\ x.offset = u /\ x.cells = [i \in DOMAIN st.cells |-> flipped(i)]
  <2>1. /\ DOMAIN x = SpongeFields /\ x.xof = st.xof /\ x.squeezing = st.squeezing
        /\ x.done = st.done /\ x.offset = u /\ x.cells = SpongeMixed(st.cells, l, from, n)
    BY <1>9, SpongeXored
  <2> HIDE DEF x
  <2> QED BY <2>1 DEF SpongeMixed
<1> HIDE DEF x
<1>5. DOMAIN st.cells = 0 .. (Rate - 1) /\ \A i \in 0 .. (Rate - 1) : st.cells[i] = IF i < l THEN {In(off + 1 + i)} ELSE {}
  BY <1>3 DEF SpongeCells
<1>6. ASSUME NEW i \in 0 .. (Rate - 1) PROVE flipped(i) = IF i < u THEN {In(off + 1 + i)} ELSE {}
  <2>1. CASE i < l
    <3>1. ~(i \in l .. (l + n - 1)) /\ i < u
      BY <1>1, <1>9, <2>1
    <3> QED BY <1>5, <2>1, <3>1
  <2>2. CASE i >= l /\ i < u
    <3>1. i \in l .. (l + n - 1) /\ ~(i < l) /\ from + i - l = off + 1 + i
      BY <1>1, <1>9, <2>2
    <3>2. st.cells[i] = {}
      BY <1>5, <3>1
    <3>3. flipped(i) = {In(off + 1 + i)}
      BY <3>1, <3>2 DEF Keccak!Flip
    <3> QED BY <2>2, <3>3
  <2>3. CASE i >= u
    <3>1. ~(i \in l .. (l + n - 1)) /\ ~(i < l) /\ ~(i < u)
      BY <1>1, <1>9, <2>3
    <3> QED BY <1>5, <3>1
  <2> QED BY <1>1, <1>9, <2>1, <2>2, <2>3
<1> HIDE DEF flipped
<1>7. x.cells = SpongeCells(off, u)
  BY <1>4, <1>5, <1>6 DEF SpongeCells
<1>8. SpongeAt(x, m, b, k, u)
  BY <1>2, <1>3, <1>4, <1>7 DEF SpongeAt
<1> QED BY <1>4, <1>8 DEF x

LEMMA SpongeOn ==
    ASSUME SpongeParameters, NEW st, DOMAIN st = SpongeFields, NEW m \in Nat, NEW b, IsList(b), NEW k \in Nat,
           SpongeAt(st, m, b, k, Rate)
    PROVE  LET x == Keccak!Permute(st)
           IN  /\ DOMAIN x = SpongeFields /\ x.xof = st.xof /\ x.squeezing = st.squeezing
               /\ SpongeAt(x, m, b, k + 1, 0)
<1> DEFINE x == Keccak!Permute(st)
<1>1. Rate \in Nat \ {0}
  BY DEF SpongeParameters
<1>2. /\ DOMAIN x = SpongeFields /\ x.xof = st.xof /\ x.squeezing = st.squeezing
      /\ x.done = Append(st.done, st.cells) /\ x.cells = SpongeBlank /\ x.offset = 0
  BY SpongePermuted
<1> HIDE DEF x
<1>3. st.done = b \o SpongeAbsorbed(m, k) /\ st.cells = SpongeCells(m + k * Rate, Rate)
  BY DEF SpongeAt
<1>4. IsList(SpongeAbsorbed(m, k)) /\ Append(SpongeAbsorbed(m, k), SpongeCells(m + k * Rate, Rate)) = SpongeAbsorbed(m, k + 1)
  BY SpongeLists
<1>5. x.done = b \o SpongeAbsorbed(m, k + 1)
  <2> DEFINE a == SpongeAbsorbed(m, k)
             e == SpongeCells(m + k * Rate, Rate)
  <2>1. x.done = Append(b \o a, e) /\ Append(a, e) = SpongeAbsorbed(m, k + 1)
    BY <1>2, <1>3, <1>4
  <2>2. IsList(a)
    BY <1>4
  <2> HIDE DEF a, e
  <2>3. Append(b \o a, e) = b \o Append(a, e)
    BY ONLY IsList(b), <2>2, ListAppends
  <2> QED BY <2>1, <2>3
<1>6. x.cells = SpongeCells(m + (k + 1) * Rate, 0)
  <2>1. \A i \in 0 .. (Rate - 1) : ~(i < 0)
    BY <1>1
  <2> QED BY <1>2, <2>1 DEF SpongeBlank, SpongeCells
<1>7. SpongeAt(x, m, b, k + 1, 0)
  BY <1>2, <1>5, <1>6 DEF SpongeAt
<1> QED BY <1>2, <1>7 DEF x

LEMMA SpongeInit == ASSUME SpongeParameters, Keccak!Init PROVE SpongeInv
<1>1. PICK xof \in BOOLEAN : s = [xof |-> xof, done |-> <<>>, cells |-> Keccak!Blank, offset |-> 0, squeezing |-> FALSE]
  BY DEF Keccak!Init
<1>2. DOMAIN s = SpongeFields /\ s.xof = xof /\ s.done = <<>> /\ s.cells = Keccak!Blank /\ s.offset = 0
  BY <1>1 DEF SpongeFields
<1>3. s.squeezing = FALSE
  BY <1>1
<1>4. todo = 0 /\ before = 0 /\ fed = 0 /\ out = <<>> /\ base = <<>>
  BY DEF Keccak!Init
<1>5. Rate \in Nat \ {0} /\ 0 \in 0 .. MaxIn
  BY DEF SpongeParameters
<1>6. SpongeShape(s)
  <2>1. s.xof \in BOOLEAN
    BY <1>2
  <2>2. s.squeezing \in BOOLEAN
    BY <1>3
  <2> QED BY <1>2, <2>1, <2>2 DEF SpongeShape
<1>7. IsList(<<>>)
  <2>1. <<>> = [k \in 1 .. 0 |-> <<>>[k]]
    OBVIOUS
  <2> QED BY <2>1 DEF IsList
<1>8. SpongeAt(s, 0, <<>>, 0, 0)
  <2>1. <<>> \o SpongeAbsorbed(0, 0) = <<>>
    <3>1. SpongeAbsorbed(0, 0) = <<>>
      BY SpongeLists
    <3> QED BY <1>7, <3>1, ListEmpty
  <2>2. s.cells = SpongeCells(0 + 0 * Rate, 0)
    <3>1. \A i \in 0 .. (Rate - 1) : ~(i < 0)
      BY <1>5
    <3> QED BY <1>2, <3>1, SpongeSame DEF SpongeBlank, SpongeCells
  <2> QED BY <1>2, <2>1, <2>2 DEF SpongeAt
<1>9. SpongeAbsorbs(s, 0, 0, 0, <<>>, 0)
  <2>1. 0 = 0 + 0 * Rate + 0 + 0 /\ ~(0 > 0) /\ 0 \in 0 .. Rate
    BY <1>5
  <2> QED BY <1>2, <1>8, <2>1 DEF SpongeAbsorbs
<1>10. ~(s.squeezing = TRUE) /\ 0 \in Nat /\ 0 \in 0 .. 0
  BY <1>3
<1> QED BY <1>4, <1>5, <1>6, <1>7, <1>9, <1>10 DEF SpongeInv

-----------------------------------------------------------------------------
(* shake128_ref_update(), sha3_update()                                    *)
LEMMA SpongeGoesOn ==
    ASSUME SpongeParameters, SpongeInv, s.squeezing = FALSE, DOMAIN s' = SpongeFields, s'.xof = s.xof, s'.squeezing = s.squeezing,
           UNCHANGED <<before, out, base>>, fed' \in 0 .. MaxIn, fed' >= fed, todo' \in Nat,
           NEW k \in Nat, NEW l \in 0 .. Rate, SpongeAt(s', before, base, k, l),
           fed' = before + k * Rate + l + todo', todo' > 0 => l = 0
    PROVE  SpongeInv'
<1>1. SpongeShape(s) /\ IsList(base) /\ fed \in 0 .. MaxIn /\ before \in 0 .. fed /\ out = <<>>
  BY DEF SpongeInv
<1>2. before' = before /\ out' = <<>> /\ base' = base
  BY <1>1
<1>3. s'.squeezing = FALSE
  OBVIOUS
<1>4. SpongeShape(s')
  <2>1. s'.xof \in BOOLEAN
    BY <1>1 DEF SpongeShape
  <2>2. s'.squeezing \in BOOLEAN
    BY <1>3
  <2> QED BY <2>1, <2>2 DEF SpongeShape
<1>5. s'.offset = l
  BY DEF SpongeAt
<1>6. SpongeAbsorbs(s', todo', before', fed', base', k)
  BY <1>2, <1>5 DEF SpongeAbsorbs
<1>7. before' \in 0 .. fed'
  BY <1>1, <1>2
<1>8. ~(s'.squeezing = TRUE)
  BY <1>3
<1> QED BY <1>1, <1>2, <1>4, <1>6, <1>7, <1>8 DEF SpongeInv

LEMMA SpongeUpdate == ASSUME SpongeParameters, SpongeInv, NEW n \in Chunks, Keccak!Update(n) PROVE SpongeInv'
<1>1. Rate \in Nat \ {0} /\ MaxIn \in Nat /\ n \in Nat
  BY DEF SpongeParameters
<1>2. /\ todo = 0 /\ fed + n <= MaxIn /\ s' = Keccak!TopUp(s, n) /\ fed' = fed + n
      /\ todo' = n - Keccak!TopUpLength(s, n) /\ UNCHANGED <<before, out, base>>
  BY DEF Keccak!Update
<1>3. DOMAIN s = SpongeFields /\ s.squeezing \in BOOLEAN /\ IsList(base) /\ fed \in 0 .. MaxIn /\ before \in 0 .. fed
  BY DEF SpongeInv, SpongeShape
<1>4. s.squeezing = FALSE
  BY <1>3 DEF Keccak!Update
<1>5. PICK k \in Nat : SpongeAbsorbs(s, todo, before, fed, base, k)
  BY <1>4 DEF SpongeInv
<1>6. PICK off \in Nat : off = k * Rate
  BY <1>1
<1>7. PICK l \in 0 .. Rate : l = s.offset
  BY <1>5 DEF SpongeAbsorbs
<1>8. SpongeAt(s, before, base, k, l) /\ fed = before + off + l
  <2>1. SpongeAt(s, before, base, k, s.offset) /\ fed = before + k * Rate + s.offset + todo
    BY <1>5 DEF SpongeAbsorbs
  <2> QED BY <1>1, <1>2, <1>3, <1>6, <1>7, <2>1
<1> DEFINE ready == Keccak!PermuteIfFull(s, n > 0)
           room == IF ready.offset = 0 THEN 0 ELSE Keccak!Least(Rate - ready.offset, n)
           y == Keccak!XorIn(ready, ready.offset, fed + 1, room)
<1>9. s' = IF room = 0 THEN ready ELSE Keccak!PermuteIfFull(y, room < n)
  BY <1>2 DEF Keccak!TopUp
<1>10. fed' \in 0 .. MaxIn /\ fed' >= fed /\ before \in Nat
  BY <1>1, <1>2, <1>3
<1>11. CASE l = Rate /\ n > 0
  <2>1. ready = Keccak!Permute(s)
    BY <1>7, <1>11 DEF Keccak!PermuteIfFull
  <2> HIDE DEF ready
  <2>2. DOMAIN ready = SpongeFields /\ ready.xof = s.xof /\ ready.squeezing = s.squeezing /\ SpongeAt(ready, before, base, k + 1, 0)
    BY <1>3, <1>8, <1>10, <1>11, <2>1, SpongeOn
  <2>3. ready.offset = 0
    BY <2>2 DEF SpongeAt
  <2>4. s' = ready
    BY <1>9, <2>3
  <2>5. todo' = n
    BY <1>1, <1>2, <1>7, <1>11 DEF Keccak!TopUpLength
  <2>6. fed' = before + (k + 1) * Rate + 0 + todo'
    <3>1. (k + 1) * Rate = off + Rate
      BY <1>1, <1>6
    <3> QED BY <1>1, <1>2, <1>3, <1>6, <1>8, <1>11, <2>5, <3>1
  <2>7. k + 1 \in Nat /\ 0 \in 0 .. Rate /\ todo' \in Nat
    BY <1>1, <2>5
  <2> HIDE <1>9
  <2> QED BY <1>2, <1>4, <1>10, <2>2, <2>4, <2>6, <2>7, SpongeGoesOn
<1>12. CASE ~(l = Rate /\ n > 0)
  <2>1. ready = s
    BY <1>7, <1>12 DEF Keccak!PermuteIfFull
  <2>2. CASE l = 0 \/ n = 0
    <3>1. room = 0
      BY <1>1, <1>7, <2>1, <2>2 DEF Keccak!Least
    <3>2. s' = s
      BY <1>9, <2>1, <3>1
    <3>3. todo' = n
      BY <1>1, <1>2, <1>7, <2>2 DEF Keccak!TopUpLength, Keccak!Least
    <3>4. fed' = before + k * Rate + l + todo' /\ (todo' > 0 => l = 0) /\ todo' \in Nat
      BY <1>1, <1>2, <1>3, <1>6, <1>8, <2>2, <3>3
    <3>5. DOMAIN s' = SpongeFields /\ s'.xof = s.xof /\ s'.squeezing = s.squeezing /\ SpongeAt(s', before, base, k, l)
      BY <1>3, <1>8, <3>2
    <3> QED BY <1>2, <1>4, <1>10, <3>4, <3>5, SpongeGoesOn
  <2>3. CASE l # 0 /\ n # 0
    <3>1. l \in 1 .. (Rate - 1) /\ n > 0
      BY <1>1, <1>12, <2>3
    <3>2. PICK r \in Nat : r = IF Rate - l <= n THEN Rate - l ELSE n
      BY <1>1, <3>1
    <3>3. r > 0 /\ r <= n /\ l + r <= Rate /\ (r < n => l + r = Rate)
      BY <1>1, <3>1, <3>2
    <3>4. room = r /\ ready.offset = l
      BY <1>7, <2>1, <2>3, <3>2 DEF Keccak!Least
    <3>5. todo' = n - r
      BY <1>2, <1>7, <3>1, <3>2 DEF Keccak!TopUpLength, Keccak!Least
    <3>6. y = Keccak!XorIn(s, l, fed + 1, r)
      BY <2>1, <3>4
    <3>7. s' = Keccak!PermuteIfFull(y, r < n)
      BY <1>9, <3>3, <3>4
    <3> HIDE DEF y, room, ready
    <3>8. DOMAIN y = SpongeFields /\ y.xof = s.xof /\ y.squeezing = s.squeezing /\ SpongeAt(y, before, base, k, l + r)
      <4>2. PICK u \in 0 .. Rate : u = l + r
        BY <3>3
      <4>1. fed + 1 \in Int /\ fed + 1 = before + k * Rate + l + 1
        BY <1>1, <1>3, <1>6, <1>8
      <4>4. SpongeFits(before, k, l, fed + 1, r, u)
        BY <4>1, <4>2 DEF SpongeFits
      <4>3. DOMAIN y = SpongeFields /\ y.xof = s.xof /\ y.squeezing = s.squeezing /\ SpongeAt(y, before, base, k, u)
        BY <1>3, <1>8, <1>10, <3>6, <4>4, SpongeIn
      <4> QED BY <4>2, <4>3
    <3>9. y.offset = l + r
      BY <3>8 DEF SpongeAt
    <3>10. CASE r < n
      <4>1. l + r = Rate
        BY <3>3, <3>10
      <4>2. s' = Keccak!Permute(y)
        BY <3>7, <3>9, <3>10, <4>1 DEF Keccak!PermuteIfFull
      <4>3. DOMAIN s' = SpongeFields /\ s'.xof = y.xof /\ s'.squeezing = y.squeezing /\ SpongeAt(s', before, base, k + 1, 0)
        BY <1>3, <1>10, <3>8, <4>1, <4>2, SpongeOn
      <4>4. fed' = before + (k + 1) * Rate + 0 + todo'
        <5>1. (k + 1) * Rate = off + Rate
          BY <1>1, <1>6
        <5> QED BY <1>1, <1>2, <1>3, <1>6, <1>8, <3>3, <3>5, <4>1, <5>1
      <4>5. k + 1 \in Nat /\ 0 \in 0 .. Rate /\ todo' \in Nat
        BY <1>1, <3>5, <3>10
      <4>6. s'.xof = s.xof /\ s'.squeezing = s.squeezing
        BY <3>8, <4>3
      <4> QED BY <1>2, <1>4, <1>10, <4>3, <4>4, <4>5, <4>6, SpongeGoesOn
    <3>11. CASE ~(r < n)
      <4>1. s' = y
        BY <3>7, <3>11 DEF Keccak!PermuteIfFull
      <4>2. todo' = 0 /\ r = n
        BY <1>1, <3>3, <3>5, <3>11
      <4>3. fed' = before + k * Rate + (l + r) + todo' /\ todo' \in Nat /\ ~(todo' > 0) /\ l + r \in 0 .. Rate
        BY <1>1, <1>2, <1>3, <1>6, <1>8, <3>1, <3>3, <4>2
      <4>4. DOMAIN s' = SpongeFields /\ s'.xof = s.xof /\ s'.squeezing = s.squeezing /\ SpongeAt(s', before, base, k, l + r)
        BY <3>8, <4>1
      <4> QED BY <1>2, <1>4, <1>10, <4>3, <4>4, SpongeGoesOn
    <3> QED BY <3>10, <3>11
  <2> QED BY <2>2, <2>3
<1> QED BY <1>11, <1>12

LEMMA SpongeUpdateBlock == ASSUME SpongeParameters, SpongeInv, Keccak!UpdateBlock PROVE SpongeInv'
<1> DEFINE y == Keccak!XorIn(s, 0, fed - todo + 1, Rate)
<1>1. Rate \in Nat \ {0} /\ MaxIn \in Nat
  BY DEF SpongeParameters
<1>2. /\ todo >= Rate /\ s' = Keccak!PermuteIfFull(y, todo > Rate) /\ fed' = fed
      /\ todo' = todo - Rate /\ UNCHANGED <<before, out, base>>
  BY DEF Keccak!UpdateBlock
<1>3. /\ DOMAIN s = SpongeFields /\ s.squeezing \in BOOLEAN /\ IsList(base) /\ fed \in 0 .. MaxIn /\ before \in 0 .. fed
      /\ todo \in Nat
  BY DEF SpongeInv, SpongeShape
<1>4. s.squeezing = FALSE
  BY <1>3 DEF Keccak!UpdateBlock
<1>5. PICK k \in Nat : SpongeAbsorbs(s, todo, before, fed, base, k)
  BY <1>4 DEF SpongeInv
<1>6. PICK off \in Nat : off = k * Rate
  BY <1>1
<1>7. s.offset = 0 /\ SpongeAt(s, before, base, k, 0) /\ fed = before + off + todo
  <2>1. s.offset = 0
    BY <1>1, <1>2, <1>3, <1>5 DEF SpongeAbsorbs
  <2>2. SpongeAt(s, before, base, k, s.offset) /\ fed = before + k * Rate + s.offset + todo
    BY <1>5 DEF SpongeAbsorbs
  <2> QED BY <1>1, <1>3, <1>6, <2>1, <2>2
<1>8. fed' \in 0 .. MaxIn /\ fed' >= fed /\ before \in Nat
  BY <1>1, <1>2, <1>3
<1>9. DOMAIN y = SpongeFields /\ y.xof = s.xof /\ y.squeezing = s.squeezing /\ SpongeAt(y, before, base, k, Rate)
  <2>5. PICK z \in 0 .. Rate, from \in Int : z = 0 /\ from = fed - todo + 1
    BY <1>1, <1>3
  <2>1. from = before + k * Rate + z + 1
    BY <1>1, <1>3, <1>6, <1>7, <2>5
  <2>2. Rate \in Nat /\ Rate \in 0 .. Rate /\ Rate = z + Rate
    BY <1>1, <2>5
  <2>3. y = Keccak!XorIn(s, z, from, Rate) /\ SpongeAt(s, before, base, k, z)
    BY <1>7, <2>5
  <2> HIDE DEF y
  <2>4. DOMAIN y = SpongeFields /\ y.xof = s.xof /\ y.squeezing = s.squeezing /\ SpongeAt(y, before, base, k, Rate)
    <3>1. SpongeFits(before, k, z, from, Rate, Rate)
      BY <2>1, <2>2 DEF SpongeFits
    <3> QED BY <1>3, <1>8, <2>3, <3>1, SpongeIn
  <2> QED BY <2>4
<1> HIDE DEF y
<1>10. y.offset = Rate
  BY <1>9 DEF SpongeAt
<1>11. CASE todo > Rate
  <2>1. s' = Keccak!Permute(y)
    BY <1>2, <1>10, <1>11 DEF Keccak!PermuteIfFull
  <2>2. DOMAIN s' = SpongeFields /\ s'.xof = y.xof /\ s'.squeezing = y.squeezing /\ SpongeAt(s', before, base, k + 1, 0)
    BY <1>3, <1>8, <1>9, <2>1, SpongeOn
  <2>3. fed' = before + (k + 1) * Rate + 0 + todo'
    <3>1. (k + 1) * Rate = off + Rate
      BY <1>1, <1>6
    <3> QED BY <1>1, <1>2, <1>3, <1>6, <1>7, <3>1
  <2>4. k + 1 \in Nat /\ 0 \in 0 .. Rate /\ todo' \in Nat
    BY <1>1, <1>2, <1>3
  <2>5. s'.xof = s.xof /\ s'.squeezing = s.squeezing
    BY <1>9, <2>2
  <2> QED BY <1>2, <1>4, <1>8, <2>2, <2>3, <2>4, <2>5, SpongeGoesOn
<1>12. CASE ~(todo > Rate)
  <2>1. s' = y
    BY <1>2, <1>12 DEF Keccak!PermuteIfFull
  <2>2. fed' = before + k * Rate + Rate + todo' /\ ~(todo' > 0) /\ todo' \in Nat /\ Rate \in 0 .. Rate
    BY <1>1, <1>2, <1>3, <1>6, <1>7, <1>12
  <2>3. DOMAIN s' = SpongeFields /\ s'.xof = s.xof /\ s'.squeezing = s.squeezing /\ SpongeAt(s', before, base, k, Rate)
    BY <1>9, <2>1
  <2> QED BY <1>2, <1>4, <1>8, <2>2, <2>3, SpongeGoesOn
<1> QED BY <1>11, <1>12

LEMMA SpongeUpdateRest == ASSUME SpongeParameters, SpongeInv, Keccak!UpdateRest PROVE SpongeInv'
<1>1. Rate \in Nat \ {0} /\ MaxIn \in Nat
  BY DEF SpongeParameters
<1>2. /\ todo \in 1 .. (Rate - 1) /\ s' = Keccak!XorIn(s, 0, fed - todo + 1, todo) /\ fed' = fed
      /\ todo' = 0 /\ UNCHANGED <<before, out, base>>
  BY DEF Keccak!UpdateRest
<1>3. /\ DOMAIN s = SpongeFields /\ s.squeezing \in BOOLEAN /\ IsList(base) /\ fed \in 0 .. MaxIn /\ before \in 0 .. fed
      /\ todo \in Nat
  BY DEF SpongeInv, SpongeShape
<1>4. s.squeezing = FALSE
  BY <1>3 DEF Keccak!UpdateRest
<1>5. PICK k \in Nat : SpongeAbsorbs(s, todo, before, fed, base, k)
  BY <1>4 DEF SpongeInv
<1>6. PICK off \in Nat : off = k * Rate
  BY <1>1
<1>7. s.offset = 0 /\ SpongeAt(s, before, base, k, 0) /\ fed = before + off + todo
  <2>1. s.offset = 0
    BY <1>1, <1>2, <1>3, <1>5 DEF SpongeAbsorbs
  <2>2. SpongeAt(s, before, base, k, s.offset) /\ fed = before + k * Rate + s.offset + todo
    BY <1>5 DEF SpongeAbsorbs
  <2> QED BY <1>1, <1>3, <1>6, <2>1, <2>2
<1>8. fed' \in 0 .. MaxIn /\ fed' >= fed /\ before \in Nat
  BY <1>1, <1>2, <1>3
<1>9. DOMAIN s' = SpongeFields /\ s'.xof = s.xof /\ s'.squeezing = s.squeezing /\ SpongeAt(s', before, base, k, todo)
  <2>5. PICK z \in 0 .. Rate, from \in Int : z = 0 /\ from = fed - todo + 1
    BY <1>1, <1>3
  <2>1. from = before + k * Rate + z + 1
    BY <1>1, <1>3, <1>6, <1>7, <2>5
  <2>2. todo \in 0 .. Rate /\ todo = z + todo
    BY <1>1, <1>2, <2>5
  <2>3. s' = Keccak!XorIn(s, z, from, todo) /\ SpongeAt(s, before, base, k, z)
    BY <1>2, <1>7, <2>5
  <2>4. DOMAIN s' = SpongeFields /\ s'.xof = s.xof /\ s'.squeezing = s.squeezing /\ SpongeAt(s', before, base, k, todo)
    <3>1. SpongeFits(before, k, z, from, todo, todo)
      BY <2>1, <2>2 DEF SpongeFits
    <3> QED BY <1>3, <1>8, <2>3, <3>1, SpongeIn
  <2> QED BY <2>4
<1>10. fed' = before + k * Rate + todo + todo' /\ ~(todo' > 0) /\ todo' \in Nat /\ todo \in 0 .. Rate
  BY <1>1, <1>2, <1>3, <1>6, <1>7
<1> QED BY <1>2, <1>4, <1>8, <1>9, <1>10, SpongeGoesOn

-----------------------------------------------------------------------------
(* shake128_finalize()                                                     *)

(* The block that starts at byte at of a message padded to e bytes.        *)
SpongePadFrom(m, len, off, e) ==
    [i \in 0 .. (Rate - 1) |-> (IF off + i < len THEN {In(m + 1 + (off + i))} ELSE {})
                               \cup (IF off + i = len THEN {Mark} ELSE {})
                               \cup (IF off + i = e - 1 THEN {EndBit} ELSE {})]

LEMMA SpongePadsFrom ==
    ASSUME NEW m, NEW len, NEW n, NEW j
    PROVE  SpongePadBlock(m, len, n, j) = SpongePadFrom(m, len, (j - 1) * Rate, n * Rate)
  BY DEF SpongePadBlock, SpongePadByte, SpongePadFrom

(* Mark and end bit go where nothing is, or both into the last byte.       *)
SpongeEnded(c, l) == [[c EXCEPT ![l] = Keccak!Flip(@, Mark)] EXCEPT ![Rate - 1] = Keccak!Flip(@, EndBit)]

(* The message ends l bytes into the block at `at', and the block at e.    *)
SpongeTail(off, l, len, e) == len = off + l /\ e = off + Rate

LEMMA SpongeEnds ==
    ASSUME SpongeParameters, NEW off \in Nat, NEW m \in Nat, NEW l \in 0 .. (Rate - 1), NEW len, NEW e, SpongeTail(off, l, len, e)
    PROVE  SpongeEnded(SpongeCells(m + off, l), l) = SpongePadFrom(m, len, off, e)
<1> DEFINE c == SpongeCells(m + off, l)
           one == [c EXCEPT ![l] = Keccak!Flip(@, Mark)]
           two == [one EXCEPT ![Rate - 1] = Keccak!Flip(@, EndBit)]
<1>1. Rate \in Nat \ {0} /\ Rate - 1 \in 0 .. (Rate - 1)
  BY DEF SpongeParameters
<1>10. len = off + l /\ e = off + Rate
  BY DEF SpongeTail
<1>2. DOMAIN c = 0 .. (Rate - 1) /\ \A i \in 0 .. (Rate - 1) : c[i] = IF i < l THEN {In((m + off) + 1 + i)} ELSE {}
  BY DEF SpongeCells
<1> HIDE DEF c
<1>3. Mark # EndBit
  BY DEF Mark, EndBit
<1>4. DOMAIN one = 0 .. (Rate - 1) /\ \A i \in 0 .. (Rate - 1) : one[i] = IF i = l THEN {Mark} ELSE c[i]
  <2>1. Keccak!Flip(c[l], Mark) = {Mark}
    <3>1. c[l] = {}
      BY <1>2
    <3> QED BY <3>1 DEF Keccak!Flip
  <2> QED BY <1>2, <2>1
<1> HIDE DEF one
<1>5. DOMAIN two = 0 .. (Rate - 1) /\ \A i \in 0 .. (Rate - 1) : two[i] = IF i = Rate - 1 THEN Keccak!Flip(one[i], EndBit) ELSE one[i]
  BY <1>1, <1>4
<1>6. Keccak!Flip(one[Rate - 1], EndBit) = IF l = Rate - 1 THEN {Mark, EndBit} ELSE {EndBit}
  <2>1. CASE l = Rate - 1
    <3>1. one[Rate - 1] = {Mark}
      BY <1>1, <1>4, <2>1
    <3> QED BY <1>3, <2>1, <3>1 DEF Keccak!Flip
  <2>2. CASE l # Rate - 1
    <3>1. ~(Rate - 1 < l) /\ Rate - 1 # l
      BY <1>1, <2>2
    <3>2. one[Rate - 1] = {}
      BY <1>1, <1>2, <1>4, <3>1
    <3> QED BY <2>2, <3>2 DEF Keccak!Flip
  <2> QED BY <2>1, <2>2
<1> DEFINE byte(i) == (IF off + i < len THEN {In(m + 1 + (off + i))} ELSE {})
                      \cup (IF off + i = len THEN {Mark} ELSE {})
                      \cup (IF off + i = e - 1 THEN {EndBit} ELSE {})
<1>7. ASSUME NEW i \in 0 .. (Rate - 1) PROVE two[i] = byte(i)
  <2>1. (off + i < len <=> i < l) /\ (off + i = len <=> i = l) /\ (off + i = e - 1 <=> i = Rate - 1)
    BY <1>1, <1>10
  <2>2. (m + off) + 1 + i = m + 1 + (off + i)
    OBVIOUS
  <2>3. byte(i) = (IF i < l THEN {In(m + 1 + (off + i))} ELSE {}) \cup (IF i = l THEN {Mark} ELSE {})
                  \cup (IF i = Rate - 1 THEN {EndBit} ELSE {})
    BY <2>1
  <2>4. c[i] = IF i < l THEN {In(m + 1 + (off + i))} ELSE {}
    BY <1>2, <2>2
  <2> HIDE DEF byte, two
  <2>5. CASE i = Rate - 1 /\ i = l
    <3>1. two[i] = {Mark, EndBit} /\ ~(i < l)
      BY <1>1, <1>5, <1>6, <2>5
    <3>2. byte(i) = ({} \cup {Mark}) \cup {EndBit}
      BY <2>3, <2>5, <3>1
    <3> QED BY <3>1, <3>2
  <2>6. CASE i = Rate - 1 /\ i # l
    <3>1. two[i] = {EndBit} /\ ~(i < l)
      BY <1>1, <1>5, <1>6, <2>6
    <3>2. byte(i) = ({} \cup {}) \cup {EndBit}
      BY <2>3, <2>6, <3>1
    <3> QED BY <3>1, <3>2
  <2>7. CASE i # Rate - 1 /\ i = l
    <3>1. two[i] = {Mark} /\ ~(i < l)
      BY <1>4, <1>5, <2>7
    <3>2. byte(i) = ({} \cup {Mark}) \cup {}
      BY <2>3, <2>7, <3>1
    <3> QED BY <3>1, <3>2
  <2>8. CASE i # Rate - 1 /\ i # l
    <3>1. two[i] = c[i]
      BY <1>4, <1>5, <2>8
    <3>2. byte(i) = (c[i] \cup {}) \cup {}
      BY <2>3, <2>4, <2>8
    <3> QED BY <3>1, <3>2
  <2> QED BY <2>5, <2>6, <2>7, <2>8
<1> HIDE DEF two
<1>8. two = [i \in 0 .. (Rate - 1) |-> two[i]]
  BY <1>5 DEF two
<1>9. two = SpongePadFrom(m, len, off, e)
  BY <1>7, <1>8 DEF SpongePadFrom
<1> QED BY <1>9 DEF two, one, c, SpongeEnded

LEMMA SpongeWhole ==
    ASSUME SpongeParameters, NEW m \in Nat, NEW len \in Nat, NEW n \in Nat, NEW j \in Nat, j * Rate <= len, j < n
    PROVE  SpongePadBlock(m, len, n, j) = SpongeCells(m + (j - 1) * Rate, Rate)
<1>1. Rate \in Nat \ {0}
  BY DEF SpongeParameters
<1>2. PICK off \in Int : off = (j - 1) * Rate
  BY <1>1
<1>3. PICK jr \in Int : jr = j * Rate
  BY <1>1
<1>4. PICK e \in Int : e = n * Rate
  BY <1>1
<1>5. jr = off + Rate /\ jr <= len
  BY <1>1, <1>2, <1>3
<1>6. jr + Rate <= e
  <2>1. j * Rate + Rate <= n * Rate
    BY <1>1, Whole
  <2> QED BY <1>3, <1>4, <2>1
<1>7. SpongePadBlock(m, len, n, j) = SpongePadFrom(m, len, off, e)
  BY <1>2, <1>4, SpongePadsFrom
<1>8. ASSUME NEW i \in 0 .. (Rate - 1)
      PROVE  (IF off + i < len THEN {In(m + 1 + (off + i))} ELSE {}) \cup (IF off + i = len THEN {Mark} ELSE {})
             \cup (IF off + i = e - 1 THEN {EndBit} ELSE {}) = IF i < Rate THEN {In((m + off) + 1 + i)} ELSE {}
  <2>1. off + i < len /\ off + i # len /\ off + i # e - 1 /\ i < Rate
    BY <1>1, <1>5, <1>6
  <2>2. m + 1 + (off + i) = (m + off) + 1 + i
    OBVIOUS
  <2> QED BY <2>1, <2>2
<1>9. SpongePadFrom(m, len, off, e) = SpongeCells(m + off, Rate)
  BY <1>8 DEF SpongePadFrom, SpongeCells
<1> QED BY <1>2, <1>7, <1>9

LEMMA SpongePads ==
    ASSUME SpongeParameters, NEW m \in Nat, NEW k \in Nat, NEW l \in 0 .. (Rate - 1), NEW len \in Nat, len = k * Rate + l
    PROVE  SpongePadded(m, len) = Append(SpongeAbsorbed(m, k), SpongeEnded(SpongeCells(m + k * Rate, l), l))
<1> DEFINE n == SpongeLength(len)
           d(j) == SpongePadBlock(m, len, k + 1, j)
           f == SpongeAbsorbed(m, k)
           e == SpongeEnded(SpongeCells(m + k * Rate, l), l)
           block(j) == SpongeCells(m + (j - 1) * Rate, Rate)
<1>1. Rate \in Nat \ {0}
  BY DEF SpongeParameters
<1>2. PICK off \in Nat : off = k * Rate
  BY <1>1
<1>3. n = k + 1
  <2>1. (k * Rate + l) \div Rate = k
    <3>1. k \in Int /\ l \in 0 .. (Rate - 1)
      OBVIOUS
    <3> QED BY ONLY <1>1, <3>1, DivIs
  <2> QED BY <2>1 DEF SpongeLength
<1>4. SpongePadded(m, len) = [j \in 1 .. (k + 1) |-> d(j)]
  BY <1>3 DEF SpongePadded
<1>5. e = d(k + 1)
  <2>1. d(k + 1) = SpongePadFrom(m, len, (k + 1 - 1) * Rate, (k + 1) * Rate)
    BY SpongePadsFrom
  <2>2. (k + 1 - 1) * Rate = off /\ (k + 1) * Rate = off + Rate
    BY <1>1, <1>2
  <2>3. SpongeTail(off, l, len, off + Rate)
    BY <1>2 DEF SpongeTail
  <2>4. SpongeEnded(SpongeCells(m + off, l), l) = SpongePadFrom(m, len, off, off + Rate)
    BY <2>3, SpongeEnds
  <2>5. e = SpongeEnded(SpongeCells(m + off, l), l)
    BY <1>2
  <2> QED BY <2>1, <2>2, <2>4, <2>5
<1>6. \A j \in 1 .. k : block(j) = d(j)
  <2> SUFFICES ASSUME NEW j \in 1 .. k PROVE block(j) = d(j)
    OBVIOUS
  <2>1. PICK jr \in Int : jr = j * Rate
    BY <1>1
  <2>2. jr <= off
    <3>1. CASE j = k
      BY <1>2, <2>1, <3>1
    <3>2. CASE j < k
      <4>1. j * Rate + Rate <= k * Rate
        BY <1>1, <3>2, Whole
      <4> QED BY <1>1, <1>2, <2>1, <4>1
    <3> QED BY <3>1, <3>2
  <2>3. j * Rate <= len /\ j \in Nat /\ k + 1 \in Nat /\ j < k + 1
    BY <1>2, <2>1, <2>2
  <2> QED BY <2>3, SpongeWhole
<1>7. f = [j \in 1 .. k |-> block(j)]
  BY DEF SpongeAbsorbed
<1> HIDE DEF d, f, e, block
<1>8. f = [j \in 1 .. k |-> f[j]] /\ \A j \in 1 .. k : f[j] = d(j)
  BY <1>6, <1>7
<1>9. Append(f, e) = [j \in 1 .. (k + 1) |-> IF j = k + 1 THEN e ELSE f[j]]
  BY <1>8, Appended
<1>10. \A j \in 1 .. (k + 1) : (IF j = k + 1 THEN e ELSE f[j]) = d(j)
  BY <1>5, <1>8
<1>11. SpongePadded(m, len) = Append(f, e)
  BY <1>4, <1>9, <1>10
<1> QED BY <1>11 DEF f, e

LEMMA SpongeTurns ==
    ASSUME NEW st, DOMAIN st = SpongeFields, NEW d, IsList(d), NEW q \in Nat, NEW o, SpongeGone(st, d, q, o)
    PROVE  LET x == Keccak!Permute(st)
           IN  /\ DOMAIN x = SpongeFields /\ x.xof = st.xof /\ x.squeezing = st.squeezing
               /\ SpongeGone(x, d, q + 1, 0)
<1> DEFINE x == Keccak!Permute(st)
           a == SpongeBlanks(q)
<1>1. /\ DOMAIN x = SpongeFields /\ x.xof = st.xof /\ x.squeezing = st.squeezing
      /\ x.done = Append(st.done, st.cells) /\ x.cells = SpongeBlank /\ x.offset = 0
  BY SpongePermuted
<1> HIDE DEF x
<1>2. st.done = d \o a /\ st.cells = SpongeBlank
  BY DEF SpongeGone
<1>3. IsList(a)
  BY SpongeLists
<1>4. Append(a, SpongeBlank) = SpongeBlanks(q + 1)
  BY SpongeLists
<1> HIDE DEF a
<1>5. Append(d \o a, SpongeBlank) = d \o Append(a, SpongeBlank)
  BY ONLY IsList(d), <1>3, ListAppends
<1>6. x.done = d \o SpongeBlanks(q + 1)
  BY <1>1, <1>2, <1>4, <1>5
<1>7. SpongeGone(x, d, q + 1, 0)
  BY <1>1, <1>6 DEF SpongeGone
<1> QED BY <1>1, <1>7 DEF x

(* Every block of a message of len bytes is whole but for l bytes.         *)
SpongeRest(len, k, l) == len = k * Rate + l

(* The state after the last block of a message, when the block is ended.   *)
SpongeClosed(st, l) ==
    [Keccak!Permute([st EXCEPT !.cells = SpongeEnded(st.cells, l)]) EXCEPT !.squeezing = TRUE]

(* The output of the message can start from x, which was st.               *)
SpongeBegins(x, st, b, m, len) ==
    /\ DOMAIN x = SpongeFields /\ x.xof = st.xof /\ x.squeezing = TRUE
    /\ SpongeGone(x, b \o SpongePadded(m, len), 0, 0) /\ IsList(b \o SpongePadded(m, len))

(* The block the message ends in is ended; a full one is permuted first.   *)
LEMMA SpongeFinalizesRoom ==
    ASSUME SpongeParameters, NEW st, DOMAIN st = SpongeFields, NEW m \in Nat, NEW b, IsList(b), NEW k \in Nat,
           NEW l \in 0 .. (Rate - 1), SpongeAt(st, m, b, k, l), NEW len \in Nat, SpongeRest(len, k, l)
    PROVE  SpongeBegins(SpongeClosed(st, l), st, b, m, len)
<1> DEFINE c == SpongeEnded(st.cells, l)
           one == [st EXCEPT !.cells = c]
           two == Keccak!Permute(one)
           x == [two EXCEPT !.squeezing = TRUE]
           a == SpongeAbsorbed(m, k)
<1>17. SpongeClosed(st, l) = x
  BY DEF SpongeClosed
<1>18. len = k * Rate + l
  BY DEF SpongeRest
<1>1. /\ DOMAIN one = SpongeFields /\ one.xof = st.xof /\ one.done = st.done /\ one.cells = c
  BY SpongeSetCells
<1> HIDE DEF one
<1>2. /\ DOMAIN two = SpongeFields /\ two.xof = one.xof
      /\ two.done = Append(one.done, one.cells) /\ two.cells = SpongeBlank /\ two.offset = 0
  BY <1>1, SpongePermuted
<1> HIDE DEF two
<1>3. /\ DOMAIN x = SpongeFields /\ x.xof = two.xof /\ x.done = two.done /\ x.cells = two.cells /\ x.offset = two.offset
  BY <1>2, SpongeSetSqueezing
<1>4. x.squeezing = TRUE
  BY <1>2 DEF SpongeFields
<1> HIDE DEF x
<1>5. st.done = b \o a /\ c = SpongeEnded(SpongeCells(m + k * Rate, l), l)
  BY DEF SpongeAt
<1>6. IsList(a)
  BY SpongeLists
<1>7. SpongePadded(m, len) = Append(a, c)
  BY <1>5, <1>18, SpongePads
<1> HIDE DEF a, c
<1>8. Append(b \o a, c) = b \o Append(a, c)
  BY ONLY IsList(b), <1>6, ListAppends
<1>16. IsList(Append(a, c))
  BY ONLY IsList(b), <1>6, ListAppends
<1>9. x.done = b \o SpongePadded(m, len)
  BY <1>1, <1>2, <1>3, <1>5, <1>7, <1>8
<1>10. IsList(SpongePadded(m, len))
  BY <1>7, <1>16
<1> DEFINE d == b \o SpongePadded(m, len)
<1>11. IsList(d)
  BY ONLY IsList(b), <1>10, ListAppends
<1>12. x.done = d
  BY <1>9
<1> HIDE DEF d
<1>13. x.done = d \o SpongeBlanks(0)
  <2>1. SpongeBlanks(0) = <<>>
    BY SpongeLists
  <2>2. d \o <<>> = d
    BY ONLY <1>11, ListEmpty
  <2> QED BY <1>12, <2>1, <2>2
<1>14. SpongeGone(x, d, 0, 0)
  BY <1>2, <1>3, <1>13 DEF SpongeGone
<1>15. x.xof = st.xof
  BY <1>1, <1>2, <1>3
<1>19. SpongeBegins(x, st, b, m, len)
  BY <1>3, <1>4, <1>11, <1>14, <1>15 DEF SpongeBegins, d
<1> QED BY <1>17, <1>19

LEMMA SpongeFinalizes ==
    ASSUME SpongeParameters, NEW st, DOMAIN st = SpongeFields, NEW m \in Nat, NEW b, IsList(b), NEW k \in Nat,
           NEW l \in 0 .. Rate, SpongeAt(st, m, b, k, l), NEW len \in Nat, SpongeRest(len, k, l)
    PROVE  SpongeBegins(Keccak!Finalize(st), st, b, m, len)
<1> DEFINE ready == Keccak!PermuteIfFull(st, TRUE)
           x == Keccak!Finalize(st)
<1>1. Rate \in Nat \ {0}
  BY DEF SpongeParameters
<1>2. st.offset = l
  BY DEF SpongeAt
<1>3. PICK off \in Nat : off = k * Rate
  BY <1>1
<1>4. x = [Keccak!Permute([ready EXCEPT !.cells = SpongeEnded(ready.cells, ready.offset)]) EXCEPT !.squeezing = TRUE]
  BY SpongeSame DEF Keccak!Finalize, SpongeEnded
<1> HIDE DEF x
<1>5. CASE l = Rate
  <2>1. ready = Keccak!Permute(st)
    BY <1>2, <1>5 DEF Keccak!PermuteIfFull
  <2> HIDE DEF ready
  <2>2. DOMAIN ready = SpongeFields /\ ready.xof = st.xof /\ SpongeAt(ready, m, b, k + 1, 0)
    BY <1>5, <2>1, SpongeOn
  <2>3. ready.offset = 0
    BY <2>2 DEF SpongeAt
  <2>4. SpongeRest(len, k + 1, 0) /\ k + 1 \in Nat /\ 0 \in 0 .. (Rate - 1)
    <3>1. (k + 1) * Rate = off + Rate
      BY <1>1, <1>3
    <3>2. len = off + l
      BY <1>3 DEF SpongeRest
    <3>3. len = (k + 1) * Rate + 0
      BY <1>1, <1>5, <3>1, <3>2
    <3> QED BY <1>1, <3>3 DEF SpongeRest
  <2>5. x = SpongeClosed(ready, 0)
    BY <1>4, <2>3 DEF SpongeClosed
  <2>6. SpongeAt(ready, m, b, k + 1, 0) /\ DOMAIN ready = SpongeFields
    BY <2>2
  <2>7. m \in Nat /\ IsList(b) /\ len \in Nat
    OBVIOUS
  <2>8. SpongeBegins(x, ready, b, m, len)
    BY ONLY SpongeParameters, <2>4, <2>5, <2>6, <2>7, SpongeFinalizesRoom
  <2>9. ready.xof = st.xof
    BY <2>2
  <2>10. SpongeBegins(x, st, b, m, len)
    BY <2>8, <2>9 DEF SpongeBegins
  <2> QED BY <2>10 DEF x
<1>6. CASE l # Rate
  <2>1. ready = st
    BY <1>2, <1>6 DEF Keccak!PermuteIfFull
  <2>2. x = SpongeClosed(st, l)
    BY <1>2, <1>4, <2>1 DEF SpongeClosed
  <2>3. l \in 0 .. (Rate - 1)
    BY <1>1, <1>6
  <2> HIDE DEF ready
  <2>4. SpongeBegins(x, st, b, m, len)
    BY <2>2, <2>3, SpongeFinalizesRoom
  <2> QED BY <2>4 DEF x
<1> QED BY <1>5, <1>6

(* The c bytes after the o-th of the state after q permutations are those  *)
(* after the n-th of the output.                                           *)
SpongeGets(stride, q, o, c, n, t) ==
    /\ stride \in 1 .. Rate /\ o \in 0 .. stride /\ c \in Nat /\ o + c <= stride
    /\ n \in Nat /\ n = q * stride + o /\ t = n + c

LEMMA SpongeGives ==
    ASSUME SpongeParameters, NEW st, NEW d, NEW q \in Nat, NEW o, SpongeGone(st, d, q, o),
           NEW stride, NEW c, NEW n, NEW t, SpongeGets(stride, q, o, c, n, t)
    PROVE  SpongeThen(SpongeBytes(d, stride, n), Keccak!Extract(st, o, c)) = SpongeBytes(d, stride, t)
<1> DEFINE f == SpongeBytes(d, stride, n)
           g == Keccak!Extract(st, o, c)
           byte(j) == SpongeByte(d, stride, j)
<1>1. Rate \in Nat \ {0}
  BY DEF SpongeParameters
<1>2. /\ stride \in 1 .. Rate /\ o \in 0 .. stride /\ c \in Nat /\ o + c <= stride
      /\ n \in Nat /\ n = q * stride + o /\ t = n + c
  BY DEF SpongeGets
<1>3. f = [j \in 1 .. n |-> byte(j)]
  BY DEF SpongeBytes
<1>4. g = [k \in 1 .. c |-> [done |-> st.done, at |-> o + k - 1, cell |-> st.cells[o + k - 1]]]
  BY DEF Keccak!Extract
<1>5. SpongeBytes(d, stride, t) = [j \in 1 .. t |-> byte(j)]
  BY DEF SpongeBytes
<1>6. st.done = d \o SpongeBlanks(q) /\ st.cells = SpongeBlank
  BY DEF SpongeGone
<1>7. PICK off \in Nat : off = q * stride
  BY <1>1, <1>2
<1> HIDE DEF f, g
<1>8. f = [j \in 1 .. n |-> f[j]] /\ \A j \in 1 .. n : f[j] = byte(j)
  BY <1>3
<1>9. /\ g = [k \in 1 .. c |-> g[k]]
      /\ \A k \in 1 .. c : g[k] = [done |-> st.done, at |-> o + k - 1, cell |-> st.cells[o + k - 1]]
  BY <1>4
<1> DEFINE h == SpongeThen(f, g)
<1>10. /\ IsListOf(h, n + c) /\ \A j \in 1 .. n : h[j] = f[j]
       /\ \A j \in 1 .. (n + c) : ~(j <= n) => h[j] = g[j - n]
  <2>1. IsListOf(f, n)
    BY <1>2, <1>8 DEF IsListOf
  <2>2. IsListOf(g, c)
    BY <1>2, <1>9 DEF IsListOf
  <2> QED BY ONLY <2>1, <2>2, Follows
<1> HIDE DEF h
<1>11. ASSUME NEW j \in 1 .. t, ~(j <= n) PROVE g[j - n] = byte(j)
  <2>1. PICK r \in 0 .. (stride - 1) : r = o + (j - n) - 1
    BY <1>1, <1>2, <1>11
  <2>2. j - n \in 1 .. c /\ o + (j - n) - 1 = r
    BY <1>1, <1>2, <1>11, <2>1
  <2>3. g[j - n] = [done |-> st.done, at |-> r, cell |-> st.cells[r]]
    BY <1>9, <2>2
  <2>4. r \in 0 .. (Rate - 1)
    BY <1>1, <1>2, <2>1
  <2>5. st.cells[r] = {}
    BY <1>6, <2>4 DEF SpongeBlank
  <2>6. j - 1 = q * stride + r
    BY <1>1, <1>2, <1>7, <2>1
  <2>7. (q * stride + r) \div stride = q /\ (q * stride + r) % stride = r
    <3>1. stride \in Nat \ {0} /\ q \in Int /\ r \in 0 .. (stride - 1)
      BY <1>1, <1>2
    <3> QED BY ONLY <3>1, DivIs
  <2> QED BY <1>6, <2>3, <2>5, <2>6, <2>7 DEF SpongeByte
<1> HIDE DEF byte
<1>12. ASSUME NEW j \in 1 .. t PROVE h[j] = byte(j)
  <2>1. CASE j <= n
    <3>1. j \in 1 .. n
      BY <1>2, <2>1
    <3> QED BY <1>8, <1>10, <3>1
  <2>2. CASE ~(j <= n)
    <3>1. j \in 1 .. (n + c)
      BY <1>2
    <3> QED BY <1>10, <1>11, <2>2, <3>1
  <2> QED BY <2>1, <2>2
<1>13. h = [j \in 1 .. t |-> byte(j)]
  <2>1. h = [j \in 1 .. t |-> h[j]]
    BY <1>2, <1>10 DEF IsListOf
  <2> QED BY <1>12, <2>1
<1> QED BY <1>5, <1>13 DEF f, g, h

LEMMA SpongeLasts ==
    ASSUME NEW d, NEW stride, NEW n \in Nat
    PROVE  Len(SpongeBytes(d, stride, n)) = n
<1> DEFINE f == SpongeBytes(d, stride, n)
<1>1. f = [j \in 1 .. n |-> SpongeByte(d, stride, j)]
  BY DEF SpongeBytes
<1> HIDE DEF f
<1>2. f = [j \in 1 .. n |-> f[j]]
  BY <1>1
<1>3. Len(f) = n
  BY <1>2, Appended
<1> QED BY <1>3 DEF f

-----------------------------------------------------------------------------
(* shake128_ref_squeeze(), sha3_final()                                    *)

(* The blocks permuted until the output starts.                            *)
SpongeMessage == base \o SpongePadded(before, fed - before)

(* The state the output comes from.                                        *)
SpongeFresh == IF s.squeezing THEN s ELSE Keccak!Finalize(s)

LEMMA SpongeGivesOn ==
    ASSUME SpongeParameters, SpongeInv, DOMAIN s' = SpongeFields, s'.xof = s.xof, s'.squeezing = TRUE,
           UNCHANGED <<before, fed, base>>, todo' \in Nat, NEW q \in Nat, NEW n \in Nat,
           SpongeSqueezed(s', todo', SpongeMessage, n, q), out' = SpongeBytes(SpongeMessage, SpongeStride(s.xof), n)
    PROVE  SpongeInv'
<1>1. SpongeShape(s) /\ IsList(base) /\ fed \in 0 .. MaxIn /\ before \in 0 .. fed
  BY DEF SpongeInv
<1>2. before' = before /\ fed' = fed /\ base' = base
  OBVIOUS
<1>3. SpongeShape(s')
  <2>1. s'.xof \in BOOLEAN
    BY <1>1 DEF SpongeShape
  <2>2. s'.squeezing \in BOOLEAN
    OBVIOUS
  <2> QED BY <2>1, <2>2 DEF SpongeShape
<1>4. SpongeMessage = base' \o SpongePadded(before', fed' - before')
  BY <1>2 DEF SpongeMessage
<1>5. ~(s'.squeezing = FALSE)
  OBVIOUS
<1>6. out' = SpongeBytes(SpongeMessage, SpongeStride(s'.xof), n)
  OBVIOUS
<1> HIDE DEF SpongeMessage
<1> QED BY <1>1, <1>2, <1>3, <1>4, <1>5, <1>6 DEF SpongeInv

LEMMA SpongeMessages == ASSUME SpongeParameters, SpongeInv PROVE IsList(SpongeMessage)
<1>1. Rate \in Nat \ {0}
  BY DEF SpongeParameters
<1>2. IsList(base) /\ fed \in 0 .. MaxIn /\ before \in 0 .. fed /\ MaxIn \in Nat
  BY DEF SpongeInv, SpongeParameters
<1>3. fed - before \in Nat
  BY <1>2
<1>4. IsList(SpongeMessage)
  <2> DEFINE p == SpongePadded(before, fed - before)
             n == SpongeLength(fed - before)
  <2>1. p = [j \in 1 .. n |-> SpongePadBlock(before, fed - before, n, j)] /\ n \in Nat
    BY <1>1, <1>3 DEF SpongePadded, SpongeLength
  <2> HIDE DEF p, n
  <2>2. p = [j \in 1 .. n |-> p[j]]
    BY <2>1
  <2>3. IsList(p)
    BY <2>1, <2>2 DEF IsList
  <2>4. IsList(base \o p)
    BY ONLY <1>2, <2>3, ListAppends
  <2> QED BY <2>4 DEF SpongeMessage, p
<1> QED BY <1>4

(* What finalize() leaves when the message is over, or what was left.      *)
LEMMA SpongeStarts ==
    ASSUME SpongeParameters, SpongeInv, todo = 0
    PROVE  /\ IsList(SpongeMessage)
           /\ s.squeezing = FALSE =>
                /\ DOMAIN Keccak!Finalize(s) = SpongeFields /\ Keccak!Finalize(s).xof = s.xof
                /\ Keccak!Finalize(s).squeezing = TRUE /\ SpongeGone(Keccak!Finalize(s), SpongeMessage, 0, 0)
<1>1. Rate \in Nat \ {0}
  BY DEF SpongeParameters
<1>2. DOMAIN s = SpongeFields /\ IsList(base) /\ fed \in 0 .. MaxIn /\ before \in 0 .. fed /\ MaxIn \in Nat
  BY DEF SpongeInv, SpongeShape, SpongeParameters
<1>3. fed - before \in Nat /\ before \in Nat
  BY <1>2
<1>4. IsList(SpongeMessage)
  BY SpongeMessages
<1>5. ASSUME s.squeezing = FALSE
      PROVE  /\ DOMAIN Keccak!Finalize(s) = SpongeFields /\ Keccak!Finalize(s).xof = s.xof
             /\ Keccak!Finalize(s).squeezing = TRUE /\ SpongeGone(Keccak!Finalize(s), SpongeMessage, 0, 0)
  <2>1. PICK k \in Nat : SpongeAbsorbs(s, todo, before, fed, base, k)
    BY <1>5 DEF SpongeInv
  <2>2. PICK l \in 0 .. Rate : l = s.offset
    BY <2>1 DEF SpongeAbsorbs
  <2>3. SpongeAt(s, before, base, k, l)
    BY <2>1, <2>2 DEF SpongeAbsorbs
  <2>4. fed - before = k * Rate + l
    <3>1. PICK off \in Nat : off = k * Rate
      BY <1>1
    <3>2. fed = before + k * Rate + s.offset + todo
      BY <2>1 DEF SpongeAbsorbs
    <3> QED BY <1>1, <1>2, <2>2, <3>1, <3>2
  <2> DEFINE x == Keccak!Finalize(s)
             len == fed - before
  <2>5. SpongeRest(len, k, l)
    BY <2>4 DEF SpongeRest
  <2>6. SpongeMessage = base \o SpongePadded(before, len)
    BY DEF SpongeMessage
  <2>7. len \in Nat
    BY <1>3
  <2> HIDE DEF len
  <2>8. SpongeBegins(x, s, base, before, len)
    BY <1>2, <1>3, <2>3, <2>5, <2>7, SpongeFinalizes
  <2> QED BY <2>6, <2>8 DEF SpongeBegins
<1> QED BY <1>4, <1>5

LEMMA SpongeReady ==
    ASSUME SpongeParameters, SpongeInv, todo = 0, s.xof = TRUE
    PROVE  /\ DOMAIN SpongeFresh = SpongeFields /\ SpongeFresh.xof = s.xof /\ SpongeFresh.squeezing = TRUE
           /\ \E q \in Nat, o \in 0 .. Rate, n \in Nat :
                 /\ SpongeGone(SpongeFresh, SpongeMessage, q, o) /\ n = q * Rate + o /\ (o = 0 => q = 0)
                 /\ out = SpongeBytes(SpongeMessage, Rate, n)
<1>1. Rate \in Nat \ {0}
  BY DEF SpongeParameters
<1>2. DOMAIN s = SpongeFields /\ s.squeezing \in BOOLEAN
  BY DEF SpongeInv, SpongeShape
<1>3. CASE s.squeezing = TRUE
  <2>1. SpongeFresh = s
    BY <1>3 DEF SpongeFresh
  <2>2. PICK q \in Nat, n \in Nat :
           /\ SpongeSqueezed(s, todo, SpongeMessage, n, q) /\ out = SpongeBytes(SpongeMessage, SpongeStride(s.xof), n)
    BY <1>3 DEF SpongeInv, SpongeMessage
  <2>3. SpongeGone(s, SpongeMessage, q, s.offset) /\ s.offset \in 0 .. Rate /\ n = q * Rate + s.offset /\ (s.offset = 0 => q = 0)
    BY <2>2 DEF SpongeSqueezed
  <2>4. SpongeStride(s.xof) = Rate
    BY DEF SpongeStride
  <2> QED BY <1>2, <1>3, <2>1, <2>2, <2>3, <2>4
<1>4. CASE s.squeezing = FALSE
  <2>1. SpongeFresh = Keccak!Finalize(s)
    BY <1>4 DEF SpongeFresh
  <2>2. /\ DOMAIN SpongeFresh = SpongeFields /\ SpongeFresh.xof = s.xof /\ SpongeFresh.squeezing = TRUE
        /\ SpongeGone(SpongeFresh, SpongeMessage, 0, 0)
    BY <1>4, <2>1, SpongeStarts
  <2>3. out = <<>>
    BY <1>4 DEF SpongeInv
  <2>4. SpongeBytes(SpongeMessage, Rate, 0) = <<>>
    BY SpongeLists
  <2>5. 0 \in 0 .. Rate /\ 0 = 0 * Rate + 0
    BY <1>1
  <2> QED BY <2>2, <2>3, <2>4, <2>5
<1> QED BY <1>2, <1>3, <1>4

(* Bytes are taken to u of a state.                                        *)
LEMMA SpongeTakes ==
    ASSUME NEW st, DOMAIN st = SpongeFields, NEW d, NEW q, NEW o, SpongeGone(st, d, q, o), NEW u
    PROVE  LET x == [st EXCEPT !.offset = u]
           IN  /\ DOMAIN x = SpongeFields /\ x.xof = st.xof /\ x.squeezing = st.squeezing
               /\ x.offset = u /\ SpongeGone(x, d, q, u)
<1> DEFINE x == [st EXCEPT !.offset = u]
<1>1. /\ DOMAIN x = SpongeFields /\ x.xof = st.xof /\ x.squeezing = st.squeezing
      /\ x.done = st.done /\ x.cells = st.cells /\ x.offset = u
  BY SpongeSetOffset
<1> HIDE DEF x
<1>2. SpongeGone(x, d, q, u)
  BY <1>1 DEF SpongeGone
<1> QED BY <1>1, <1>2 DEF x

LEMMA SpongeSqueeze == ASSUME SpongeParameters, SpongeInv, NEW n \in Chunks, Keccak!Squeeze(n) PROVE SpongeInv'
<1> DEFINE d == SpongeMessage
           ready == Keccak!PermuteIfFull(SpongeFresh, n > 0)
           room == IF ready.offset = 0 THEN 0 ELSE Keccak!Least(Rate - ready.offset, n)
<1>1. Rate \in Nat \ {0} /\ n \in Nat
  BY DEF SpongeParameters
<1>2. /\ todo = 0 /\ s' = Keccak!PermuteIfFull([ready EXCEPT !.offset = @ + room], room < n)
      /\ out' = out \o Keccak!Extract(ready, ready.offset, room) /\ todo' = n - room
      /\ UNCHANGED <<before, fed, base>>
  BY DEF Keccak!Squeeze, SpongeFresh
<1>3. s.xof = TRUE
  <2>1. s.xof \in BOOLEAN
    BY DEF SpongeInv, SpongeShape
  <2> QED BY <2>1 DEF Keccak!Squeeze
<1>4. IsList(d)
  BY <1>2, SpongeStarts
<1>5. DOMAIN SpongeFresh = SpongeFields /\ SpongeFresh.xof = s.xof /\ SpongeFresh.squeezing = TRUE
  BY <1>2, <1>3, SpongeReady
<1>6. PICK q \in Nat, o \in 0 .. Rate, m \in Nat :
         /\ SpongeGone(SpongeFresh, d, q, o) /\ m = q * Rate + o /\ (o = 0 => q = 0) /\ out = SpongeBytes(d, Rate, m)
  BY <1>2, <1>3, SpongeReady
<1>7. PICK off \in Nat : off = q * Rate
  BY <1>1
<1>8. SpongeFresh.offset = o
  BY <1>6 DEF SpongeGone
<1>9. SpongeStride(s.xof) = Rate
  BY <1>3 DEF SpongeStride
(* The state that gives the first bytes, after p permutations.             *)
<1>10. \E p \in Nat, a \in 0 .. Rate :
          /\ DOMAIN ready = SpongeFields /\ ready.xof = s.xof /\ ready.squeezing = TRUE /\ SpongeGone(ready, d, p, a)
          /\ m = p * Rate + a /\ (a = 0 /\ n = 0 => p = 0) /\ (n > 0 => a # Rate)
  <2>1. CASE o = Rate /\ n > 0
    <3>1. ready = Keccak!Permute(SpongeFresh)
      BY <1>8, <2>1 DEF Keccak!PermuteIfFull
    <3> HIDE DEF ready
    <3>2. DOMAIN ready = SpongeFields /\ ready.xof = SpongeFresh.xof /\ ready.squeezing = SpongeFresh.squeezing /\ SpongeGone(ready, d, q + 1, 0)
      BY <1>4, <1>5, <1>6, <3>1, SpongeTurns
    <3>3. ready.xof = s.xof
      BY <1>5, <3>2
    <3>4. ready.squeezing = TRUE
      BY <1>5, <3>2
    <3>5. m = (q + 1) * Rate + 0 /\ q + 1 \in Nat /\ 0 \in 0 .. Rate /\ n # 0 /\ 0 # Rate
      <4>1. (q + 1) * Rate = off + Rate
        BY <1>1, <1>7
      <4> QED BY <1>1, <1>6, <1>7, <2>1, <4>1
    <3> QED BY <3>2, <3>3, <3>4, <3>5
  <2>2. CASE ~(o = Rate /\ n > 0)
    <3>1. ready = SpongeFresh
      BY <1>8, <2>2 DEF Keccak!PermuteIfFull
    <3>2. (o = 0 /\ n = 0 => q = 0) /\ (n > 0 => o # Rate)
      BY <1>6, <2>2
    <3> HIDE DEF ready
    <3> QED BY <1>5, <1>6, <3>1, <3>2
  <2> QED BY <2>1, <2>2
<1> HIDE DEF ready
<1>11. PICK p \in Nat, a \in 0 .. Rate :
          /\ DOMAIN ready = SpongeFields /\ ready.xof = s.xof /\ ready.squeezing = TRUE /\ SpongeGone(ready, d, p, a)
          /\ m = p * Rate + a /\ (a = 0 /\ n = 0 => p = 0) /\ (n > 0 => a # Rate)
  BY <1>10
<1>12. PICK pa \in Nat : pa = p * Rate
  BY <1>1
<1>13. ready.offset = a
  BY <1>11 DEF SpongeGone
<1>14. PICK r \in Nat : r = IF a = 0 THEN 0 ELSE IF Rate - a <= n THEN Rate - a ELSE n
  <2>1. Rate - a \in Nat
    BY <1>1, <1>11
  <2> QED BY <1>1, <2>1
<1>15. room = r
  BY <1>13, <1>14 DEF Keccak!Least
<1> HIDE DEF room
<1>25. a + r \in 0 .. Rate /\ r <= n /\ (a = 0 => r = 0) /\ (a # 0 /\ r < n => a + r = Rate) /\ (a # 0 /\ n > 0 => a + r > 0)
  <2>1. a \in 0 .. Rate
    BY <1>11
  <2> QED BY <1>1, <1>14, <2>1
<1>16. PICK u \in 0 .. Rate : u = a + r
  BY <1>25
<1> DEFINE one == [ready EXCEPT !.offset = u]
<1>17. s' = Keccak!PermuteIfFull(one, r < n)
  <2>1. [ready EXCEPT !.offset = @ + room] = [ready EXCEPT !.offset = u]
    BY <1>13, <1>15, <1>16
  <2> QED BY <1>2, <1>15, <2>1
<1>18. /\ DOMAIN one = SpongeFields /\ one.xof = ready.xof /\ one.squeezing = ready.squeezing
       /\ one.offset = u /\ SpongeGone(one, d, p, u)
  <2>1. DOMAIN ready = SpongeFields
    BY <1>11
  <2>2. SpongeGone(ready, d, p, a)
    BY <1>11
  <2> HIDE DEF d
  <2> QED BY <2>1, <2>2, SpongeTakes
<1> HIDE DEF one
<1>19. one.xof = s.xof /\ one.squeezing = TRUE
  <2>1. one.xof = s.xof
    BY <1>11, <1>18
  <2>2. one.squeezing = TRUE
    BY <1>11, <1>18
  <2> QED BY <2>1, <2>2
<1>20. PICK t \in Nat : t = m + r
  OBVIOUS
<1>21. out' = SpongeBytes(d, Rate, t)
  <2>1. SpongeGets(Rate, p, a, r, m, t)
    <3>1. m = p * Rate + a
      BY <1>11
    <3>2. Rate \in 1 .. Rate /\ a \in 0 .. Rate /\ a + r <= Rate
      BY <1>1, <1>16
    <3> QED BY <1>20, <3>1, <3>2 DEF SpongeGets
  <2>2. SpongeGone(ready, d, p, a)
    BY <1>11
  <2> HIDE DEF d
  <2>3. SpongeThen(SpongeBytes(d, Rate, m), Keccak!Extract(ready, a, r)) = SpongeBytes(d, Rate, t)
    <3>1. p \in Nat
      OBVIOUS
    <3> QED BY ONLY SpongeParameters, <2>1, <2>2, <3>1, SpongeGives
  <2>4. out = SpongeBytes(d, Rate, m)
    BY <1>6
  <2>5. out' = SpongeThen(out, Keccak!Extract(ready, a, r))
    BY <1>2, <1>13, <1>15 DEF SpongeThen
  <2> QED BY ONLY <2>3, <2>4, <2>5
<1>22. todo' = n - r /\ todo' \in Nat
  <2>1. todo' = n - r
    BY <1>2, <1>15
  <2>2. n \in Nat /\ r \in Nat /\ r <= n
    BY <1>1, <1>25
  <2> QED BY ONLY <2>1, <2>2
<1>26. m = pa + a
  BY <1>11, <1>12
<1>23. CASE u = Rate /\ r < n
  <2>1. s' = Keccak!Permute(one)
    BY <1>17, <1>18, <1>23 DEF Keccak!PermuteIfFull
  <2>2. DOMAIN s' = SpongeFields /\ s'.xof = one.xof /\ s'.squeezing = one.squeezing /\ SpongeGone(s', d, p + 1, 0)
    <3>1. DOMAIN one = SpongeFields
      BY <1>18
    <3>2. SpongeGone(one, d, p, Rate)
      BY <1>18, <1>23
    <3> HIDE DEF d
    <3> QED BY <1>4, <2>1, <3>1, <3>2, SpongeTurns
  <2>3. s'.offset = 0
    BY <2>2 DEF SpongeGone
  <2>4. t = (p + 1) * Rate + 0
    <3>1. (p + 1) * Rate = pa + Rate
      BY <1>1, <1>12
    <3> QED BY <1>1, <1>12, <1>16, <1>20, <1>23, <1>26, <3>1
  <2>5. todo' > 0
    BY <1>1, <1>22, <1>23
  <2>6. s'.xof = s.xof
    BY <1>19, <2>2
  <2>7. SpongeSqueezed(s', todo', d, t, p + 1)
    <3>1. 0 \in 0 .. Rate /\ ~(todo' = 0)
      BY <1>1, <2>5
    <3>2. ~(s'.xof = FALSE)
      BY <1>3, <2>6
    <3> QED BY <2>2, <2>3, <2>4, <3>1, <3>2 DEF SpongeSqueezed
  <2>8. p + 1 \in Nat
    OBVIOUS
  <2>9. s'.squeezing = TRUE
    BY <1>19, <2>2
  <2> QED BY <1>2, <1>9, <1>21, <1>22, <2>2, <2>6, <2>7, <2>8, <2>9, SpongeGivesOn
<1>24. CASE ~(u = Rate /\ r < n)
  <2>1. s' = one
    BY <1>17, <1>18, <1>24 DEF Keccak!PermuteIfFull
  <2>2. DOMAIN s' = SpongeFields /\ SpongeGone(s', d, p, u) /\ s'.offset = u
    BY <1>18, <2>1
  <2>3. t = p * Rate + u
    BY <1>1, <1>12, <1>16, <1>20, <1>26
  <2>4. r = n \/ a = 0
    BY <1>1, <1>16, <1>24, <1>25
  <2>5. (todo' > 0 => u = 0) /\ (todo' = 0 /\ u = 0 => p = 0)
    <3>1. CASE r = n
      <4>1. todo' = 0
        BY <1>1, <1>22, <3>1
      <4>2. u = 0 => a = 0 /\ n = 0
        BY <1>1, <1>16, <3>1
      <4>3. a = 0 /\ n = 0 => p = 0
        BY <1>11
      <4> QED BY <4>1, <4>2, <4>3
    <3>2. CASE r # n /\ a = 0
      <4>1. r = 0 /\ u = 0 /\ todo' > 0
        BY <1>1, <1>16, <1>22, <1>25, <3>2
      <4> QED BY <4>1
    <3> QED BY <2>4, <3>1, <3>2
  <2>6. s'.xof = s.xof
    BY <1>19, <2>1
  <2>7. SpongeSqueezed(s', todo', d, t, p)
    <3>1. ~(s'.xof = FALSE)
      BY <1>3, <2>6
    <3> QED BY <2>2, <2>3, <2>5, <3>1 DEF SpongeSqueezed
  <2>8. s'.squeezing = TRUE
    BY <1>19, <2>1
  <2> QED BY <1>2, <1>9, <1>21, <1>22, <2>2, <2>6, <2>7, <2>8, SpongeGivesOn
<1> QED BY <1>23, <1>24

(* In the middle of a squeeze the state is between two blocks.             *)
LEMMA SpongeBetween ==
    ASSUME SpongeParameters, SpongeInv, s.squeezing = TRUE, todo > 0
    PROVE  /\ s.xof = TRUE /\ DOMAIN s = SpongeFields /\ IsList(SpongeMessage)
           /\ \E q \in Nat, m \in Nat :
                 SpongeGone(s, SpongeMessage, q, 0) /\ m = q * Rate /\ out = SpongeBytes(SpongeMessage, Rate, m)
<1>1. Rate \in Nat \ {0}
  BY DEF SpongeParameters
<1>2. DOMAIN s = SpongeFields /\ s.xof \in BOOLEAN /\ todo \in Nat
  BY DEF SpongeInv, SpongeShape
<1>3. PICK q \in Nat, m \in Nat :
         /\ SpongeSqueezed(s, todo, SpongeMessage, m, q) /\ out = SpongeBytes(SpongeMessage, SpongeStride(s.xof), m)
  BY DEF SpongeInv, SpongeMessage
<1>4. s.xof = TRUE
  <2>1. s.xof = FALSE => todo = 0
    BY <1>3 DEF SpongeSqueezed
  <2> QED BY <1>2, <2>1
<1>5. SpongeGone(s, SpongeMessage, q, s.offset) /\ m = q * Rate + s.offset /\ s.offset = 0
  BY <1>3, <1>4 DEF SpongeSqueezed
<1>6. m = q * Rate
  <2>1. PICK off \in Nat : off = q * Rate
    BY <1>1
  <2> QED BY <1>5, <2>1
<1>7. SpongeStride(s.xof) = Rate
  BY <1>4 DEF SpongeStride
<1> QED BY <1>2, <1>3, <1>4, <1>5, <1>6, <1>7, SpongeMessages

(* The bytes of a state whose first are still to be given.                 *)
LEMMA SpongeGivesFirst ==
    ASSUME SpongeParameters, NEW d, NEW q \in Nat, SpongeGone(s, d, q, 0), NEW m \in Nat, m = q * Rate,
           out = SpongeBytes(d, Rate, m), NEW c \in 0 .. Rate, NEW t, t = m + c
    PROVE  SpongeThen(out, Keccak!Extract(s, 0, c)) = SpongeBytes(d, Rate, t)
<1>1. Rate \in Nat \ {0}
  BY DEF SpongeParameters
<1>2. SpongeGets(Rate, q, 0, c, m, t)
  <2>1. m = q * Rate + 0 /\ Rate \in 1 .. Rate /\ 0 \in 0 .. Rate /\ 0 + c <= Rate /\ c \in Nat
    BY <1>1
  <2> QED BY <2>1 DEF SpongeGets
<1> QED BY <1>2, SpongeGives

LEMMA SpongeSqueezeBlock == ASSUME SpongeParameters, SpongeInv, Keccak!SqueezeBlock PROVE SpongeInv'
<1> DEFINE d == SpongeMessage
           one == [s EXCEPT !.offset = Rate]
<1>1. Rate \in Nat \ {0} /\ todo \in Nat
  BY DEF SpongeParameters, SpongeInv
<1>2. /\ todo >= Rate /\ s' = Keccak!PermuteIfFull(one, todo > Rate) /\ out' = out \o Keccak!Extract(s, 0, Rate)
      /\ todo' = todo - Rate /\ UNCHANGED <<before, fed, base>>
  BY DEF Keccak!SqueezeBlock
<1>3. s.squeezing = TRUE
  <2>1. s.squeezing \in BOOLEAN
    BY DEF SpongeInv, SpongeShape
  <2> QED BY <2>1 DEF Keccak!SqueezeBlock
<1>4. todo > 0
  BY <1>1, <1>2
<1>5. s.xof = TRUE /\ DOMAIN s = SpongeFields /\ IsList(d)
  BY <1>3, <1>4, SpongeBetween
<1>6. PICK q \in Nat, m \in Nat : SpongeGone(s, d, q, 0) /\ m = q * Rate /\ out = SpongeBytes(d, Rate, m)
  BY <1>3, <1>4, SpongeBetween
<1> HIDE DEF d
<1>7. PICK t \in Nat : t = m + Rate
  BY <1>1
<1>8. out' = SpongeBytes(d, Rate, t)
  <2>1. SpongeThen(out, Keccak!Extract(s, 0, Rate)) = SpongeBytes(d, Rate, t)
    <3>1. Rate \in 0 .. Rate
      BY <1>1
    <3> QED BY <1>6, <1>7, <3>1, SpongeGivesFirst
  <2> QED BY <1>2, <2>1 DEF SpongeThen
<1>9. SpongeStride(s.xof) = Rate
  BY <1>5 DEF SpongeStride
<1>10. /\ DOMAIN one = SpongeFields /\ one.xof = s.xof /\ one.squeezing = s.squeezing
       /\ one.offset = Rate /\ SpongeGone(one, d, q, Rate)
  <2>1. SpongeGone(s, d, q, 0)
    BY <1>6
  <2> QED BY <1>5, <2>1, SpongeTakes
<1> HIDE DEF one
<1>11. PICK off \in Nat : off = q * Rate
  BY <1>1
<1>12. CASE todo > Rate
  <2>1. s' = Keccak!Permute(one)
    BY <1>2, <1>10, <1>12 DEF Keccak!PermuteIfFull
  <2>2. DOMAIN s' = SpongeFields /\ s'.xof = one.xof /\ s'.squeezing = one.squeezing /\ SpongeGone(s', d, q + 1, 0)
    <3>1. DOMAIN one = SpongeFields /\ SpongeGone(one, d, q, Rate)
      BY <1>10
    <3> QED BY <1>5, <2>1, <3>1, SpongeTurns
  <2>3. s'.offset = 0
    BY <2>2 DEF SpongeGone
  <2>4. t = (q + 1) * Rate + 0
    <3>1. (q + 1) * Rate = off + Rate
      BY <1>1, <1>11
    <3> QED BY <1>1, <1>6, <1>7, <1>11, <3>1
  <2>5. todo' \in Nat /\ ~(todo' = 0) /\ 0 \in 0 .. Rate
    BY <1>1, <1>2, <1>12
  <2>6. s'.xof = s.xof
    BY <1>10, <2>2
  <2>7. SpongeSqueezed(s', todo', d, t, q + 1)
    <3>1. ~(s'.xof = FALSE)
      BY <1>5, <2>6
    <3> QED BY <2>2, <2>3, <2>4, <2>5, <3>1 DEF SpongeSqueezed
  <2>8. q + 1 \in Nat
    OBVIOUS
  <2>9. s'.squeezing = TRUE
    BY <1>3, <1>10, <2>2
  <2> QED BY <1>2, <1>8, <1>9, <2>2, <2>5, <2>6, <2>7, <2>8, <2>9, SpongeGivesOn DEF d
<1>13. CASE ~(todo > Rate)
  <2>1. s' = one
    BY <1>2, <1>10, <1>13 DEF Keccak!PermuteIfFull
  <2>2. DOMAIN s' = SpongeFields /\ SpongeGone(s', d, q, Rate) /\ s'.offset = Rate
    BY <1>10, <2>1
  <2>3. t = q * Rate + Rate
    BY <1>1, <1>6, <1>7, <1>11
  <2>4. todo' \in Nat /\ todo' = 0 /\ ~(todo' > 0) /\ ~(Rate = 0) /\ Rate \in 0 .. Rate
    BY <1>1, <1>2, <1>13
  <2>5. s'.xof = s.xof
    BY <1>10, <2>1
  <2>6. SpongeSqueezed(s', todo', d, t, q)
    <3>1. ~(s'.xof = FALSE)
      BY <1>5, <2>5
    <3> QED BY <2>2, <2>3, <2>4, <3>1 DEF SpongeSqueezed
  <2>7. s'.squeezing = TRUE
    BY <1>3, <1>10, <2>1
  <2> QED BY <1>2, <1>8, <1>9, <2>2, <2>4, <2>5, <2>6, <2>7, SpongeGivesOn DEF d
<1> QED BY <1>12, <1>13

LEMMA SpongeSqueezeRest == ASSUME SpongeParameters, SpongeInv, Keccak!SqueezeRest PROVE SpongeInv'
<1> DEFINE d == SpongeMessage
<1>1. Rate \in Nat \ {0} /\ todo \in Nat
  BY DEF SpongeParameters, SpongeInv
<1>2. /\ todo \in 1 .. (Rate - 1) /\ s' = [s EXCEPT !.offset = todo] /\ out' = out \o Keccak!Extract(s, 0, todo)
      /\ todo' = 0 /\ UNCHANGED <<before, fed, base>>
  BY DEF Keccak!SqueezeRest
<1>3. s.squeezing = TRUE
  <2>1. s.squeezing \in BOOLEAN
    BY DEF SpongeInv, SpongeShape
  <2> QED BY <2>1 DEF Keccak!SqueezeRest
<1>4. todo > 0 /\ todo \in 0 .. Rate /\ ~(todo = 0)
  BY <1>1, <1>2
<1>5. s.xof = TRUE /\ DOMAIN s = SpongeFields /\ IsList(d)
  BY <1>3, <1>4, SpongeBetween
<1>6. PICK q \in Nat, m \in Nat : SpongeGone(s, d, q, 0) /\ m = q * Rate /\ out = SpongeBytes(d, Rate, m)
  BY <1>3, <1>4, SpongeBetween
<1> HIDE DEF d
<1>7. PICK t \in Nat : t = m + todo
  BY <1>1
<1>8. out' = SpongeBytes(d, Rate, t)
  <2>1. SpongeThen(out, Keccak!Extract(s, 0, todo)) = SpongeBytes(d, Rate, t)
    BY <1>4, <1>6, <1>7, SpongeGivesFirst
  <2> QED BY <1>2, <2>1 DEF SpongeThen
<1>9. SpongeStride(s.xof) = Rate
  BY <1>5 DEF SpongeStride
<1>10. /\ DOMAIN s' = SpongeFields /\ s'.xof = s.xof /\ s'.squeezing = s.squeezing
       /\ s'.offset = todo /\ SpongeGone(s', d, q, todo)
  <2>1. SpongeGone(s, d, q, 0) /\ s' = [s EXCEPT !.offset = todo]
    BY <1>2, <1>6
  <2> QED BY <1>5, <2>1, SpongeTakes
<1>11. t = q * Rate + todo
  BY <1>6, <1>7
<1>12. SpongeSqueezed(s', todo', d, t, q)
  <2>1. ~(s'.xof = FALSE)
    BY <1>5, <1>10
  <2>2. todo' = 0 /\ ~(todo' > 0)
    BY <1>2
  <2> QED BY <1>4, <1>10, <1>11, <2>1, <2>2 DEF SpongeSqueezed
<1>13. s'.squeezing = TRUE /\ todo' \in Nat
  BY <1>2, <1>3, <1>10
<1> QED BY <1>2, <1>8, <1>9, <1>10, <1>12, <1>13, SpongeGivesOn DEF d

LEMMA SpongeSha3Final == ASSUME SpongeParameters, SpongeInv, Keccak!Sha3Final PROVE SpongeInv'
<1> DEFINE d == SpongeMessage
           st == IF s.squeezing THEN Keccak!Permute(s) ELSE Keccak!Finalize(s)
<1>1. Rate \in Nat \ {0} /\ OutLen \in 1 .. Rate /\ OutLen \in Nat
  BY DEF SpongeParameters
<1>2. /\ todo = 0 /\ s' = [st EXCEPT !.offset = 0] /\ out' = out \o Keccak!Extract(st, 0, OutLen)
      /\ UNCHANGED <<todo, before, fed, base>>
  BY DEF Keccak!Sha3Final
<1>3. DOMAIN s = SpongeFields /\ s.squeezing \in BOOLEAN /\ s.xof \in BOOLEAN
  BY DEF SpongeInv, SpongeShape
<1>4. s.xof = FALSE
  BY <1>3 DEF Keccak!Sha3Final
<1>5. IsList(d)
  BY SpongeMessages
<1>6. SpongeStride(s.xof) = OutLen
  BY <1>4 DEF SpongeStride
<1>7. \E p \in Nat, n \in Nat :
         /\ DOMAIN st = SpongeFields /\ st.xof = s.xof /\ st.squeezing = TRUE /\ SpongeGone(st, d, p, 0)
         /\ n = p * OutLen /\ out = SpongeBytes(d, OutLen, n)
  <2>1. CASE s.squeezing = TRUE
    <3>1. st = Keccak!Permute(s)
      BY <2>1
    <3>2. PICK q \in Nat, m \in Nat :
             /\ SpongeSqueezed(s, todo, d, m, q) /\ out = SpongeBytes(d, SpongeStride(s.xof), m)
      BY <2>1 DEF SpongeInv, SpongeMessage
    <3> HIDE DEF st, d
    <3>3. SpongeGone(s, d, q, s.offset) /\ m = (q + 1) * OutLen
      BY <1>4, <3>2 DEF SpongeSqueezed
    <3>4. DOMAIN st = SpongeFields /\ st.xof = s.xof /\ st.squeezing = s.squeezing /\ SpongeGone(st, d, q + 1, 0)
      BY <1>3, <1>5, <3>1, <3>3, SpongeTurns
    <3>5. st.squeezing = TRUE
      BY <2>1, <3>4
    <3>6. out = SpongeBytes(d, OutLen, m) /\ q + 1 \in Nat
      BY <1>6, <3>2
    <3> QED BY <3>3, <3>4, <3>5, <3>6
  <2>2. CASE s.squeezing = FALSE
    <3>1. st = Keccak!Finalize(s)
      BY <2>2
    <3>2. out = <<>>
      BY <2>2 DEF SpongeInv
    <3> HIDE DEF st
    <3>3. DOMAIN st = SpongeFields /\ st.xof = s.xof /\ st.squeezing = TRUE /\ SpongeGone(st, d, 0, 0)
      BY <1>2, <2>2, <3>1, SpongeStarts
    <3> HIDE DEF d
    <3>4. SpongeBytes(d, OutLen, 0) = <<>>
      BY SpongeLists
    <3>5. 0 = 0 * OutLen /\ 0 \in Nat
      BY <1>1
    <3> QED BY <3>2, <3>3, <3>4, <3>5
  <2> QED BY <1>3, <2>1, <2>2
<1> HIDE DEF st, d
<1>8. PICK p \in Nat, n \in Nat :
         /\ DOMAIN st = SpongeFields /\ st.xof = s.xof /\ st.squeezing = TRUE /\ SpongeGone(st, d, p, 0)
         /\ n = p * OutLen /\ out = SpongeBytes(d, OutLen, n)
  BY <1>7
<1>9. PICK t \in Nat : t = n + OutLen
  BY <1>1
<1>10. PICK off \in Nat : off = p * OutLen
  BY <1>1
<1>11. out' = SpongeBytes(d, OutLen, t)
  <2>1. SpongeGets(OutLen, p, 0, OutLen, n, t)
    <3>1. n = p * OutLen + 0
      BY <1>8, <1>10
    <3>2. OutLen \in 1 .. Rate /\ 0 \in 0 .. OutLen /\ OutLen \in Nat /\ 0 + OutLen <= OutLen
      BY <1>1
    <3> QED BY <1>9, <3>1, <3>2 DEF SpongeGets
  <2>2. SpongeGone(st, d, p, 0)
    BY <1>8
  <2>3. SpongeThen(SpongeBytes(d, OutLen, n), Keccak!Extract(st, 0, OutLen)) = SpongeBytes(d, OutLen, t)
    BY <2>1, <2>2, SpongeGives
  <2> QED BY <1>2, <1>8, <2>3 DEF SpongeThen
<1>12. DOMAIN s' = SpongeFields /\ s'.xof = st.xof /\ s'.squeezing = st.squeezing /\ s'.offset = 0 /\ SpongeGone(s', d, p, 0)
  <2>1. DOMAIN st = SpongeFields /\ SpongeGone(st, d, p, 0)
    BY <1>8
  <2> QED BY <1>2, <2>1, SpongeTakes
<1>13. s'.xof = s.xof
  BY <1>8, <1>12
<1>14. s'.squeezing = TRUE
  BY <1>8, <1>12
<1>15. SpongeSqueezed(s', todo', d, t, p)
  <2>1. t = (p + 1) * OutLen
    <3>1. (p + 1) * OutLen = off + OutLen
      BY <1>1, <1>10
    <3> QED BY <1>1, <1>8, <1>9, <1>10, <3>1
  <2>2. ~(s'.xof = TRUE) /\ todo' = 0 /\ 0 \in 0 .. Rate
    BY <1>1, <1>2, <1>4, <1>13
  <2> QED BY <1>12, <2>1, <2>2 DEF SpongeSqueezed
<1>16. todo' \in Nat
  BY <1>2
<1> QED BY <1>2, <1>6, <1>11, <1>12, <1>13, <1>14, <1>15, <1>16, SpongeGivesOn DEF d

-----------------------------------------------------------------------------
(* An update after an output.                                              *)

(* The permutations an output has used, from its length.                   *)
LEMMA SpongeSpends ==
    ASSUME SpongeParameters, s.xof \in BOOLEAN, NEW d, NEW q \in Nat, NEW n \in Nat, SpongeSqueezed(s, 0, d, n, q),
           Len(out) = n
    PROVE  Keccak!Spent = q + 1
<1>1. Rate \in Nat \ {0} /\ OutLen \in Nat \ {0}
  BY DEF SpongeParameters
<1>2. CASE s.xof = TRUE
  <2>1. Keccak!Stride = Rate
    BY <1>2 DEF Keccak!Stride
  <2>2. s.offset \in 0 .. Rate /\ n = q * Rate + s.offset /\ (s.offset = 0 => q = 0)
    BY <1>2 DEF SpongeSqueezed
  <2>3. PICK o \in 0 .. Rate : o = s.offset
    BY <2>2
  <2>4. PICK off \in Nat : off = q * Rate
    BY <1>1
  <2>5. CASE o = 0
    <3>1. q = 0 /\ n = 0
      BY <1>1, <2>2, <2>3, <2>5
    <3>2. n + (Rate - 1) = 0 * Rate + (Rate - 1)
      BY <1>1, <3>1
    <3>3. (0 * Rate + (Rate - 1)) \div Rate = 0
      <4>1. 0 \in Int /\ Rate - 1 \in 0 .. (Rate - 1)
        BY <1>1
      <4> QED BY ONLY <1>1, <4>1, DivIs
    <3>4. (n + (Rate - 1)) \div Rate = 0
      BY <3>2, <3>3
    <3> QED BY <2>1, <3>1, <3>4 DEF Keccak!Spent
  <2>6. CASE o # 0
    <3>1. PICK r \in 0 .. (Rate - 1) : r = o - 1
      BY <1>1, <2>6
    <3>2. (q + 1) * Rate = off + Rate
      BY <1>1, <2>4
    <3>3. n + (Rate - 1) = (q + 1) * Rate + r
      BY <1>1, <2>2, <2>3, <2>4, <3>1, <3>2
    <3>4. ((q + 1) * Rate + r) \div Rate = q + 1
      <4>1. q + 1 \in Int
        OBVIOUS
      <4> QED BY ONLY <1>1, <4>1, DivIs
    <3>5. (n + (Rate - 1)) \div Rate = q + 1
      BY <3>3, <3>4
    <3>6. q + 1 # 0
      OBVIOUS
    <3> QED BY <2>1, <3>5, <3>6 DEF Keccak!Spent
  <2> QED BY <2>5, <2>6
<1>3. CASE s.xof = FALSE
  <2>1. Keccak!Stride = OutLen
    BY <1>3 DEF Keccak!Stride
  <2>2. n = (q + 1) * OutLen
    BY <1>3 DEF SpongeSqueezed
  <2>3. PICK r \in 0 .. (OutLen - 1) : r = OutLen - 1
    BY <1>1
  <2>4. n + (OutLen - 1) = (q + 1) * OutLen + r
    BY <2>2, <2>3
  <2>5. ((q + 1) * OutLen + r) \div OutLen = q + 1
    <3>1. q + 1 \in Int
      OBVIOUS
    <3> QED BY ONLY <1>1, <3>1, DivIs
  <2>6. (n + (OutLen - 1)) \div OutLen = q + 1
    BY <2>4, <2>5
  <2>7. q + 1 # 0
    OBVIOUS
  <2> QED BY <2>1, <2>6, <2>7 DEF Keccak!Spent
<1> QED BY <1>2, <1>3

LEMMA SpongeLateUpdate == ASSUME SpongeParameters, SpongeInv, NEW n \in Chunks, Keccak!LateUpdate(n) PROVE SpongeInv'
<1> DEFINE d == SpongeMessage
           one == Keccak!Permute(s)
<1>1. Rate \in Nat \ {0} /\ MaxIn \in Nat /\ n \in Nat
  BY DEF SpongeParameters
<1>2. /\ todo = 0 /\ fed + n <= MaxIn /\ s' = [one EXCEPT !.squeezing = FALSE] /\ before' = fed /\ out' = <<>>
      /\ base' = base \o Keccak!Padded(fed - before) \o Keccak!Blanks(Keccak!Spent)
      /\ fed' = fed + n /\ todo' = n
  BY DEF Keccak!LateUpdate
<1>3. DOMAIN s = SpongeFields /\ s.squeezing \in BOOLEAN /\ s.xof \in BOOLEAN /\ fed \in 0 .. MaxIn
  BY DEF SpongeInv, SpongeShape
<1>4. s.squeezing = TRUE
  BY <1>3 DEF Keccak!LateUpdate
<1>5. IsList(d)
  BY SpongeMessages
<1>6. PICK q \in Nat, m \in Nat :
         /\ SpongeSqueezed(s, todo, d, m, q) /\ out = SpongeBytes(d, SpongeStride(s.xof), m)
  BY <1>4 DEF SpongeInv, SpongeMessage
<1>7. Keccak!Spent = q + 1
  <2> HIDE DEF d
  <2>1. Len(out) = m
    BY <1>6, SpongeLasts
  <2>2. SpongeSqueezed(s, 0, d, m, q)
    BY <1>2, <1>6
  <2> QED BY <1>3, <2>1, <2>2, SpongeSpends
<1>8. base' = d \o SpongeBlanks(q + 1)
  BY <1>2, <1>7, SpongeSame DEF SpongeMessage
<1> HIDE DEF d
<1>9. /\ DOMAIN one = SpongeFields /\ one.xof = s.xof /\ one.squeezing = s.squeezing /\ SpongeGone(one, d, q + 1, 0)
  <2>1. SpongeGone(s, d, q, s.offset)
    BY <1>6 DEF SpongeSqueezed
  <2> QED BY <1>3, <1>5, <2>1, SpongeTurns
<1>10. one.done = base' /\ one.cells = SpongeBlank /\ one.offset = 0
  BY <1>8, <1>9 DEF SpongeGone
<1> HIDE DEF one
<1>11. /\ DOMAIN s' = SpongeFields /\ s'.xof = one.xof /\ s'.squeezing = FALSE /\ s'.done = one.done
       /\ s'.cells = one.cells /\ s'.offset = one.offset
  BY <1>2, <1>9, SpongeSetSqueezing
<1>12. IsList(base')
  <2>1. q + 1 \in Nat
    OBVIOUS
  <2>2. IsList(SpongeBlanks(q + 1))
    BY <2>1, SpongeLists
  <2>3. IsList(d \o SpongeBlanks(q + 1))
    BY ONLY <1>5, <2>2, ListAppends
  <2> QED BY <1>8, <2>3
<1>13. SpongeAt(s', fed, base', 0, 0)
  <2>1. base' \o SpongeAbsorbed(fed, 0) = base'
    <3>1. SpongeAbsorbed(fed, 0) = <<>>
      BY SpongeLists
    <3>2. base' \o <<>> = base'
      BY ONLY <1>12, ListEmpty
    <3> QED BY <3>1, <3>2
  <2>2. s'.done = base' \o SpongeAbsorbed(fed, 0)
    BY <1>10, <1>11, <2>1
  <2>3. s'.cells = SpongeCells(fed + 0 * Rate, 0)
    <3>1. \A i \in 0 .. (Rate - 1) : ~(i < 0)
      BY <1>1
    <3>2. s'.cells = SpongeBlank
      BY <1>10, <1>11
    <3> QED BY <3>1, <3>2 DEF SpongeBlank, SpongeCells
  <2>4. s'.offset = 0
    BY <1>10, <1>11
  <2> QED BY <2>2, <2>3, <2>4 DEF SpongeAt
<1>14. SpongeAbsorbs(s', todo', before', fed', base', 0)
  <2>1. fed' = before' + 0 * Rate + 0 + todo' /\ 0 \in 0 .. Rate /\ s'.offset = 0
    BY <1>1, <1>2, <1>3, <1>10, <1>11
  <2>2. SpongeAt(s', before', base', 0, 0)
    BY <1>2, <1>13
  <2> QED BY <2>1, <2>2 DEF SpongeAbsorbs
<1>15. SpongeShape(s')
  <2>1. s'.xof \in BOOLEAN
    BY <1>3, <1>9, <1>11
  <2>2. s'.squeezing \in BOOLEAN
    BY <1>11
  <2> QED BY <1>11, <2>1, <2>2 DEF SpongeShape
<1>16. fed' \in 0 .. MaxIn /\ before' \in 0 .. fed' /\ todo' \in Nat /\ 0 \in Nat
  BY <1>1, <1>2, <1>3
<1>17. ~(s'.squeezing = TRUE)
  BY <1>11
<1> QED BY <1>2, <1>12, <1>14, <1>15, <1>16, <1>17 DEF SpongeInv

-----------------------------------------------------------------------------
LEMMA SpongeStep == ASSUME SpongeParameters, SpongeInv, [Keccak!Next]_(Keccak!vars) PROVE SpongeInv'
<1>1. CASE \E n \in Chunks : Keccak!Update(n) \/ Keccak!LateUpdate(n) \/ Keccak!Squeeze(n)
  BY <1>1, SpongeUpdate, SpongeLateUpdate, SpongeSqueeze
<1>2. CASE Keccak!UpdateBlock
  BY <1>2, SpongeUpdateBlock
<1>3. CASE Keccak!UpdateRest
  BY <1>3, SpongeUpdateRest
<1>4. CASE Keccak!SqueezeBlock
  BY <1>4, SpongeSqueezeBlock
<1>5. CASE Keccak!SqueezeRest
  BY <1>5, SpongeSqueezeRest
<1>6. CASE Keccak!Sha3Final
  BY <1>6, SpongeSha3Final
<1>7. CASE UNCHANGED Keccak!vars
  <2>1. s' = s /\ todo' = todo /\ before' = before /\ fed' = fed /\ out' = out /\ base' = base
    BY <1>7 DEF Keccak!vars
  <2> QED BY <2>1 DEF SpongeInv
<1> QED BY <1>1, <1>2, <1>3, <1>4, <1>5, <1>6, <1>7 DEF Keccak!Next

LEMMA SpongeOutputIs == ASSUME SpongeParameters, SpongeInv PROVE Keccak!SqueezesTheSponge
<1>1. s.squeezing \in BOOLEAN /\ s.xof \in BOOLEAN
  BY DEF SpongeInv, SpongeShape
<1>2. CASE s.squeezing = FALSE
  <2>1. out = <<>>
    BY <1>2 DEF SpongeInv
  <2>2. DOMAIN out = {}
    BY <2>1
  <2> QED BY <2>2 DEF Keccak!SqueezesTheSponge
<1>3. CASE s.squeezing = TRUE
  <2> DEFINE d == base \o SpongePadded(before, fed - before)
  <2>1. PICK n \in Nat : out = SpongeBytes(d, SpongeStride(s.xof), n)
    BY <1>3 DEF SpongeInv
  <2>2. Keccak!Stride = SpongeStride(s.xof)
    BY DEF Keccak!Stride, SpongeStride
  <2>3. d = base \o Keccak!Padded(fed - before)
    BY SpongeSame
  <2> HIDE DEF d
  <2>4. \A j \in DOMAIN out : out[j] = SpongeByte(d, SpongeStride(s.xof), j)
    BY <2>1 DEF SpongeBytes
  <2>5. ASSUME NEW j \in DOMAIN out
        PROVE  out[j] = [done |-> d \o Keccak!Blanks((j - 1) \div Keccak!Stride), at |-> (j - 1) % Keccak!Stride, cell |-> {}]
    BY <2>2, <2>4, SpongeSame DEF SpongeByte
  <2> QED BY <2>3, <2>5 DEF Keccak!SqueezesTheSponge
<1> QED BY <1>1, <1>2, <1>3

LEMMA SpongeSafe == ASSUME SpongeParameters, SpongeInv PROVE Keccak!SpongeSqueezes
<1>1. Keccak!SqueezesTheSponge
  BY SpongeOutputIs
<1>2. fed \in 0 .. MaxIn /\ before \in 0 .. fed /\ s.xof \in BOOLEAN /\ s.squeezing \in BOOLEAN
  BY DEF SpongeInv, SpongeShape
<1>3. s.offset \in 0 .. Rate /\ DOMAIN s.cells = 0 .. (Rate - 1)
  <2>1. CASE s.squeezing = FALSE
    <3>1. PICK k \in Nat : SpongeAbsorbs(s, todo, before, fed, base, k)
      BY <2>1 DEF SpongeInv
    <3>2. s.offset \in 0 .. Rate /\ s.cells = SpongeCells(before + k * Rate, s.offset)
      BY <3>1 DEF SpongeAbsorbs, SpongeAt
    <3>3. DOMAIN SpongeCells(before + k * Rate, s.offset) = 0 .. (Rate - 1)
      BY DEF SpongeCells
    <3> QED BY <3>2, <3>3
  <2>2. CASE s.squeezing = TRUE
    <3>1. PICK q \in Nat, n \in Nat : SpongeSqueezed(s, todo, base \o SpongePadded(before, fed - before), n, q)
      BY <2>2 DEF SpongeInv
    <3>2. s.offset \in 0 .. Rate /\ s.cells = SpongeBlank
      BY <3>1 DEF SpongeSqueezed, SpongeGone
    <3>3. DOMAIN SpongeBlank = 0 .. (Rate - 1)
      BY DEF SpongeBlank
    <3> QED BY <3>2, <3>3
  <2> QED BY <1>2, <2>1, <2>2
<1> QED BY <1>1, <1>2, <1>3 DEF Keccak!SpongeSqueezes, Keccak!TypeOK

(* However a message is cut into updates and its output into squeezes,     *)
(* whether a block is permuted when it is full or when the next byte       *)
(* comes, every byte that is squeezed is that byte of the sponge over the  *)
(* padded message, and a message that is absorbed after an output goes on  *)
(* from the state that output would have gone on from.                     *)
THEOREM SpongeOutputs == ASSUME SpongeParameters PROVE Keccak!Spec => []Keccak!SpongeSqueezes
<1>1. SpongeInv => Keccak!SpongeSqueezes
  BY SpongeSafe
<1>2. Keccak!Init => SpongeInv
  BY SpongeInit
<1>3. SpongeInv /\ [Keccak!Next]_(Keccak!vars) => SpongeInv'
  BY SpongeStep
<1> QED BY <1>1, <1>2, <1>3, PTL DEF Keccak!Spec

-----------------------------------------------------------------------------
(* Argon2                                                                  *)

(* There is a lane and a pass at least: argon2_validate_inputs() says so.  *)
FillParameters ==
    /\ Argon2WordMod \in Nat \ {0}
    /\ \A i \in Argon!Inputs : i.lanes \in Nat \ {0} /\ i.m_cost \in Nat /\ i.t_cost \in Nat \ {0}

(* A block is written in this pass if its segment is done, or being done   *)
(* and it is in a lane, or at an index, that was reached.                  *)
Written(b) ==
    \/ Argon!Segment(b) < at.slice
    \/ /\ Argon!Segment(b) = at.slice
       /\ Argon!Lane(b) < at.lane \/ (Argon!Lane(b) = at.lane /\ b % Argon!SegmentLength < at.index)

FillCount(b) ==
    IF at.pass = 0 /\ b % Argon!LaneLength < 2 THEN 1
    ELSE IF Written(b) THEN at.pass + 1 ELSE at.pass

FillTypes ==
    /\ input \in Argon!Inputs
    /\ at \in [stage : {"segment", "block", "finalize", "done"}, pass : Nat, slice : 0 .. 3,
               lane : 0 .. (input.lanes - 1), index : 0 .. Argon!SegmentLength, curr : Int, prev : Int,
               read : {Argon!NoBlock} \cup (Int \X Int), wrote : Int]
    /\ mem \in [Argon!Blocks -> Nat]

FillOffset == at.slice * Argon!SegmentLength + at.index

FillPlaces ==
    /\ at.stage \in {"segment", "block"} => at.pass < input.t_cost
    /\ at.stage \in {"finalize", "done"} => at.pass = input.t_cost /\ at.slice = 0 /\ at.lane = 0
    /\ at.stage # "block" => at.index = 0 /\ at.wrote = Argon!NoBlock
    /\ at.stage = "block" =>
          /\ Argon!FirstSlice => at.index >= 2
          /\ at.curr = at.lane * Argon!LaneLength + FillOffset
          /\ at.index < Argon!SegmentLength /\ FillOffset # 1 =>
                at.prev = IF FillOffset = 0 THEN at.curr + Argon!LaneLength - 1 ELSE at.curr - 1

FillCounts == \A b \in Argon!Blocks : mem[b] = FillCount(b)

(* The invariant: the counts say which blocks are finished, which is not   *)
(* seen from the blocks last read.                                         *)
FillInv == FillTypes /\ FillPlaces /\ FillCounts /\ Argon!ReadsFinishedBlocks

-----------------------------------------------------------------------------
(* Arithmetic of lanes of four segments of S blocks.                       *)
LEMMA QuotientIs ==
    ASSUME NEW d \in Nat \ {0}, NEW q \in Int, NEW r \in Int, q * d <= r, r < q * d + d
    PROVE  r \div d = q /\ r % d = r - q * d
  OBVIOUS

LEMMA DivOf ==
    ASSUME NEW d \in Nat \ {0}, NEW r \in Int
    PROVE  r \div d \in Int /\ r % d \in 0 .. (d - 1) /\ r = d * (r \div d) + (r % d)
  OBVIOUS

(* The place b of index k of segment g of lane l, and back; T is a lane.   *)
IsPlace(S, T, n, l, g, k, b) ==
    /\ b \in 0 .. (n * T - 1)
    /\ b \div T = l /\ b % T = g * S + k
    /\ (b % T) \div S = g /\ b % S = k

LEMMA PlaceOf ==
    ASSUME NEW S \in Nat \ {0}, NEW T \in Nat, T = S * 4,
           NEW n \in Nat, NEW l \in 0 .. (n - 1), NEW g \in 0 .. 3, NEW k \in 0 .. (S - 1),
           NEW b \in Int, b = l * T + (g * S + k)
    PROVE  IsPlace(S, T, n, l, g, k, b)
<1>1. g * S + k \in 0 .. (T - 1)
  <2>1. g * S <= 3 * S /\ g * S >= 0
    OBVIOUS
  <2>2. QED BY <2>1
<1>2. b \div T = l /\ b % T = g * S + k
  <2>1. l * T <= b /\ b < l * T + T /\ T \in Nat \ {0} /\ l \in Int
    BY <1>1
  <2>2. b \div T = l /\ b % T = b - l * T
    BY ONLY <2>1, QuotientIs, b \in Int
  <2>3. QED BY <2>2
<1>3. (g * S + k) \div S = g
  <2>1. g * S <= g * S + k /\ g * S + k < g * S + S /\ g * S + k \in Int /\ g \in Int
    BY <1>1
  <2>2. QED BY ONLY <2>1, QuotientIs, S \in Nat \ {0}
<1>4. b % S = k
  <2> DEFINE q == l * 4 + g
  <2>1. b = q * S + k /\ q \in Int
    OBVIOUS
  <2>2. q * S <= b /\ b < q * S + S
    BY <2>1
  <2> HIDE DEF q
  <2>3. b % S = b - q * S
    BY ONLY <2>1, <2>2, QuotientIs, S \in Nat \ {0}, b \in Int
  <2>4. QED BY <2>1, <2>3
<1>5. b \in 0 .. (n * T - 1)
  <2>1. l * T >= 0 /\ l * T + T <= n * T
    <3>1. (n - l) * T >= T
      OBVIOUS
    <3>2. QED BY <3>1
  <2>2. QED BY <1>1, <2>1
<1>6. QED BY <1>2, <1>3, <1>4, <1>5 DEF IsPlace

HasPlace(S, T, n, b) ==
    /\ b \div T \in 0 .. (n - 1)
    /\ (b % T) \div S \in 0 .. 3
    /\ b % S \in 0 .. (S - 1)
    /\ b % T = ((b % T) \div S) * S + (b % S)
    /\ b = (b \div T) * T + (((b % T) \div S) * S + (b % S))

LEMMA PartsOf ==
    ASSUME NEW S \in Nat \ {0}, NEW T \in Nat, T = S * 4, NEW n \in Nat, NEW b \in 0 .. (n * T - 1)
    PROVE  HasPlace(S, T, n, b)
<1> DEFINE l == b \div T
           r == b % T
           g == r \div S
           k == r % S
<1>1. l \in Int /\ r \in 0 .. (T - 1) /\ b = T * l + r
  <2>1. T \in Nat \ {0} /\ b \in Int
    OBVIOUS
  <2>2. QED BY ONLY <2>1, DivOf
<1>2. g \in Int /\ k \in 0 .. (S - 1) /\ r = S * g + k
  <2>1. r \in Int
    BY <1>1
  <2> HIDE DEF r
  <2>2. QED BY ONLY <2>1, S \in Nat \ {0}, DivOf DEF g, k
<1> HIDE DEF l, r, g, k
<1>3. l \in 0 .. (n - 1)
  <2>1. T * l < T * n /\ T * (l + 1) > 0
    BY <1>1
  <2>2. QED BY <2>1, <1>1
<1>4. g \in 0 .. 3
  <2>1. S * g < S * 4 /\ S * (g + 1) > 0
    BY <1>1, <1>2
  <2>2. QED BY <2>1, <1>2
<1>5. b % S = k
  <2>1. b \in Int /\ b = l * T + (g * S + k)
    BY <1>1, <1>2
  <2>2. QED BY ONLY PlaceOf, <2>1, <1>2, <1>3, <1>4, S \in Nat \ {0}, T \in Nat, T = S * 4, n \in Nat DEF IsPlace
<1>6. QED BY <1>1, <1>2, <1>3, <1>4, <1>5 DEF l, r, g, k, HasPlace

-----------------------------------------------------------------------------
(* index_alpha() on numbers: the skewed distribution stays in the area.    *)
LEMMA RelativeInArea ==
    ASSUME NEW W \in Nat \ {0}, NEW area \in Nat \ {0}, NEW j \in 0 .. (W - 1)
    PROVE  area - 1 - ((area * ((j * j) \div W)) \div W) \in 0 .. (area - 1)
<1> DEFINE x == (j * j) \div W
<1>1. x \in 0 .. (W - 1)
  <2>1. j * j \in Nat /\ j * j < W * W
    OBVIOUS
  <2>2. x \in Int /\ W * x <= j * j /\ j * j < W * x + W
    BY ONLY <2>1, W \in Nat \ {0}, DivOf
  <2>3. W * x < W * W /\ W * (x + 1) > 0
    BY <2>1, <2>2
  <2>4. QED BY <2>2, <2>3
<1> HIDE DEF x
<1>2. area * x \in Nat /\ area * x < area * W
  BY <1>1
<1> DEFINE a == area * x
           y == a \div W
<1>3. y \in Int /\ W * y <= a /\ a < W * y + W
  <2>1. a \in Int
    BY <1>2
  <2> HIDE DEF a
  <2>2. QED BY ONLY <2>1, W \in Nat \ {0}, DivOf DEF y
<1> HIDE DEF y
<1>4. W * y < W * area /\ W * (y + 1) > 0
  BY <1>2, <1>3
<1>5. y \in 0 .. (area - 1)
  BY <1>3, <1>4
<1>6. area - 1 - y \in 0 .. (area - 1)
  BY <1>5
<1>7. QED BY <1>6 DEF x, y

(* The area in lane m of a block at index k of segment g of lane l.        *)
IsArea(S, T, pass, g, k, l, m, area) ==
    LET finished == IF pass = 0 THEN g * S ELSE T - S
    IN  area = IF m = l THEN finished + k - 1 ELSE IF k = 0 THEN finished - 1 ELSE finished

LEMMA AreaIsPositive ==
    ASSUME NEW S \in Nat, S >= 2, NEW T \in Nat, T = S * 4, NEW pass \in Nat, NEW g \in 0 .. 3, NEW k \in 0 .. (S - 1),
           NEW l \in Nat, NEW m \in Nat, pass = 0 /\ g = 0 => m = l /\ k >= 2,
           NEW area \in Int, IsArea(S, T, pass, g, k, l, m, area)
    PROVE  area \in Nat \ {0}
<1> USE DEF IsArea
<1>1. CASE g = 0
  BY <1>1
<1>2. CASE g = 1
  BY <1>2
<1>3. CASE g = 2
  BY <1>3
<1>4. CASE g = 3
  BY <1>4
<1>5. QED BY <1>1, <1>2, <1>3, <1>4

(* The place r in its lane that such a block, at c after p, refers to.     *)
IsReferred(S, T, pass, g, l, m, c, p, r) ==
    /\ r \in 0 .. (T - 1)
    /\ m = l => r # c /\ r # p
    /\ c = g * S => r # p
    /\ g * S <= r /\ r < g * S + S => m = l /\ r < c
    /\ pass = 0 => r < g * S \/ (m = l /\ r < c)

LEMMA Referred ==
    ASSUME NEW S \in Nat, S >= 2, NEW T \in Nat, T = S * 4, NEW pass \in Nat, NEW g \in 0 .. 3, NEW k \in 0 .. (S - 1),
           NEW l \in Nat, NEW m \in Nat, pass = 0 /\ g = 0 => m = l /\ k >= 2,
           NEW area \in Nat \ {0}, IsArea(S, T, pass, g, k, l, m, area), NEW rel \in 0 .. (area - 1),
           NEW start \in Int, start = (IF pass = 0 \/ g = 3 THEN 0 ELSE (g + 1) * S),
           NEW r \in Int, r = (IF start + rel < T THEN start + rel ELSE start + rel - T),
           NEW c \in Int, c = g * S + k,
           NEW p \in Int, p = (IF c = 0 THEN T - 1 ELSE c - 1)
    PROVE  IsReferred(S, T, pass, g, l, m, c, p, r)
<1> USE DEF IsArea, IsReferred
<1>1. CASE g = 0
  BY <1>1
<1>2. CASE g = 1
  BY <1>2
<1>3. CASE g = 2
  BY <1>3
<1>4. CASE g = 3
  BY <1>4
<1>5. QED BY <1>1, <1>2, <1>3, <1>4

-----------------------------------------------------------------------------
(* The memory of a call: what argon2_ctx() computes from its parameters.   *)
LEMMA Geometry ==
    ASSUME FillParameters, input \in Argon!Inputs
    PROVE  /\ input.lanes \in Nat \ {0} /\ input.t_cost \in Nat \ {0}
           /\ Argon!SegmentLength \in Nat /\ Argon!SegmentLength >= 2
           /\ Argon!LaneLength \in Nat /\ Argon!LaneLength = Argon!SegmentLength * 4
           /\ Argon!Blocks = 0 .. (input.lanes * Argon!LaneLength - 1)
<1>1. input.lanes \in Nat \ {0} /\ input.m_cost \in Nat /\ input.t_cost \in Nat \ {0}
  BY DEF FillParameters
<1> DEFINE n == input.lanes * Argon!SYNC_POINTS
<1>2. n \in Nat \ {0} /\ Argon!MemoryBlocks \in Nat /\ Argon!MemoryBlocks >= 2 * n
  BY <1>1 DEF Argon!MemoryBlocks, Argon!SYNC_POINTS
<1>3. Argon!SegmentLength \in Int /\ Argon!MemoryBlocks = n * Argon!SegmentLength + (Argon!MemoryBlocks % n) /\ Argon!MemoryBlocks % n \in 0 .. (n - 1)
  <2>1. Argon!SegmentLength = Argon!MemoryBlocks \div n
    BY DEF Argon!SegmentLength
  <2> HIDE DEF n
  <2>2. QED BY ONLY <1>2, <2>1, DivOf
<1> HIDE DEF n
<1>4. n * Argon!SegmentLength + n > 2 * n
  BY <1>2, <1>3
<1>5. Argon!SegmentLength >= 2
  <2>1. n * (Argon!SegmentLength - 1) > 0
    BY <1>2, <1>3, <1>4
  <2>2. QED BY <1>2, <1>3, <2>1
<1>6. QED BY <1>1, <1>3, <1>5 DEF Argon!LaneLength, Argon!Blocks, Argon!SYNC_POINTS

HasParts(b) ==
    /\ Argon!Lane(b) \in 0 .. (input.lanes - 1) /\ Argon!Segment(b) \in 0 .. 3
    /\ b % Argon!SegmentLength \in 0 .. (Argon!SegmentLength - 1)
    /\ b % Argon!LaneLength = Argon!Segment(b) * Argon!SegmentLength + (b % Argon!SegmentLength)
    /\ b = Argon!Lane(b) * Argon!LaneLength + (Argon!Segment(b) * Argon!SegmentLength + (b % Argon!SegmentLength))

LEMMA BlockParts ==
    ASSUME FillParameters, input \in Argon!Inputs, NEW b \in Argon!Blocks
    PROVE  HasParts(b)
<1>1. PICK S \in Nat \ {0}, T \in Nat, n \in Nat : S = Argon!SegmentLength /\ T = Argon!LaneLength /\ n = input.lanes
  BY Geometry
<1>2. T = S * 4 /\ Argon!Blocks = 0 .. (n * T - 1)
  BY <1>1, Geometry
<1>3. PICK c \in 0 .. (n * T - 1) : c = b
  BY <1>2
<1>4. HasPlace(S, T, n, c)
  BY <1>2, PartsOf
<1>5. Argon!Lane(b) = c \div T /\ Argon!Segment(b) = (c % T) \div S
  BY <1>1, <1>3 DEF Argon!Lane, Argon!Segment
<1>6. QED BY ONLY <1>1, <1>3, <1>4, <1>5 DEF HasPlace, HasParts

IsAt(l, g, k, b) ==
    /\ b \in Argon!Blocks /\ Argon!Lane(b) = l /\ Argon!Segment(b) = g
    /\ b % Argon!SegmentLength = k /\ b % Argon!LaneLength = g * Argon!SegmentLength + k

LEMMA BlockAt ==
    ASSUME FillParameters, input \in Argon!Inputs,
           NEW l \in 0 .. (input.lanes - 1), NEW g \in 0 .. 3, NEW k \in 0 .. (Argon!SegmentLength - 1),
           NEW b \in Int, b = l * Argon!LaneLength + (g * Argon!SegmentLength + k)
    PROVE  IsAt(l, g, k, b)
<1>1. PICK S \in Nat \ {0}, T \in Nat, n \in Nat : S = Argon!SegmentLength /\ T = Argon!LaneLength /\ n = input.lanes
  BY Geometry
<1>2. T = S * 4 /\ Argon!Blocks = 0 .. (n * T - 1)
  BY <1>1, Geometry
<1>3. l \in 0 .. (n - 1) /\ k \in 0 .. (S - 1) /\ b = l * T + (g * S + k)
  BY <1>1
<1>4. IsPlace(S, T, n, l, g, k, b)
  BY <1>2, <1>3, PlaceOf
<1>5. Argon!Lane(b) = b \div T /\ Argon!Segment(b) = (b % T) \div S
  BY <1>1 DEF Argon!Lane, Argon!Segment
<1>6. QED BY ONLY <1>1, <1>2, <1>4, <1>5 DEF IsPlace, IsAt

InLane(l, x, b) == b \in Argon!Blocks /\ Argon!Lane(b) = l /\ b % Argon!LaneLength = x

LEMMA BlockInLane ==
    ASSUME FillParameters, input \in Argon!Inputs,
           NEW l \in 0 .. (input.lanes - 1), NEW x \in 0 .. (Argon!LaneLength - 1), NEW b \in Int, b = l * Argon!LaneLength + x
    PROVE  InLane(l, x, b)
<1>1. PICK T \in Nat \ {0}, n \in Nat : T = Argon!LaneLength /\ n = input.lanes
  BY Geometry
<1>2. l \in 0 .. (n - 1) /\ x \in 0 .. (T - 1) /\ b = l * T + x
  BY <1>1
<1>3. l * T <= b /\ b < l * T + T /\ l \in Int /\ b \in Int
  BY <1>2
<1>4. b \div T = l /\ b % T = b - l * T
  BY ONLY <1>3, QuotientIs, T \in Nat \ {0}
<1>5. l * T >= 0 /\ l * T + T <= n * T
  <2>1. (n - l) * T >= T
    BY <1>2
  <2>2. QED BY <1>2, <2>1
<1>6. b \in 0 .. (n * T - 1)
  BY <1>2, <1>5
<1>7. QED BY <1>1, <1>2, <1>4, <1>6, Geometry DEF InLane, Argon!Lane

(* Nothing of this depends on how far the filling is.                      *)
LEMMA FillFixed ==
    ASSUME input' = input
    PROVE  /\ Argon!SegmentLength' = Argon!SegmentLength /\ Argon!LaneLength' = Argon!LaneLength /\ Argon!Blocks' = Argon!Blocks
           /\ \A b : /\ Argon!Lane(b)' = Argon!Lane(b) /\ Argon!Segment(b)' = Argon!Segment(b)
                     /\ (b % Argon!SegmentLength)' = b % Argon!SegmentLength /\ (b % Argon!LaneLength)' = b % Argon!LaneLength
BY DEF Argon!SegmentLength, Argon!LaneLength, Argon!MemoryBlocks, Argon!Blocks, Argon!Lane, Argon!Segment

LEMMA FillInit ==
    ASSUME FillParameters, Argon!Init
    PROVE  FillInv
<1> USE DEF Argon!Init, Argon!Start, Argon!NoBlock
<1>1. FillTypes
  <2>1. input \in Argon!Inputs /\ input.lanes \in Nat \ {0} /\ Argon!SegmentLength \in Nat
    BY Geometry
  <2>2. 0 \in 0 .. (input.lanes - 1) /\ 0 \in 0 .. Argon!SegmentLength /\ -1 \in Int
    BY <2>1
  <2>3. mem \in [Argon!Blocks -> Nat]
    BY DEF Argon!FirstBlocks
  <2> QED BY <2>1, <2>2, <2>3 DEF FillTypes
<1>2. FillPlaces
  BY Geometry DEF FillPlaces
<1>3. FillCounts
  <2> SUFFICES ASSUME NEW b \in Argon!Blocks
               PROVE  mem[b] = FillCount(b)
    BY DEF FillCounts
  <2>1. mem[b] = IF b % Argon!LaneLength < 2 THEN 1 ELSE 0
    BY DEF Argon!FirstBlocks
  <2>2. ~ Written(b)
    BY BlockParts DEF Written, HasParts
  <2>3. QED BY <2>1, <2>2 DEF FillCount
<1>4. Argon!ReadsFinishedBlocks
  BY DEF Argon!ReadsFinishedBlocks
<1>5. QED BY <1>1, <1>2, <1>3, <1>4 DEF FillInv

(* What is before the place that was reached is finished.                  *)
LEMMA Finished ==
    ASSUME FillParameters, FillInv, at.stage = "block", at.index <= Argon!SegmentLength, NEW b \in Argon!Blocks,
           at.pass = 0 => \/ b % Argon!LaneLength < at.slice * Argon!SegmentLength
                          \/ Argon!Lane(b) = at.lane /\ b % Argon!LaneLength < FillOffset
    PROVE  mem[b] \in Nat /\ mem[b] > 0
<1>1. mem[b] \in Nat /\ mem[b] = FillCount(b) /\ at.pass \in Nat /\ at.slice \in 0 .. 3 /\ at.index \in Nat
  BY Geometry DEF FillInv, FillTypes, FillCounts
<1>2. CASE at.pass # 0
  BY <1>1, <1>2 DEF FillCount
<1>3. CASE at.pass = 0
  <2> DEFINE S == Argon!SegmentLength
             g == at.slice
             q == Argon!Segment(b)
             m == b % Argon!SegmentLength
             k == at.index
  <2>1. /\ S \in Nat \ {0} /\ g \in 0 .. 3 /\ q \in 0 .. 3 /\ m \in 0 .. (S - 1) /\ k \in 0 .. S
        /\ b % Argon!LaneLength = q * S + m
        /\ q * S + m < g * S \/ (Argon!Lane(b) = at.lane /\ q * S + m < g * S + k)
    <3>1. input \in Argon!Inputs /\ at.index \in 0 .. Argon!SegmentLength
      BY DEF FillInv, FillTypes
    <3>2. HasParts(b)
      BY <3>1, BlockParts
    <3>3. /\ S \in Nat \ {0} /\ q \in 0 .. 3 /\ m \in 0 .. (S - 1)
          /\ b % Argon!LaneLength = q * S + m
      BY <3>1, <3>2, Geometry DEF HasParts
    <3>4. QED BY <1>1, <1>3, <3>1, <3>3 DEF FillOffset
  <2> HIDE DEF S, g, q, m, k
  <2>2. q < g \/ (q = g /\ Argon!Lane(b) = at.lane /\ m < k)
    <3>1. CASE q > g
      <4>1. q * S >= (g + 1) * S
        BY <2>1, <3>1
      <4>2. q * S >= g * S + S
        BY <2>1, <4>1
      <4>3. QED BY ONLY <2>1, <4>2
    <3>2. QED BY <2>1, <3>1
  <2>3. Written(b)
    BY <2>2 DEF Written, q, g, m, k
  <2>4. QED BY <1>1, <1>3, <2>3 DEF FillCount
<1>4. QED BY <1>2, <1>3

-----------------------------------------------------------------------------
(* Every step keeps the invariant.                                         *)
LEMMA FillBegins ==
    ASSUME FillParameters, FillInv, Argon!BeginSegment
    PROVE  FillInv'
<1> DEFINE S == Argon!SegmentLength
           T == Argon!LaneLength
           first == IF Argon!FirstSlice THEN 2 ELSE 0
           c == at.slice * S + first
           curr == at.lane * T + at.slice * S + first
<1>1. /\ input \in Argon!Inputs /\ S \in Nat /\ S >= 2 /\ T \in Nat /\ T = S * 4
      /\ at.pass \in Nat /\ at.slice \in 0 .. 3 /\ at.lane \in 0 .. (input.lanes - 1) /\ at.index = 0
      /\ at.stage = "segment" /\ at.pass < input.t_cost
  BY Geometry DEF FillInv, FillTypes, FillPlaces, Argon!BeginSegment
<1>2. /\ input' = input /\ mem' = mem
      /\ at' = [at EXCEPT !.stage = "block", !.index = first, !.curr = curr,
                          !.prev = IF curr % T = 0 THEN curr + T - 1 ELSE curr - 1]
  BY DEF Argon!BeginSegment
<1>3. Argon!SegmentLength' = S /\ Argon!LaneLength' = T /\ Argon!Blocks' = Argon!Blocks
  BY <1>2, FillFixed
<1>4. /\ at'.stage = "block" /\ at'.index = first /\ at'.curr = curr
      /\ at'.prev = (IF curr % T = 0 THEN curr + T - 1 ELSE curr - 1)
      /\ at'.pass = at.pass /\ at'.slice = at.slice /\ at'.lane = at.lane
      /\ at'.wrote = Argon!NoBlock /\ at'.read = at.read
  BY <1>1, <1>2 DEF FillInv, FillTypes, FillPlaces
<1>5. first \in 0 .. 2 /\ curr \in Int /\ c \in 0 .. (T - 1) /\ curr = at.lane * T + c
  <2>1. at.slice = 0 \/ at.slice = 1 \/ at.slice = 2 \/ at.slice = 3
    BY <1>1
  <2>2. first \in 0 .. 2 /\ (first = 0 \/ at.slice = 0)
    BY DEF Argon!FirstSlice
  <2> HIDE DEF first, S, T
  <2>3. QED BY <1>1, <2>1, <2>2
<1>6. FillTypes'
  <2> DEFINE prev == IF curr % T = 0 THEN curr + T - 1 ELSE curr - 1
  <2>1. prev \in Int /\ first \in 0 .. S
    BY <1>1, <1>5
  <2>2. at' = [at EXCEPT !.stage = "block", !.index = first, !.curr = curr, !.prev = prev]
    BY <1>2
  <2>3. curr \in Int
    BY <1>5
  <2>4. /\ at \in [stage : {"segment", "block", "finalize", "done"}, pass : Nat, slice : 0 .. 3,
                   lane : 0 .. (input.lanes - 1), index : 0 .. S, curr : Int, prev : Int,
                   read : {Argon!NoBlock} \cup (Int \X Int), wrote : Int]
        /\ input \in Argon!Inputs /\ mem \in [Argon!Blocks -> Nat]
    BY DEF FillInv, FillTypes
  <2> HIDE DEF first, curr, prev, S
  <2>5. at' \in [stage : {"segment", "block", "finalize", "done"}, pass : Nat, slice : 0 .. 3,
                  lane : 0 .. (input.lanes - 1), index : 0 .. S, curr : Int, prev : Int,
                  read : {Argon!NoBlock} \cup (Int \X Int), wrote : Int]
    BY ONLY <2>1, <2>2, <2>3, <2>4
  <2>6. QED BY <1>2, <1>3, <2>4, <2>5 DEF FillTypes
<1>7. FillPlaces'
  <2>1. curr % T = c
    <3>1. InLane(at.lane, c, curr)
      <4> HIDE DEF c, curr
      <4>1. QED BY <1>1, <1>5, BlockInLane
    <3>2. QED BY <3>1 DEF InLane
  <2>2. at'.prev = IF c = 0 THEN curr + T - 1 ELSE curr - 1
    BY <1>4, <2>1
  <2>3. Argon!FirstSlice' = Argon!FirstSlice /\ FillOffset' = c
    BY <1>3, <1>4 DEF Argon!FirstSlice, FillOffset
  <2>4. QED BY <1>1, <1>2, <1>3, <1>4, <1>5, <2>2, <2>3 DEF FillPlaces
<1>8. FillCounts'
  <2> SUFFICES ASSUME NEW b \in Argon!Blocks
               PROVE  mem[b] = FillCount(b)'
    BY <1>2, <1>3 DEF FillCounts
  <2>1. mem[b] = FillCount(b)
    BY DEF FillInv, FillCounts
  <2>2. HasParts(b)
    BY <1>1, BlockParts
  <2>3. Argon!Lane(b)' = Argon!Lane(b) /\ Argon!Segment(b)' = Argon!Segment(b) /\ (b % Argon!SegmentLength)' = b % S /\ (b % Argon!LaneLength)' = b % T
    BY <1>2, FillFixed
  <2>4. CASE Argon!FirstSlice /\ b % T < 2
    BY <1>1, <1>4, <2>1, <2>3, <2>4 DEF FillCount, Argon!FirstSlice
  <2>5. CASE ~ (Argon!FirstSlice /\ b % T < 2)
    <3>1. Written(b)' <=> Written(b)
      <4>1. CASE Argon!FirstSlice
        <5>1. Argon!Segment(b) = 0 => b % S = b % T
          BY <1>1, <2>2 DEF HasParts
        <5>2. Argon!Segment(b) = 0 => b % S \in Nat /\ ~ (b % S < 2)
          BY <1>1, <2>2, <2>5, <4>1, <5>1 DEF HasParts
        <5>3. QED BY <1>1, <1>4, <2>3, <4>1, <5>2 DEF Written, Argon!FirstSlice
      <4>2. CASE ~ Argon!FirstSlice
        BY <1>1, <1>4, <2>3, <4>2 DEF Written
      <4>3. QED BY <4>1, <4>2
    <3>2. QED BY <1>4, <2>1, <2>3, <3>1 DEF FillCount
  <2>6. QED BY <2>4, <2>5
<1>9. Argon!ReadsFinishedBlocks'
  BY <1>4 DEF Argon!ReadsFinishedBlocks, Argon!NoBlock
<1>10. QED BY <1>6, <1>7, <1>8, <1>9 DEF FillInv

LEMMA FillFinishes ==
    ASSUME FillParameters, FillInv, Argon!Finalize
    PROVE  FillInv'
<1>1. /\ input' = input /\ mem' = mem /\ at' = [at EXCEPT !.stage = "done"] /\ at.stage = "finalize"
  BY DEF Argon!Finalize
<1>2. Argon!SegmentLength' = Argon!SegmentLength /\ Argon!LaneLength' = Argon!LaneLength /\ Argon!Blocks' = Argon!Blocks
  BY <1>1, FillFixed
<1>3. FillTypes'
  BY <1>1, <1>2 DEF FillInv, FillTypes
<1>4. /\ at'.stage = "done" /\ at'.index = at.index /\ at'.pass = at.pass /\ at'.slice = at.slice
      /\ at'.lane = at.lane /\ at'.wrote = at.wrote /\ at'.read = at.read
  BY <1>1 DEF FillInv, FillTypes
<1>5. FillPlaces'
  BY <1>1, <1>4 DEF FillInv, FillPlaces
<1>6. FillCounts'
  <2> SUFFICES ASSUME NEW b \in Argon!Blocks
               PROVE  mem[b] = FillCount(b)'
    BY <1>1, <1>2 DEF FillCounts
  <2>1. Argon!Lane(b)' = Argon!Lane(b) /\ Argon!Segment(b)' = Argon!Segment(b)
        /\ (b % Argon!SegmentLength)' = b % Argon!SegmentLength /\ (b % Argon!LaneLength)' = b % Argon!LaneLength
    BY <1>1, FillFixed
  <2>2. Written(b)' <=> Written(b)
    BY <1>4, <2>1 DEF Written
  <2>3. QED BY <1>4, <2>1, <2>2 DEF FillInv, FillCounts, FillCount
<1>7. Argon!ReadsFinishedBlocks'
  <2>1. at'.wrote = Argon!NoBlock
    BY <1>1, <1>4 DEF FillInv, FillPlaces
  <2>2. QED BY <2>1 DEF Argon!ReadsFinishedBlocks, Argon!NoBlock
<1>8. QED BY <1>3, <1>5, <1>6, <1>7 DEF FillInv

LEMMA FillEndsSegment ==
    ASSUME FillParameters, FillInv, Argon!EndSegment
    PROVE  FillInv'
<1> DEFINE S == Argon!SegmentLength
           n == input.lanes
           lane == (at.lane + 1) % n
           slice == IF lane = 0 THEN (at.slice + 1) % Argon!SYNC_POINTS ELSE at.slice
           pass == IF lane = 0 /\ slice = 0 THEN at.pass + 1 ELSE at.pass
           stage == IF pass < input.t_cost THEN "segment" ELSE "finalize"
<1>1. /\ input \in Argon!Inputs /\ S \in Nat /\ S >= 2 /\ n \in Nat \ {0} /\ input.t_cost \in Nat
      /\ at.pass \in Nat /\ at.slice \in 0 .. 3 /\ at.lane \in 0 .. (n - 1) /\ at.index = S
      /\ at.stage = "block" /\ at.pass < input.t_cost
  <2>1. /\ input \in Argon!Inputs /\ at.pass \in Nat /\ at.slice \in 0 .. 3 /\ at.lane \in 0 .. (n - 1)
        /\ at.index \in 0 .. S
    BY DEF FillInv, FillTypes
  <2>2. at.stage = "block" /\ at.index >= S
    BY DEF Argon!EndSegment
  <2>3. at.pass < input.t_cost
    BY <2>2 DEF FillInv, FillPlaces
  <2>4. S \in Nat /\ S >= 2 /\ n \in Nat \ {0} /\ input.t_cost \in Nat
    BY <2>1, Geometry
  <2> HIDE DEF S, n
  <2> QED BY <2>1, <2>2, <2>3, <2>4
<1>2. /\ input' = input /\ mem' = mem
      /\ at' = [Argon!Start EXCEPT !.stage = stage, !.pass = pass, !.slice = slice, !.lane = lane]
  BY DEF Argon!EndSegment
<1>3. Argon!SegmentLength' = S /\ Argon!LaneLength' = Argon!LaneLength /\ Argon!Blocks' = Argon!Blocks
  BY <1>2, FillFixed
<1>4. lane = IF at.lane = n - 1 THEN 0 ELSE at.lane + 1
  <2>1. CASE at.lane = n - 1
    BY <1>1, <2>1
  <2>2. CASE at.lane # n - 1
    BY <1>1, <2>2
  <2>3. QED BY <2>1, <2>2
<1>5. slice = IF at.lane # n - 1 THEN at.slice ELSE IF at.slice = 3 THEN 0 ELSE at.slice + 1
  BY <1>1, <1>4 DEF Argon!SYNC_POINTS
<1>6. pass = IF at.lane = n - 1 /\ at.slice = 3 THEN at.pass + 1 ELSE at.pass
  BY <1>1, <1>4, <1>5
<1>7. lane \in 0 .. (n - 1) /\ slice \in 0 .. 3 /\ pass \in Nat /\ pass <= input.t_cost
  <2> HIDE DEF lane, slice, pass, n
  <2>1. QED BY <1>1, <1>4, <1>5, <1>6
<1>8. /\ at'.stage = stage /\ at'.pass = pass /\ at'.slice = slice /\ at'.lane = lane
      /\ at'.index = 0 /\ at'.wrote = Argon!NoBlock
  <2> HIDE DEF lane, slice, pass, stage
  <2>1. QED BY <1>2 DEF Argon!Start
<1>9. FillTypes'
  <2>1. stage \in {"segment", "finalize"}
    OBVIOUS
  <2> HIDE DEF lane, slice, pass, stage
  <2>2. at' = [stage |-> stage, pass |-> pass, slice |-> slice, lane |-> lane, index |-> 0,
               curr |-> 0, prev |-> 0, read |-> Argon!NoBlock, wrote |-> Argon!NoBlock]
    BY <1>2 DEF Argon!Start
  <2>3. 0 \in 0 .. S /\ Argon!NoBlock \in Int
    BY <1>1 DEF Argon!NoBlock
  <2>4. at' \in [stage : {"segment", "block", "finalize", "done"}, pass : Nat, slice : 0 .. 3,
                 lane : 0 .. (n - 1), index : 0 .. S, curr : Int, prev : Int,
                 read : {Argon!NoBlock} \cup (Int \X Int), wrote : Int]
    <3> HIDE DEF n, S
    <3>1. QED BY <1>7, <2>1, <2>2, <2>3
  <2>5. QED BY <1>1, <1>2, <1>3, <2>4 DEF FillInv, FillTypes
<1>10. FillPlaces'
  <2>1. stage = "segment" => pass < input.t_cost
    OBVIOUS
  <2>2. stage = "finalize" => pass = input.t_cost /\ slice = 0 /\ lane = 0
    <3>1. stage = "finalize" => ~ (pass < input.t_cost)
      OBVIOUS
    <3> HIDE DEF lane, slice, pass, stage, n
    <3>2. QED BY <1>1, <1>4, <1>5, <1>6, <1>7, <3>1
  <2>3. stage \in {"segment", "finalize"}
    OBVIOUS
  <2> HIDE DEF lane, slice, pass, stage
  <2>4. QED BY <1>2, <1>8, <2>1, <2>2, <2>3 DEF FillPlaces
<1>11. FillCounts'
  <2> SUFFICES ASSUME NEW b \in Argon!Blocks
               PROVE  mem[b] = FillCount(b)'
    BY <1>2, <1>3 DEF FillCounts
  <2>1. mem[b] = FillCount(b)
    BY DEF FillInv, FillCounts
  <2>2. HasParts(b)
    BY <1>1, BlockParts
  <2>3. Argon!Lane(b)' = Argon!Lane(b) /\ Argon!Segment(b)' = Argon!Segment(b) /\ (b % Argon!SegmentLength)' = b % S /\ (b % Argon!LaneLength)' = b % Argon!LaneLength
    BY <1>2, FillFixed
  <2>4. Argon!Lane(b) \in 0 .. (n - 1) /\ Argon!Segment(b) \in 0 .. 3 /\ b % S \in 0 .. (S - 1)
    BY <2>2 DEF HasParts
  <2> HIDE DEF lane, slice, pass, stage, n, S
  <2>5. CASE at.lane = n - 1 /\ at.slice = 3
    <3>1. Written(b)
      BY <1>1, <2>4, <2>5 DEF Written, S
    <3>2. ~ Written(b)' /\ pass = at.pass + 1
      BY <1>1, <1>4, <1>5, <1>6, <1>8, <2>3, <2>4, <2>5 DEF Written, S
    <3>3. QED BY <1>1, <1>8, <2>1, <2>3, <3>1, <3>2 DEF FillCount
  <2>6. CASE ~ (at.lane = n - 1 /\ at.slice = 3)
    <3>1. Written(b)' <=> Written(b)
      BY <1>1, <1>4, <1>5, <1>8, <2>3, <2>4, <2>6 DEF Written, S
    <3>2. QED BY <1>6, <1>8, <2>1, <2>3, <2>6, <3>1 DEF FillCount
  <2>7. QED BY <2>5, <2>6
<1>12. Argon!ReadsFinishedBlocks'
  BY <1>8 DEF Argon!ReadsFinishedBlocks, Argon!NoBlock
<1>13. QED BY <1>9, <1>10, <1>11, <1>12 DEF FillInv

(* The blocks a new one is made from are where they should be, and         *)
(* finished.                                                               *)
LEMMA Reads ==
    ASSUME FillParameters, FillInv, at.stage = "block", at.index < Argon!SegmentLength,
           NEW j1 \in 0 .. (Argon2WordMod - 1), NEW j2 \in 0 .. (input.lanes - 1)
    PROVE  /\ IsAt(at.lane, at.slice, at.index, at.curr)
           /\ Argon!PrevOffset \in Argon!Blocks /\ mem[Argon!PrevOffset] > 0
           /\ Argon!PrevOffset = (at.lane * Argon!LaneLength) + ((at.curr - 1) % Argon!LaneLength)
           /\ FillOffset # 0 => Argon!PrevOffset = at.curr - 1
           /\ LET ref == Argon!RefBlock(j1, j2)
              IN  /\ ref \in Argon!Blocks /\ mem[ref] > 0 /\ ref \notin {at.curr, Argon!PrevOffset}
                  /\ at.index = 0 => ref % Argon!LaneLength # Argon!PrevOffset % Argon!LaneLength
                  /\ Argon!Segment(ref) = at.slice => Argon!Lane(ref) = at.lane /\ ref < at.curr
<1>1. PICK S \in Nat, T \in Nat, n \in Nat, pass \in Nat, l \in Nat, g \in 0 .. 3, k \in Nat, cur \in Int :
         /\ S = Argon!SegmentLength /\ T = Argon!LaneLength /\ n = input.lanes
         /\ pass = at.pass /\ l = at.lane /\ g = at.slice /\ k = at.index /\ cur = at.curr
  <2>1. Argon!SegmentLength \in Nat /\ Argon!LaneLength \in Nat /\ input.lanes \in Nat
    BY Geometry DEF FillInv, FillTypes
  <2>2. /\ at.pass \in Nat /\ at.slice \in 0 .. 3 /\ at.curr \in Int
        /\ at.lane \in 0 .. (input.lanes - 1) /\ at.index \in 0 .. Argon!SegmentLength
    BY DEF FillInv, FillTypes
  <2>3. at.lane \in Nat /\ at.index \in Nat
    BY <2>1, <2>2
  <2>4. QED BY <2>1, <2>2, <2>3, Zenon
<1>2. /\ S >= 2 /\ T = S * 4 /\ l \in 0 .. (n - 1) /\ k \in 0 .. (S - 1)
      /\ cur = l * T + (g * S + k) /\ (pass = 0 /\ g = 0 => k >= 2)
  BY <1>1, Geometry DEF FillInv, FillTypes, FillPlaces, Argon!FirstSlice, FillOffset
<1>3. input \in Argon!Inputs /\ Argon!Blocks \subseteq Int
  BY Geometry DEF FillInv, FillTypes
<1>4. PICK c \in Int : c = g * S + k
  BY <1>2
<1>5. c \in 0 .. (T - 1) /\ c = FillOffset
  <2>1. g = 0 \/ g = 1 \/ g = 2 \/ g = 3
    OBVIOUS
  <2>2. QED BY <1>1, <1>2, <1>4, <2>1 DEF FillOffset
<1>6. PICK p \in Int : p = IF c = 0 THEN T - 1 ELSE c - 1
  BY <1>2, <1>4
<1>7. p \in 0 .. (T - 1)
  BY <1>2, <1>4, <1>5, <1>6
<1>8. IsAt(l, g, k, cur)
  BY <1>1, <1>2, <1>3, BlockAt
<1>9. InLane(l, p, l * T + p)
  BY <1>1, <1>2, <1>3, <1>7, BlockInLane
<1>10. Argon!PrevOffset = l * T + p
  <2>1. at.curr % Argon!LaneLength = c
    BY <1>1, <1>4, <1>8 DEF IsAt
  <2>2. c # 1 => at.prev = IF c = 0 THEN cur + T - 1 ELSE cur - 1
    BY <1>1, <1>2, <1>5 DEF FillInv, FillPlaces
  <2>3. QED BY <1>1, <1>2, <1>4, <1>6, <2>1, <2>2 DEF Argon!PrevOffset
<1>11. (cur - 1) % T = p
  <2>1. PICK q \in Int : q = IF c = 0 THEN l - 1 ELSE l
    BY <1>2
  <2>2. cur - 1 = q * T + p
    <3>1. CASE c = 0
      BY <1>2, <1>4, <1>6, <2>1, <3>1
    <3>2. CASE c # 0
      BY <1>2, <1>4, <1>6, <2>1, <3>2
    <3>3. QED BY <3>1, <3>2
  <2>3. PICK b \in Int : b = cur - 1
    OBVIOUS
  <2>4. q * T <= b /\ b < q * T + T /\ T \in Nat \ {0}
    BY <1>2, <1>7, <2>2, <2>3
  <2>5. b % T = b - q * T
    BY ONLY <2>1, <2>3, <2>4, QuotientIs
  <2>6. QED BY <1>7, <2>2, <2>3, <2>5
<1>12. mem[Argon!PrevOffset] > 0
  <2>1. pass = 0 => p < c
    BY <1>2, <1>4, <1>6
  <2>2. QED BY <1>1, <1>2, <1>5, <1>9, <1>10, <2>1, Finished DEF InLane
<1>13. PICK m \in Nat : m = Argon!RefLane(j2) /\ m \in 0 .. (n - 1)
  <2>1. Argon!RefLane(j2) \in 0 .. (n - 1)
    <3>1. j2 \in 0 .. (n - 1) /\ n \in Nat \ {0}
      BY <1>1, <1>2
    <3>2. j2 % n = j2
      BY <3>1
    <3>3. QED BY <1>1, <1>2, <3>1, <3>2 DEF Argon!RefLane
  <2>2. QED BY <2>1
<1>14. pass = 0 /\ g = 0 => m = l /\ k >= 2
  BY <1>1, <1>2, <1>13 DEF Argon!RefLane, Argon!FirstSlice
<1>15. PICK area \in Nat \ {0} : area = Argon!AreaSize(m = l) /\ IsArea(S, T, pass, g, k, l, m, area)
  <2>1. Argon!AreaSize(m = l) \in Int
    BY <1>1, <1>2 DEF Argon!AreaSize
  <2>2. PICK a \in Int : a = Argon!AreaSize(m = l)
    BY <2>1
  <2>3. IsArea(S, T, pass, g, k, l, m, a)
    BY <1>1, <2>2 DEF IsArea, Argon!AreaSize
  <2>4. a \in Nat \ {0}
    BY ONLY <1>2, <1>13, <1>14, <2>3, AreaIsPositive
  <2>5. QED BY <2>2, <2>3, <2>4
<1>16. PICK rel \in 0 .. (area - 1) : rel = Argon!Relative(j1, area)
  <2>1. Argon2WordMod \in Nat \ {0}
    BY DEF FillParameters
  <2>2. QED BY <2>1, RelativeInArea DEF Argon!Relative
<1>17. PICK start \in Int : start = Argon!StartPosition /\ start = (IF pass = 0 \/ g = 3 THEN 0 ELSE (g + 1) * S)
  BY <1>1, <1>2 DEF Argon!StartPosition, Argon!SYNC_POINTS
<1>18. PICK r \in Int : r = Argon!RefIndex(j1, m = l) /\ r = (IF start + rel < T THEN start + rel ELSE start + rel - T)
  BY <1>1, <1>15, <1>16, <1>17 DEF Argon!RefIndex
<1>19. IsReferred(S, T, pass, g, l, m, c, p, r)
  <2>1. IsArea(S, T, pass, g, k, l, m, area)
    BY <1>15
  <2>2. start = (IF pass = 0 \/ g = 3 THEN 0 ELSE (g + 1) * S)
    BY <1>17
  <2>3. r = (IF start + rel < T THEN start + rel ELSE start + rel - T)
    BY <1>18
  <2>4. QED BY ONLY <1>2, <1>4, <1>6, <1>14, <2>1, <2>2, <2>3, Referred
<1>20. Argon!RefBlock(j1, j2) = m * T + r
  BY <1>1, <1>2, <1>13, <1>18 DEF Argon!RefBlock
<1>21. InLane(m, r, m * T + r)
  <2>1. r \in 0 .. (T - 1)
    BY <1>19 DEF IsReferred
  <2>2. QED BY <1>1, <1>2, <1>3, <1>13, <2>1, BlockInLane
<1>22. PICK ref \in Int : ref = Argon!RefBlock(j1, j2) /\ ref = m * T + r
  BY <1>3, <1>20, <1>21 DEF InLane
<1>23. mem[ref] > 0
  <2>1. pass = 0 => r < g * S \/ (m = l /\ r < c)
    BY <1>13, <1>19 DEF IsReferred
  <2>2. QED BY <1>1, <1>2, <1>5, <1>21, <1>22, <2>1, Finished DEF InLane
<1>24. ref # cur /\ ref # Argon!PrevOffset
  BY <1>2, <1>4, <1>7, <1>8, <1>9, <1>10, <1>13, <1>19, <1>21, <1>22 DEF InLane, IsAt, IsReferred
<1>25. k = 0 => ref % T # Argon!PrevOffset % T
  BY <1>1, <1>2, <1>4, <1>9, <1>10, <1>19, <1>21, <1>22 DEF InLane, IsReferred
<1>26. Argon!Segment(ref) = g => Argon!Lane(ref) = l /\ ref < cur
  <2> SUFFICES ASSUME Argon!Segment(ref) = g
               PROVE  Argon!Lane(ref) = l /\ ref < cur
    OBVIOUS
  <2>1. HasParts(ref) /\ ref % T = r /\ Argon!Lane(ref) = m
    BY <1>1, <1>3, <1>21, <1>22, BlockParts DEF InLane
  <2>2. PICK d \in 0 .. (S - 1) : r = g * S + d
    BY <1>1, <2>1 DEF HasParts
  <2>3. g * S <= r /\ r < g * S + S
    BY <1>2, <2>2
  <2>4. m = l /\ r < c
    BY <1>13, <1>19, <2>3 DEF IsReferred
  <2>5. QED BY <1>2, <1>4, <1>22, <2>1, <2>4
<1>27. QED
  <2>1. FillOffset # 0 => Argon!PrevOffset = at.curr - 1
    BY <1>1, <1>2, <1>4, <1>5, <1>6, <1>10
  <2>2. Argon!PrevOffset \in Argon!Blocks /\ ref \in Argon!Blocks
    BY <1>9, <1>10, <1>21, <1>22 DEF InLane
  <2>3. QED BY <1>1, <1>8, <1>10, <1>11, <1>12, <1>22, <1>23, <1>24, <1>25, <1>26, <2>1, <2>2

LEMMA FillFills ==
    ASSUME FillParameters, FillInv, NEW j1 \in 0 .. (Argon2WordMod - 1), NEW j2 \in 0 .. (input.lanes - 1), Argon!FillBlock(j1, j2)
    PROVE  FillInv'
<1>1. /\ input \in Argon!Inputs /\ Argon!SegmentLength \in Nat /\ Argon!SegmentLength >= 2 /\ Argon!LaneLength \in Nat
      /\ Argon!LaneLength = Argon!SegmentLength * 4 /\ Argon!Blocks \subseteq Int
      /\ at.pass \in Nat /\ at.slice \in 0 .. 3 /\ at.lane \in 0 .. (input.lanes - 1) /\ at.index \in Nat
      /\ at.stage = "block" /\ at.index < Argon!SegmentLength /\ at.pass < input.t_cost
      /\ at.curr \in Int /\ (Argon!FirstSlice => at.index >= 2) /\ at.curr = at.lane * Argon!LaneLength + FillOffset
  <2>1. at.stage = "block" /\ at.index < Argon!SegmentLength
    BY DEF Argon!FillBlock
  <2>2. /\ input \in Argon!Inputs /\ at.pass \in Nat /\ at.slice \in 0 .. 3 /\ at.lane \in 0 .. (input.lanes - 1)
        /\ at.index \in 0 .. Argon!SegmentLength /\ at.curr \in Int
    BY DEF FillInv, FillTypes
  <2>3. at.pass < input.t_cost /\ (Argon!FirstSlice => at.index >= 2) /\ at.curr = at.lane * Argon!LaneLength + FillOffset
    BY <2>1 DEF FillInv, FillPlaces
  <2>4. /\ Argon!SegmentLength \in Nat /\ Argon!SegmentLength >= 2 /\ Argon!LaneLength \in Nat
        /\ Argon!LaneLength = Argon!SegmentLength * 4 /\ Argon!Blocks \subseteq Int
    BY <2>2, Geometry
  <2>5. at.index \in Nat
    BY <2>2, <2>4
  <2>6. QED BY ONLY <2>1, <2>2, <2>3, <2>4, <2>5
<1>2. PICK cur \in Argon!Blocks, prev \in Argon!Blocks, ref \in Argon!Blocks :
         cur = at.curr /\ prev = Argon!PrevOffset /\ ref = Argon!RefBlock(j1, j2)
  BY <1>1, Reads DEF IsAt
<1>3. Argon!SegmentLength' = Argon!SegmentLength /\ Argon!LaneLength' = Argon!LaneLength /\ Argon!Blocks' = Argon!Blocks
      /\ \A b : /\ Argon!Lane(b)' = Argon!Lane(b) /\ Argon!Segment(b)' = Argon!Segment(b)
                /\ (b % Argon!SegmentLength)' = b % Argon!SegmentLength /\ (b % Argon!LaneLength)' = b % Argon!LaneLength
  BY FillFixed DEF Argon!FillBlock
<1>4. /\ IsAt(at.lane, at.slice, at.index, cur)
      /\ mem[prev] > 0
      /\ prev = (at.lane * Argon!LaneLength) + ((cur - 1) % Argon!LaneLength)
      /\ FillOffset # 0 => prev = cur - 1
      /\ mem[ref] > 0 /\ ref \notin {cur, prev}
      /\ at.index = 0 => ref % Argon!LaneLength # prev % Argon!LaneLength
      /\ Argon!Segment(ref) = at.slice => Argon!Lane(ref) = at.lane /\ ref < cur
  BY <1>1, <1>2, Reads
<1>5. /\ input' = input /\ mem \in [Argon!Blocks -> Nat] /\ mem' = [mem EXCEPT ![cur] = @ + 1]
      /\ at' = [at EXCEPT !.index = at.index + 1, !.curr = cur + 1, !.prev = prev + 1,
                          !.read = <<prev, ref>>, !.wrote = cur]
  BY <1>2 DEF Argon!FillBlock, FillInv, FillTypes
<1>6. /\ at'.stage = "block" /\ at'.index = at.index + 1 /\ at'.curr = cur + 1 /\ at'.prev = prev + 1
      /\ at'.read = <<prev, ref>> /\ at'.wrote = cur
      /\ at'.pass = at.pass /\ at'.slice = at.slice /\ at'.lane = at.lane
  BY <1>1, <1>5 DEF FillInv, FillTypes
<1>7. FillTypes'
  <2>1. prev \in Int /\ ref \in Int /\ cur \in Int /\ prev + 1 \in Int /\ cur + 1 \in Int
    BY <1>1
  <2>2. mem' \in [Argon!Blocks -> Nat]
    BY <1>5
  <2>3. at.index + 1 \in 0 .. Argon!SegmentLength
    BY <1>1
  <2>4. at' \in [stage : {"segment", "block", "finalize", "done"}, pass : Nat, slice : 0 .. 3,
                 lane : 0 .. (input.lanes - 1), index : 0 .. Argon!SegmentLength, curr : Int, prev : Int,
                 read : {Argon!NoBlock} \cup (Int \X Int), wrote : Int]
    <3>1. <<prev, ref>> \in {Argon!NoBlock} \cup (Int \X Int)
      BY <2>1
    <3>2. QED BY <1>5, <2>1, <2>3, <3>1 DEF FillInv, FillTypes
  <2>5. QED BY <1>1, <1>3, <1>5, <2>2, <2>4 DEF FillTypes
<1>8. FillPlaces'
  <2>1. at.slice * Argon!SegmentLength \in Nat /\ FillOffset = at.slice * Argon!SegmentLength + at.index
    BY <1>1 DEF FillOffset
  <2>2. FillOffset' = FillOffset + 1 /\ FillOffset \in Nat /\ (Argon!FirstSlice' <=> Argon!FirstSlice)
    BY <1>1, <1>3, <1>6, <2>1 DEF FillOffset, Argon!FirstSlice
  <2>3. FillOffset' # 1 => at'.prev = at'.curr - 1
    BY <1>1, <1>2, <1>4, <1>6, <2>2
  <2>4. at'.curr = at'.lane * Argon!LaneLength' + FillOffset'
    <3>1. at.lane * Argon!LaneLength \in Int
      BY <1>1
    <3>2. QED BY <1>1, <1>2, <1>3, <1>6, <2>2, <3>1
  <2>5. at'.index >= 2 \/ ~ Argon!FirstSlice'
    BY <1>1, <1>6, <2>2
  <2>6. FillOffset' # 0
    BY <2>2
  <2>7. QED BY <1>1, <1>3, <1>5, <1>6, <2>3, <2>4, <2>5, <2>6 DEF FillPlaces
<1>9. FillCounts'
  <2> SUFFICES ASSUME NEW b \in Argon!Blocks
               PROVE  mem'[b] = FillCount(b)'
    BY <1>3 DEF FillCounts
  <2>1. mem[b] = FillCount(b)
    BY DEF FillInv, FillCounts
  <2>2. CASE b = cur
    <3>1. /\ Argon!Lane(b) = at.lane /\ Argon!Segment(b) = at.slice /\ b % Argon!SegmentLength = at.index
          /\ b % Argon!LaneLength = at.slice * Argon!SegmentLength + at.index
      BY <1>4, <2>2 DEF IsAt
    <3>2. ~ (at.pass = 0 /\ b % Argon!LaneLength < 2)
      <4>1. at.slice # 0 => at.slice * Argon!SegmentLength >= 2
        BY <1>1
      <4>2. QED BY <1>1, <3>1, <4>1 DEF Argon!FirstSlice
    <3>3. ~ Written(b) /\ Written(b)'
      BY <1>1, <1>3, <1>6, <3>1 DEF Written
    <3>4. mem'[b] = mem[b] + 1
      BY <1>5, <2>2
    <3>5. QED BY <1>3, <1>6, <2>1, <3>2, <3>3, <3>4 DEF FillCount
  <2>3. CASE b # cur
    <3>1. HasParts(b) /\ HasParts(cur)
      BY <1>1, <1>5, BlockParts
    <3>2. ~ (Argon!Lane(b) = at.lane /\ Argon!Segment(b) = at.slice /\ b % Argon!SegmentLength = at.index)
      BY <1>4, <2>3, <3>1 DEF HasParts, IsAt
    <3>3. Written(b)' <=> Written(b)
      <4>1. b % Argon!SegmentLength \in 0 .. (Argon!SegmentLength - 1)
        BY <3>1 DEF HasParts
      <4>2. QED BY <1>1, <1>3, <1>6, <3>2, <4>1 DEF Written
    <3>4. mem'[b] = mem[b]
      BY <1>5, <2>3
    <3>5. QED BY <1>3, <1>6, <2>1, <3>3, <3>4 DEF FillCount
  <2>4. QED BY <2>2, <2>3
<1>10. Argon!ReadsFinishedBlocks'
  <2>1. mem'[prev] > 0 /\ mem'[ref] > 0
    BY <1>1, <1>4, <1>5
  <2>2. at'.read[1] = prev /\ at'.read[2] = ref
    BY <1>6
  <2>3. /\ Argon!Lane(cur) = at.lane /\ Argon!Segment(cur) = at.slice /\ cur % Argon!SegmentLength = at.index
    BY <1>4 DEF IsAt
  <2>4. ((cur - 1) % Argon!LaneLength)' = (cur - 1) % Argon!LaneLength
    BY <1>3
  <2>5. QED BY <1>3, <1>4, <1>6, <2>1, <2>2, <2>3, <2>4 DEF Argon!ReadsFinishedBlocks
<1>11. QED BY <1>7, <1>8, <1>9, <1>10 DEF FillInv

LEMMA FillStutters == ASSUME FillInv, UNCHANGED Argon!vars PROVE FillInv'
<1>1. input' = input /\ at' = at /\ mem' = mem
  BY DEF Argon!vars
<1>2. /\ Argon!SegmentLength' = Argon!SegmentLength /\ Argon!LaneLength' = Argon!LaneLength /\ Argon!Blocks' = Argon!Blocks
      /\ \A b : /\ Argon!Lane(b)' = Argon!Lane(b) /\ Argon!Segment(b)' = Argon!Segment(b)
                /\ (b % Argon!SegmentLength)' = b % Argon!SegmentLength /\ (b % Argon!LaneLength)' = b % Argon!LaneLength
  BY <1>1, FillFixed
<1>3. FillTypes'
  BY <1>1, <1>2 DEF FillInv, FillTypes
<1>4. FillPlaces'
  BY <1>1, <1>2 DEF FillInv, FillPlaces, FillOffset, Argon!FirstSlice
<1>5. FillCounts'
  <2>1. \A b \in Argon!Blocks : FillCount(b)' = FillCount(b)
    BY <1>1, <1>2 DEF FillCount, Written
  <2> QED BY <1>1, <1>2, <2>1 DEF FillInv, FillCounts
<1>6. Argon!ReadsFinishedBlocks'
  BY <1>1, <1>2 DEF FillInv, Argon!ReadsFinishedBlocks
<1> QED BY <1>3, <1>4, <1>5, <1>6 DEF FillInv

LEMMA FillStep ==
    ASSUME FillParameters, FillInv, [Argon!Next]_(Argon!vars)
    PROVE  FillInv'
<1>1. CASE Argon!BeginSegment
  BY <1>1, FillBegins
<1>2. ASSUME NEW j1 \in 0 .. (Argon2WordMod - 1), NEW j2 \in 0 .. (input.lanes - 1), Argon!FillBlock(j1, j2)
      PROVE  FillInv'
  BY <1>2, FillFills
<1>3. CASE Argon!EndSegment
  BY <1>3, FillEndsSegment
<1>4. CASE Argon!Finalize
  BY <1>4, FillFinishes
<1>5. CASE UNCHANGED Argon!vars
  BY <1>5, FillStutters
<1>6. QED BY <1>1, <1>2, <1>3, <1>4, <1>5 DEF Argon!Next

LEMMA FillHolds == ASSUME FillParameters PROVE Argon!Spec => []FillInv
<1>1. Argon!Init => FillInv
  BY FillInit
<1>2. FillInv /\ [Argon!Next]_(Argon!vars) => FillInv'
  BY FillStep
<1>3. QED BY <1>1, <1>2, PTL DEF Argon!Spec

LEMMA FillLeavesNothing ==
    ASSUME FillParameters, FillInv
    PROVE  Argon!EveryPassFillsTheMemory
<1> SUFFICES ASSUME at.stage \in {"finalize", "done"}
             PROVE  (\A b \in Argon!Blocks : mem[b] = input.t_cost) /\ Argon!LastBlocks \subseteq Argon!Blocks
  BY DEF Argon!EveryPassFillsTheMemory
<1>1. /\ input \in Argon!Inputs /\ at.pass = input.t_cost /\ at.slice = 0 /\ at.lane = 0 /\ at.index = 0
      /\ input.t_cost \in Nat \ {0} /\ Argon!LaneLength \in Nat /\ Argon!LaneLength >= 8
      /\ Argon!SegmentLength \in Nat /\ input.lanes \in Nat
  <2>1. input \in Argon!Inputs
    BY DEF FillInv, FillTypes
  <2>2. at.pass = input.t_cost /\ at.slice = 0 /\ at.lane = 0 /\ at.index = 0
    BY DEF FillInv, FillPlaces
  <2> QED BY <2>1, <2>2, Geometry
<1>2. ASSUME NEW b \in Argon!Blocks
      PROVE  mem[b] = input.t_cost
  <2>1. HasParts(b) /\ mem[b] = FillCount(b)
    BY <1>1, BlockParts DEF FillInv, FillCounts
  <2>2. Argon!Segment(b) \in 0 .. 3 /\ Argon!Lane(b) \in 0 .. (input.lanes - 1) /\ b % Argon!SegmentLength \in 0 .. (Argon!SegmentLength - 1)
    BY <2>1 DEF HasParts
  <2>3. ~ (Argon!Segment(b) < 0) /\ ~ (Argon!Lane(b) < 0) /\ ~ (b % Argon!SegmentLength < 0)
    BY <1>1, <2>2
  <2>4. ~ Written(b)
    BY <1>1, <2>3 DEF Written
  <2>5. QED BY <1>1, <2>1, <2>4 DEF FillCount
<1>3. ASSUME NEW l \in 0 .. (input.lanes - 1)
      PROVE  l * Argon!LaneLength + (Argon!LaneLength - 1) \in Argon!Blocks
  <2>1. Argon!LaneLength - 1 \in 0 .. (Argon!LaneLength - 1) /\ l * Argon!LaneLength + (Argon!LaneLength - 1) \in Int
    BY <1>1
  <2> DEFINE x == Argon!LaneLength - 1
             b == l * Argon!LaneLength + x
  <2> HIDE DEF x
  <2>2. InLane(l, x, b)
    BY <1>1, <2>1, BlockInLane DEF x
  <2>3. QED BY <2>2 DEF InLane, x
<1>4. QED BY <1>2, <1>3 DEF Argon!LastBlocks

LEMMA FillSafe ==
    ASSUME FillParameters, FillInv
    PROVE  Argon!Argon2FillsInOrder
BY FillLeavesNothing DEF FillInv, Argon!Argon2FillsInOrder

(* A block is made only from two others that are finished, in the area of  *)
(* RFC 9106, whatever the pseudo-random values: the wrap of index_alpha()  *)
(* and the rotation of prev_offset in fill_segment() never go astray.      *)
THEOREM Argon2ReadsFinishedBlocks == ASSUME FillParameters PROVE Argon!Spec => []Argon!ReadsFinishedBlocks
<1>1. FillInv => Argon!ReadsFinishedBlocks
  BY DEF FillInv
<1>2. QED BY <1>1, FillHolds, PTL

(* Every block has been written once in every pass when the loops of       *)
(* argon2_fill_memory_blocks() end, those argon2_finalize() reads included.*)
THEOREM Argon2FillsTheMemory == ASSUME FillParameters PROVE Argon!Spec => []Argon!EveryPassFillsTheMemory
<1>1. FillInv => Argon!EveryPassFillsTheMemory
  BY FillLeavesNothing
<1>2. QED BY <1>1, FillHolds, PTL

(* Argon2 fills its memory in order: both of these.                        *)
THEOREM Argon2InOrder == ASSUME FillParameters PROVE Argon!Spec => []Argon!Argon2FillsInOrder
<1>1. Argon!ReadsFinishedBlocks /\ Argon!EveryPassFillsTheMemory => Argon!Argon2FillsInOrder
  BY DEF Argon!Argon2FillsInOrder
<1>2. QED BY <1>1, Argon2ReadsFinishedBlocks, Argon2FillsTheMemory, PTL

LEMMA FillHasParameters == FillParameters
BY HashAssumption DEF ArgonParameters, FillParameters, Argon!Inputs

-----------------------------------------------------------------------------
(* All of them, one at a time.                                             *)

HashInv ==
    /\ alg = "blake2b" => BlakeInv
    /\ alg = "sha2" => ShaInv
    /\ alg = "poly1305" => PolyInv
    /\ alg = "sponge" => SpongeInv
    /\ alg = "argon2" => FillInv

LEMMA HashHolds == HashSpec => []HashInv
<1>1. HashInit => HashInv
  <2> SUFFICES ASSUME HashInit PROVE HashInv
    OBVIOUS
  <2>1. CASE alg = "blake2b" /\ Blake!Init
    BY <2>1, HashAssumption, BlakeInit DEF HashInv
  <2>2. CASE alg = "sha2" /\ Sha!Init
    BY <2>2, HashAssumption, ShaInit DEF HashInv
  <2>3. CASE alg = "poly1305" /\ Poly!Init
    BY <2>3, HashAssumption, PolyInit DEF HashInv
  <2>4. CASE alg = "sponge" /\ Keccak!Init
    BY <2>4, HashAssumption, SpongeInit DEF HashInv
  <2>5. CASE alg = "argon2" /\ Argon!Init
    BY <2>5, FillHasParameters, FillInit DEF HashInv
  <2> QED BY <2>1, <2>2, <2>3, <2>4, <2>5 DEF HashInit
<1>2. HashInv /\ [HashNext]_vars => HashInv'
  <2> SUFFICES ASSUME HashInv, [HashNext]_vars PROVE HashInv'
    OBVIOUS
  <2>1. alg' = alg
    BY DEF HashNext, vars
  <2>2. ASSUME alg = "blake2b" PROVE BlakeInv'
    <3>1. BlakeInv
      BY <2>2 DEF HashInv
    <3>2. [Blake!Next]_(Blake!vars)
      BY <2>2 DEF HashNext, vars, stream, Blake!vars
    <3> QED BY <3>1, <3>2, HashAssumption, BlakeStep
  <2>3. ASSUME alg = "sha2" PROVE ShaInv'
    <3>1. ShaInv
      BY <2>3 DEF HashInv
    <3>2. [Sha!Next]_(Sha!vars)
      BY <2>3 DEF HashNext, vars, stream, Sha!vars
    <3> QED BY <3>1, <3>2, HashAssumption, ShaStep
  <2>4. ASSUME alg = "poly1305" PROVE PolyInv'
    <3>1. PolyInv
      BY <2>4 DEF HashInv
    <3>2. [Poly!Next]_(Poly!vars)
      BY <2>4 DEF HashNext, vars, stream, Poly!vars
    <3> QED BY <3>1, <3>2, HashAssumption, PolyStep
  <2>5. ASSUME alg = "sponge" PROVE SpongeInv'
    <3>1. SpongeInv
      BY <2>5 DEF HashInv
    <3>2. [Keccak!Next]_(Keccak!vars)
      BY <2>5 DEF HashNext, vars, stream, Keccak!vars
    <3> QED BY <3>1, <3>2, HashAssumption, SpongeStep
  <2>6. ASSUME alg = "argon2" PROVE FillInv'
    <3>1. FillInv
      BY <2>6 DEF HashInv
    <3>2. [Argon!Next]_(Argon!vars)
      BY <2>6 DEF HashNext, vars, call, Argon!vars
    <3> QED BY <3>1, <3>2, FillHasParameters, FillStep
  <2> QED BY <2>1, <2>2, <2>3, <2>4, <2>5, <2>6 DEF HashInv
<1> QED BY <1>1, <1>2, PTL DEF HashSpec

(* With any of the hashes: BLAKE2b hashes the concatenation of its updates, *)
(* every block with its byte count, and finishes once.                     *)
THEOREM Blake2bHashing == HashSpec => []Blake2bHashes
<1>1. HashInv => Blake2bHashes
  BY HashAssumption, BlakeSafe DEF HashInv, Blake2bHashes
<1> QED BY <1>1, HashHolds, PTL

(* SHA-256 and SHA-512 hash the concatenation of their updates, padded in  *)
(* one block or two and with the count of its bits.                        *)
THEOREM Sha2Hashing == HashSpec => []Sha2Hashes
<1>1. HashInv => Sha2Hashes
  BY HashAssumption, ShaSafe DEF HashInv, Sha2Hashes
<1> QED BY <1>1, HashHolds, PTL

(* Poly1305 authenticates the concatenation of its updates, and nothing of *)
(* what the buffer held before.                                            *)
THEOREM Poly1305Hashing == HashSpec => []Poly1305Authenticates
<1>1. HashInv => Poly1305Authenticates
  BY HashAssumption, PolySafe DEF HashInv, Poly1305Authenticates
<1> QED BY <1>1, HashHolds, PTL

(* SHA-3, SHAKE and TurboSHAKE give every byte of the output of the sponge *)
(* once and in its place.                                                  *)
THEOREM SpongeHashing == HashSpec => []SpongeSqueezes
<1>1. HashInv => SpongeSqueezes
  BY HashAssumption, SpongeSafe DEF HashInv, SpongeSqueezes
<1> QED BY <1>1, HashHolds, PTL

(* Argon2 makes each block from finished ones in the reference area, and   *)
(* writes every block once in every pass.                                  *)
THEOREM Argon2Hashing == HashSpec => []Argon2FillsInOrder
<1>1. HashInv => Argon2FillsInOrder
  BY FillHasParameters, FillSafe DEF HashInv, Argon2FillsInOrder
<1> QED BY <1>1, HashHolds, PTL

=============================================================================
