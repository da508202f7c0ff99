----------------------------- MODULE CallsProofs -----------------------------
(***************************************************************************)
(* Padding, uniform sampling and the memory of password hashing.           *)
(***************************************************************************)
EXTENDS Calls, FiniteSetTheorems, TLAPS

-----------------------------------------------------------------------------
(* randombytes_uniform()                                                   *)

LEMMA DivIs ==
    ASSUME NEW n \in Nat \ {0}, NEW q \in Int, NEW r \in 0 .. (n - 1)
    PROVE  (n * q + r) \div n = q /\ (n * q + r) % n = r
  OBVIOUS

LEMMA DivOf ==
    ASSUME NEW n \in Nat \ {0}, NEW r \in Int
    PROVE  r \div n \in Int /\ r % n \in 0 .. (n - 1) /\ r = n * (r \div n) + (r % n)
  OBVIOUS

LEMMA MonotoneProduct ==
    ASSUME NEW n \in Nat, NEW a \in Int, NEW b \in Int, a <= b
    PROVE  /\ n * a <= n * b /\ n * a \in Int /\ n * b \in Int
           /\ a >= 0 => n * a >= 0
<1>1. PICK d \in Nat : b = a + d
  <2>1. b - a \in Nat /\ b = a + (b - a)
    OBVIOUS
  <2> QED BY <2>1
<1>2. n * b = n * a + n * d /\ n * d >= 0 /\ n * d \in Int /\ n * a \in Int
  BY <1>1
<1>3. a >= 0 => n * a >= 0
  OBVIOUS
<1> QED BY <1>2, <1>3

(* The words that are not rejected, in rows of the bound.                  *)
Word(m, n, k, t) == m + (n * k + t)

(* A turn of the residues.                                                 *)
LEMMA ResidueTurns ==
    ASSUME NEW n \in Nat \ {0}, NEW m \in 0 .. (n - 1), NEW v \in 0 .. (n - 1), NEW t \in 0 .. (n - 1),
           NEW k \in Int
    PROVE  /\ Word(m, n, k, t) \in Int
           /\ Word(m, n, k, t) % n = v <=> t = (v - m) % n
<1>1. PICK d \in {0, 1} : m + t - n * d \in 0 .. (n - 1)
  <2>1. CASE m + t < n
    BY <2>1
  <2>2. CASE m + t >= n
    BY <2>2
  <2> QED BY <2>1, <2>2
<1> DEFINE u == m + t - n * d
<1>2. Word(m, n, k, t) = n * (k + d) + u /\ k + d \in Int
  <2>1. n * (k + d) = n * k + n * d
    BY <1>1
  <2> QED BY <1>1, <2>1 DEF Word
<1>3. Word(m, n, k, t) % n = u
  BY <1>1, <1>2, DivIs
<1>4. PICK e \in {0, -1} : v - m - n * e \in 0 .. (n - 1)
  <2>1. CASE m <= v
    BY <2>1
  <2>2. CASE m > v
    BY <2>2
  <2> QED BY <2>1, <2>2
<1>5. (v - m) % n = v - m - n * e
  <2> DEFINE w == v - m - n * e
  <2>1. v - m = n * e + w
    BY <1>4
  <2> QED BY <1>4, <2>1, DivIs
<1>6. u = v <=> t = v - m - n * e
  <2>1. CASE d = 0 /\ e = 0
    BY <1>1, <1>4, <2>1
  <2>2. CASE d = 0 /\ e = -1
    BY <1>1, <1>4, <2>2
  <2>3. CASE d = 1 /\ e = 0
    BY <1>1, <1>4, <2>3
  <2>4. CASE d = 1 /\ e = -1
    BY <1>1, <1>4, <2>4
  <2> QED BY <1>1, <1>4, <2>1, <2>2, <2>3, <2>4
<1>7. Word(m, n, k, t) \in Int
  BY DEF Word
<1> QED BY <1>3, <1>5, <1>6, <1>7

(* With w = n * q + m: what is below m is rejected.                        *)
LEMMA UniformMinIs ==
    ASSUME NEW n \in Nat, n >= 2, NEW w \in Nat, n < w, NEW q \in Int, NEW m \in 0 .. (n - 1), w = n * q + m
    PROVE  Number!UniformMin(n, w) = m
<1>1. 1 + (w - 1 - n) = w - n /\ w - n \in 0 .. (w - 1) /\ w \in Nat \ {0}
  OBVIOUS
<1>2. (w - n) % w = w - n
  BY <1>1
<1>3. w - n = n * (q - 1) + m
  <2>1. n * (q - 1) = n * q - n
    OBVIOUS
  <2> QED BY <2>1
<1>4. (w - n) % n = m
  BY <1>3, DivIs
<1> QED BY <1>1, <1>2, <1>4 DEF Number!UniformMin

(* Each value is drawn by one word in each of the q rows of n.             *)
LEMMA EachIsDrawn ==
    ASSUME NEW n \in Nat, n >= 2, NEW w \in Nat, n < w, NEW q \in Nat, NEW m \in 0 .. (n - 1), w = n * q + m,
           NEW v \in 0 .. (n - 1)
    PROVE  Cardinality({r \in 0 .. (w - 1) : Number!Uniform(n, w)[r] = v}) = q
<1> DEFINE f == Number!Uniform(n, w)
           drawn == {r \in 0 .. (w - 1) : f[r] = v}
           t == (v - m) % n
           g == [j \in 0 .. (q - 1) |-> m + (n * j + t)]
<1>1. n \in Nat \ {0}
  OBVIOUS
<1>2. t \in 0 .. (n - 1)
  BY <1>1, DivOf
<1>3. t = (v - m) % n
  OBVIOUS
<1>4. \A r \in 0 .. (w - 1) : f[r] = IF r < m THEN -1 ELSE r % n
  BY UniformMinIs DEF Number!Uniform
<1> HIDE DEF f, t
<1>5. ASSUME NEW k \in Int PROVE Word(m, n, k, t) % n = v
  BY <1>1, <1>2, <1>3, ResidueTurns
<1>6. ASSUME NEW j \in 0 .. (q - 1)
      PROVE  g[j] = m + (n * j + t) /\ g[j] \in drawn
  <2>1. g[j] = m + (n * j + t)
    OBVIOUS
  <2>2. n * j >= 0 /\ n * j + n <= n * q /\ n * j \in Int /\ n * q \in Int
    <3>1. n * (j + 1) <= n * q
      BY MonotoneProduct
    <3>2. n * (j + 1) = n * j + n /\ n * j >= 0
      BY MonotoneProduct
    <3> QED BY <3>1, <3>2
  <2>3. m + (n * j + t) \in m .. (w - 1)
    BY <1>2, <2>2
  <2>4. (m + (n * j + t)) % n = v
    <3>1. j \in Int
      OBVIOUS
    <3>2. Word(m, n, j, t) % n = v
      BY <1>5, <3>1
    <3> QED BY <3>2 DEF Word
  <2> HIDE DEF g
  <2> QED BY <1>4, <2>1, <2>3, <2>4
<1>7. ASSUME NEW i \in 0 .. (q - 1), NEW j \in 0 .. (q - 1), g[i] = g[j]
      PROVE  i = j
  <2>1. n * i + t = n * j + t /\ n * i \in Int /\ n * j \in Int
    BY <1>2, <1>6, <1>7
  <2>2. (n * i + t) \div n = i /\ (n * j + t) \div n = j
    BY <1>2, DivIs
  <2> QED BY <2>1, <2>2
<1>8. ASSUME NEW r \in drawn
      PROVE  \E j \in 0 .. (q - 1) : g[j] = r
  <2>1. r \in 0 .. (w - 1) /\ f[r] = v
    OBVIOUS
  <2>2. r >= m /\ r % n = v
    BY <1>4, <2>1
  <2>3. PICK k \in Int, u \in 0 .. (n - 1) : r - m = n * k + u
    <3>1. r - m \in Int
      BY <2>1
    <3>2. (r - m) \div n \in Int /\ (r - m) % n \in 0 .. (n - 1) /\ r - m = n * ((r - m) \div n) + ((r - m) % n)
      BY <1>1, <3>1, DivOf
    <3> WITNESS (r - m) \div n \in Int, (r - m) % n \in 0 .. (n - 1)
    <3> QED BY <3>2
  <2>4. r = m + (n * k + u)
    BY <2>1, <2>3
  <2>5. u = t
    <3>1. Word(m, n, k, u) % n = v
      BY <2>2, <2>4 DEF Word
    <3> QED BY <1>3, <1>1, <3>1, ResidueTurns
  <2>6. k \in 0 .. (q - 1)
    <3>1. n * k + u >= 0 /\ n * k + u < n * q
      BY <2>1, <2>2, <2>3
    <3>2. n * q = n * q + 0 /\ (n * k + u) \div n = k
      BY <2>3, DivIs
    <3>3. ~ k < 0
      <4>1. SUFFICES ASSUME k + 1 <= 0 PROVE FALSE
        OBVIOUS
      <4>2. n * (k + 1) <= n * 0
        BY <4>1, MonotoneProduct
      <4>3. n * (k + 1) = n * k + n
        OBVIOUS
      <4> QED BY <3>1, <4>2, <4>3
    <3>4. ~ k >= q
      <4>1. SUFFICES ASSUME q <= k PROVE FALSE
        OBVIOUS
      <4>2. n * q <= n * k
        BY <4>1, MonotoneProduct
      <4> QED BY <3>1, <4>2
    <3> QED BY <3>3, <3>4
  <2>7. g[k] = r
    BY <2>4, <2>5, <2>6
  <2> QED BY <2>6, <2>7
<1>9. g \in Bijection(0 .. (q - 1), drawn)
  <2>1. g \in [0 .. (q - 1) -> drawn]
    <3>1. \A j \in 0 .. (q - 1) : g[j] \in drawn
      BY <1>6
    <3> HIDE DEF drawn
    <3> QED BY <3>1
  <2> HIDE DEF g, drawn
  <2> QED BY <1>7, <1>8, <2>1 DEF Bijection, Injection, Surjection, IsInjective
<1>10. IsFiniteSet(0 .. (q - 1)) /\ Cardinality(0 .. (q - 1)) = q
  <2>1. q - 1 \in Int /\ 0 \in Int
    OBVIOUS
  <2>2. IsFiniteSet(0 .. (q - 1)) /\ Cardinality(0 .. (q - 1)) = IF 0 > q - 1 THEN 0 ELSE q - 1 - 0 + 1
    BY <2>1, FS_Interval
  <2> QED BY <2>2
<1> HIDE DEF g, drawn
<1>11. ExistsBijection(0 .. (q - 1), drawn)
  BY <1>9 DEF ExistsBijection
<1>12. Cardinality(drawn) = q
  BY <1>10, <1>11, FS_Bijection
<1> QED BY <1>12 DEF drawn, f

LEMMA FewAreRejected ==
    ASSUME NEW n \in Nat, n >= 2, NEW w \in Nat, n < w, NEW q \in Nat, NEW m \in 0 .. (n - 1), w = n * q + m
    PROVE  2 * Cardinality({r \in 0 .. (w - 1) : Number!Uniform(n, w)[r] = -1}) < w
<1> DEFINE f == Number!Uniform(n, w)
           rejected == {r \in 0 .. (w - 1) : f[r] = -1}
<1>1. \A r \in 0 .. (w - 1) : f[r] = IF r < m THEN -1 ELSE r % n
  BY UniformMinIs DEF Number!Uniform
<1>2. n <= n * q /\ n * q \in Int
  <2>1. 1 <= q
    <3>1. CASE q = 0
      BY <3>1
    <3> QED BY <3>1
  <2>2. n * 1 <= n * q
    BY <2>1, MonotoneProduct
  <2> QED BY <2>2
<1> HIDE DEF f
<1>3. rejected = 0 .. (m - 1)
  <2>1. ASSUME NEW r \in 0 .. (w - 1) PROVE f[r] = -1 <=> r < m
    <3>1. r % n \in 0 .. (n - 1)
      BY DivOf
    <3> QED BY <1>1, <3>1
  <2>2. m - 1 <= w - 1
    BY <1>2
  <2> QED BY <2>1, <2>2
<1>4. Cardinality(0 .. (m - 1)) = m
  <2>1. m - 1 \in Int /\ 0 \in Int
    OBVIOUS
  <2>2. Cardinality(0 .. (m - 1)) = IF 0 > m - 1 THEN 0 ELSE m - 1 - 0 + 1
    BY <2>1, FS_Interval
  <2> QED BY <2>2
<1>5. 2 * m < w
  BY <1>2
<1> HIDE DEF rejected
<1>6. 2 * Cardinality(rejected) < w
  BY <1>3, <1>4, <1>5
<1> QED BY <1>6 DEF rejected, f


-----------------------------------------------------------------------------
(* sodium_pad() and sodium_unpad()                                         *)

(* What is accumulated over the bytes is the place of the only barrier.    *)
LEMMA SumOfNone == Number!SumSet({}) = 0
<1> DEFINE Def(f) == f = [s \in SUBSET {} |-> IF s = {} THEN 0
                            ELSE LET x == CHOOSE x \in s : TRUE IN x + f[s \ {x}]]
           iter == CHOOSE f : Def(f)
<1>1. Def([s \in SUBSET {} |-> 0])
  OBVIOUS
<1>2. Def(iter)
  BY <1>1
<1>3. iter[{}] = 0
  BY <1>2
<1> QED BY <1>3 DEF Number!SumSet, Number!FoldSet, Number!MapThenFoldSet

LEMMA SumOfOne ==
    ASSUME NEW n \in Nat
    PROVE  Number!SumSet({n}) = n
<1> DEFINE Def(f) == f = [s \in SUBSET {n} |-> IF s = {} THEN 0
                            ELSE LET x == CHOOSE x \in s : TRUE IN x + f[s \ {x}]]
           iter == CHOOSE f : Def(f)
           g == [s \in SUBSET {n} |-> IF s = {} THEN 0 ELSE n]
<1>1. Def(g)
  <2>1. ASSUME NEW s \in SUBSET {n}, s # {}
        PROVE  (CHOOSE x \in s : TRUE) = n /\ s \ {n} = {}
    <3>1. s = {n}
      BY <2>1
    <3> QED BY <3>1
  <2>2. g[{}] = 0
    OBVIOUS
  <2>3. ASSUME NEW s \in SUBSET {n}
        PROVE  g[s] = IF s = {} THEN 0 ELSE LET x == CHOOSE x \in s : TRUE IN x + g[s \ {x}]
    <3>1. CASE s = {}
      BY <3>1
    <3>2. CASE s # {}
      <4>1. (CHOOSE x \in s : TRUE) = n /\ s \ {n} = {}
        BY <2>1, <3>2
      <4>2. g[s] = n
        BY <3>2
      <4>3. n + 0 = n
        OBVIOUS
      <4> HIDE DEF g
      <4> QED BY <2>2, <3>2, <4>1, <4>2, <4>3
    <3> QED BY <3>1, <3>2
  <2> QED BY <2>3
<1> HIDE DEF g
<1>2. Def(iter)
  BY <1>1
<1> HIDE DEF iter
<1>3. iter[{n}] = n
  <2>1. {n} # {} /\ (CHOOSE x \in {n} : TRUE) = n /\ {n} \ {n} = {}
    OBVIOUS
  <2>2. iter[{}] = 0
    BY <1>2
  <2>3. iter[{n}] = n + iter[{n} \ {n}]
    BY <1>2, <2>1
  <2> QED BY <2>1, <2>2, <2>3
<1>4. Number!SumSet({n}) = iter[{n}]
  BY DEF Number!SumSet, Number!FoldSet, Number!MapThenFoldSet, iter
<1> QED BY <1>3, <1>4


(* The marker is not what is behind it.                                    *)
LEMMA MarkerIs == Number!Marker \in Nat \ {0}
  BY ByteAssumption DEF Number!Marker

(* i is the place of the barrier in the last k of `size' bytes.            *)
Barrier(buf, size, i) ==
    buf[size - i] = Number!Marker /\ \A j \in 0 .. (i - 1) : buf[size - j] = 0

LEMMA OneBarrier ==
    ASSUME NEW buf, NEW size \in Nat, NEW k \in Nat,
           NEW i \in 0 .. (k - 1), NEW j \in 0 .. (k - 1), Barrier(buf, size, i), Barrier(buf, size, j)
    PROVE  i = j
  BY MarkerIs DEF Barrier

LEMMA UnpadIs ==
    ASSUME NEW buf, NEW size \in Nat, NEW k \in Nat \ {0}, k <= size
    PROVE  /\ \A i \in 0 .. (k - 1) : Barrier(buf, size, i) =>
                 Number!sodium_unpad(buf, size, k) = [ret |-> 0, buf |-> buf, len |-> size - 1 - i]
           /\ (\A i \in 0 .. (k - 1) : ~ Barrier(buf, size, i)) =>
                 Number!sodium_unpad(buf, size, k) = [ret |-> -1, buf |-> buf, len |-> size - 1]
<1> DEFINE found == {i \in 0 .. (k - 1) : Barrier(buf, size, i)}
           padLen == Number!SumSet(found)
<1>1. Number!sodium_unpad(buf, size, k) =
         [ret |-> IF found = {} THEN -1 ELSE 0, buf |-> buf, len |-> size - 1 - padLen]
  BY DEF Number!sodium_unpad, Barrier
<1>2. ASSUME NEW i \in 0 .. (k - 1), Barrier(buf, size, i)
      PROVE  found = {i} /\ padLen = i
  <2>1. found = {i}
    BY <1>2, OneBarrier
  <2>2. Number!SumSet({i}) = i
    BY SumOfOne
  <2> QED BY <2>1, <2>2
<1>3. ASSUME \A i \in 0 .. (k - 1) : ~ Barrier(buf, size, i)
      PROVE  found = {} /\ padLen = 0
  <2>1. found = {}
    BY <1>3
  <2> QED BY <2>1, SumOfNone
<1> HIDE DEF found, padLen
<1>4. ASSUME NEW i \in 0 .. (k - 1), Barrier(buf, size, i)
      PROVE  Number!sodium_unpad(buf, size, k) = [ret |-> 0, buf |-> buf, len |-> size - 1 - i]
  <2>1. found = {i} /\ padLen = i
    BY <1>2, <1>4
  <2> QED BY <1>1, <2>1
<1>5. ASSUME \A i \in 0 .. (k - 1) : ~ Barrier(buf, size, i)
      PROVE  Number!sodium_unpad(buf, size, k) = [ret |-> -1, buf |-> buf, len |-> size - 1]
  <2>1. found = {} /\ padLen = 0
    BY <1>3, <1>5
  <2>2. size - 1 - 0 = size - 1
    OBVIOUS
  <2> QED BY <1>1, <2>1, <2>2
<1> QED BY <1>4, <1>5

(* The padding is shorter than a block and ends one.                       *)
LEMMA PaddingEndsABlock ==
    ASSUME NEW len \in Nat, NEW k \in Nat \ {0}
    PROVE  /\ Number!PadLength(len, k) \in 0 .. (k - 1)
           /\ len + Number!PadLength(len, k) + 1 = (len \div k + 1) * k
           /\ (len + Number!PadLength(len, k) + 1) % k = 0
           /\ k <= len + Number!PadLength(len, k) + 1
<1> DEFINE q == len \div k
           r == len % k
<1>1. q \in Nat /\ r \in 0 .. (k - 1) /\ len = k * q + r
  <2>1. q \in Int /\ r \in 0 .. (k - 1) /\ len = k * q + r
    BY DivOf
  <2>2. q >= 0
    OBVIOUS
  <2> QED BY <2>1, <2>2
<1>2. Number!PadLength(len, k) = k - 1 - r
  BY DEF Number!PadLength
<1> HIDE DEF q, r
<1>3. k * (q + 1) = k * q + k /\ (q + 1) * k = k * (q + 1) /\ k * q \in Int
  BY <1>1
<1>4. k * q >= 0
  BY <1>1, MonotoneProduct
<1>5. len + Number!PadLength(len, k) + 1 = k * (q + 1) + 0
  BY <1>1, <1>2, <1>3
<1>6. (k * (q + 1) + 0) % k = 0
  <2>1. q + 1 \in Int /\ 0 \in 0 .. (k - 1)
    BY <1>1
  <2> QED BY <2>1, DivIs
<1>7. len + Number!PadLength(len, k) + 1 = (q + 1) * k
  BY <1>3, <1>5
<1>8. k <= len + Number!PadLength(len, k) + 1
  BY <1>3, <1>4, <1>5
<1>9. Number!PadLength(len, k) \in 0 .. (k - 1)
  BY <1>1, <1>2
<1> QED BY <1>5, <1>6, <1>7, <1>8, <1>9 DEF q


(* What sodium_pad() leaves in a buffer with room for it.                  *)
Padded(buf, len, k, p) ==
    LET i == len + Number!PadLength(len, k) + 1 - p
    IN  CASE i \notin 0 .. (k - 1)           -> buf[p]
          [] i < Number!PadLength(len, k)    -> 0
          [] i = Number!PadLength(len, k)    -> Number!Marker
          [] i > Number!PadLength(len, k)    -> buf[p]

LEMMA PaddedIs ==
    ASSUME NEW buf, NEW len \in Nat, NEW k \in Nat \ {0}, NEW p \in Int
    PROVE  LET x == Number!PadLength(len, k)
           IN  /\ p <= len => Padded(buf, len, k, p) = buf[p]
               /\ p = len + 1 => Padded(buf, len, k, p) = Number!Marker
               /\ p \in (len + 2) .. (len + x + 1) => Padded(buf, len, k, p) = 0
<1> DEFINE x == Number!PadLength(len, k)
           i == len + x + 1 - p
<1>1. x \in 0 .. (k - 1)
  BY PaddingEndsABlock
<1>2. ASSUME p <= len PROVE Padded(buf, len, k, p) = buf[p]
  <2>1. i > x
    BY <1>1, <1>2
  <2>2. CASE i \in 0 .. (k - 1)
    BY <1>1, <2>1, <2>2 DEF Padded
  <2>3. CASE i \notin 0 .. (k - 1)
    BY <1>1, <2>1, <2>3 DEF Padded
  <2> QED BY <2>2, <2>3
<1>3. ASSUME p = len + 1 PROVE Padded(buf, len, k, p) = Number!Marker
  BY <1>1, <1>3 DEF Padded
<1>4. ASSUME p \in (len + 2) .. (len + x + 1) PROVE Padded(buf, len, k, p) = 0
  BY <1>1, <1>4 DEF Padded
<1> QED BY <1>2, <1>3, <1>4

LEMMA PadIs ==
    ASSUME NEW buf \in Seq(0 .. (ByteMod - 1)), NEW len \in Nat, NEW k \in Nat
    PROVE  LET r == Number!sodium_pad(buf, len, k, Len(buf))
               size == len + Number!PadLength(len, k) + 1
           IN  /\ r.ret \in {0, -1, -2}
               /\ r.ret = 0 => /\ k # 0 /\ size <= Len(buf) /\ r.len = size
                               /\ r.buf = [p \in 1 .. Len(buf) |-> Padded(buf, len, k, p)]
               /\ r.ret = -1 /\ k # 0 => size > Len(buf)
<1> DEFINE r == Number!sodium_pad(buf, len, k, Len(buf))
           x == Number!PadLength(len, k)
<1>1. CASE k = 0
  BY <1>1 DEF Number!sodium_pad, Number!Refused
<1>2. CASE k # 0
  <2>1. x \in 0 .. (k - 1)
    BY <1>2, PaddingEndsABlock
  <2>2. DOMAIN buf = 1 .. Len(buf) /\ Len(buf) \in Nat
    OBVIOUS
  <2>3. CASE SizeMax - len <= x
    <3>1. r = Number!Misuse
      BY <1>2, <2>3 DEF Number!sodium_pad
    <3> QED BY <3>1 DEF Number!Misuse
  <2>4. CASE ~ (SizeMax - len <= x) /\ len + x >= Len(buf)
    <3>1. r = Number!Refused
      BY <1>2, <2>4 DEF Number!sodium_pad
    <3>2. len + x + 1 > Len(buf)
      BY <2>1, <2>2, <2>4
    <3> QED BY <1>2, <3>1, <3>2 DEF Number!Refused
  <2>5. CASE ~ (SizeMax - len <= x) /\ ~ (len + x >= Len(buf))
    <3>1. r = [ret |-> 0, len |-> len + x + 1, buf |-> [p \in DOMAIN buf |-> Padded(buf, len, k, p)]]
      BY <1>2, <2>5 DEF Number!sodium_pad, Padded
    <3>2. len + x + 1 <= Len(buf)
      BY <2>1, <2>2, <2>5
    <3> QED BY <1>2, <2>2, <3>1, <3>2
  <2> QED BY <2>3, <2>4, <2>5
<1> QED BY <1>1, <1>2

(* Padding keeps the message, and unpadding finds it.                      *)
LEMMA PadKeeps ==
    ASSUME NEW buf \in Seq(0 .. (ByteMod - 1)), NEW len \in Nat, NEW k \in Nat,
           Number!sodium_pad(buf, len, k, Len(buf)).ret = 0
    PROVE  LET r == Number!sodium_pad(buf, len, k, Len(buf))
           IN  /\ r.len \in (len + 1) .. Len(buf)
               /\ r.len % k = 0 /\ r.len - len <= k
               /\ SubSeq(r.buf, 1, len) = SubSeq(buf, 1, len)
               /\ Number!sodium_unpad(r.buf, r.len, k) = [ret |-> 0, buf |-> r.buf, len |-> len]
<1> SUFFICES ASSUME NEW r, r = Number!sodium_pad(buf, len, k, Len(buf)), r.ret = 0
             PROVE  /\ r.len \in (len + 1) .. Len(buf)
                    /\ r.len % k = 0 /\ r.len - len <= k
                    /\ SubSeq(r.buf, 1, len) = SubSeq(buf, 1, len)
                    /\ Number!sodium_unpad(r.buf, r.len, k) = [ret |-> 0, buf |-> r.buf, len |-> len]
  OBVIOUS
<1> DEFINE x == Number!PadLength(len, k)
<1>1. /\ k \in Nat \ {0} /\ len + x + 1 <= Len(buf) /\ r.len = len + x + 1
      /\ r.buf = [p \in 1 .. Len(buf) |-> Padded(buf, len, k, p)]
  BY PadIs
<1>2. x \in 0 .. (k - 1) /\ (len + x + 1) % k = 0 /\ k <= len + x + 1
  BY <1>1, PaddingEndsABlock
<1>3. Len(buf) \in Nat
  OBVIOUS
<1>4. /\ \A p \in 1 .. len : r.buf[p] = buf[p]
      /\ r.buf[len + 1] = Number!Marker
      /\ \A p \in (len + 2) .. (len + x + 1) : r.buf[p] = 0
  <2>1. ASSUME NEW p \in 1 .. (len + x + 1) PROVE r.buf[p] = Padded(buf, len, k, p)
    BY <1>1, <1>2, <1>3
  <2>2. ASSUME NEW p \in 1 .. len PROVE r.buf[p] = buf[p]
    <3>1. p <= len /\ p \in Int /\ p \in 1 .. (len + x + 1)
      BY <1>2
    <3> QED BY <1>1, <2>1, <3>1, PaddedIs
  <2>3. r.buf[len + 1] = Number!Marker
    <3>1. len + 1 \in Int /\ len + 1 \in 1 .. (len + x + 1)
      BY <1>2
    <3> QED BY <1>1, <2>1, <3>1, PaddedIs
  <2>4. ASSUME NEW p \in (len + 2) .. (len + x + 1) PROVE r.buf[p] = 0
    <3>1. p \in Int /\ p \in 1 .. (len + x + 1)
      BY <1>2
    <3> QED BY <1>1, <2>1, <3>1, PaddedIs
  <2> QED BY <2>2, <2>3, <2>4
<1> HIDE DEF x
<1>5. SubSeq(r.buf, 1, len) = SubSeq(buf, 1, len)
  <2>1. SubSeq(r.buf, 1, len) = [p \in 1 .. len |-> r.buf[p]] /\ SubSeq(buf, 1, len) = [p \in 1 .. len |-> buf[p]]
    OBVIOUS
  <2> QED BY <1>4, <2>1
<1>6. Barrier(r.buf, r.len, x)
  <2>1. r.len - x = len + 1
    BY <1>1, <1>2
  <2>2. ASSUME NEW j \in 0 .. (x - 1) PROVE r.buf[r.len - j] = 0
    <3>1. r.len - j \in (len + 2) .. (len + x + 1)
      BY <1>1, <1>2
    <3> QED BY <1>4, <3>1
  <2> QED BY <1>4, <2>1, <2>2 DEF Barrier
<1>7. Number!sodium_unpad(r.buf, r.len, k) = [ret |-> 0, buf |-> r.buf, len |-> len]
  <2> DEFINE c == r.buf
             z == r.len
  <2>1. z \in Nat /\ k \in Nat \ {0} /\ k <= z /\ z - 1 - x = len /\ x \in 0 .. (k - 1)
    BY <1>1, <1>2
  <2>2. Barrier(c, z, x)
    BY <1>6
  <2> HIDE DEF c, z
  <2>3. Number!sodium_unpad(c, z, k) = [ret |-> 0, buf |-> c, len |-> z - 1 - x]
    BY <2>1, <2>2, UnpadIs
  <2> QED BY <2>1, <2>3 DEF c, z
<1>8. r.len \in (len + 1) .. Len(buf) /\ r.len % k = 0 /\ r.len - len <= k
  <2> DEFINE z == r.len
  <2>1. z = len + x + 1 /\ x \in 0 .. (k - 1) /\ z <= Len(buf)
    BY <1>1, <1>2
  <2>2. z % k = 0
    BY <1>1, <1>2
  <2> HIDE DEF z
  <2>3. z \in (len + 1) .. Len(buf) /\ z - len <= k
    BY <1>3, <2>1
  <2> QED BY <2>2, <2>3 DEF z
<1> QED BY <1>5, <1>7, <1>8

(* Padding is refused only where there is no room for it.                  *)
LEMMA PadRefuses ==
    ASSUME NEW buf \in Seq(0 .. (ByteMod - 1)), NEW len \in Nat, NEW k \in Nat,
           Number!sodium_pad(buf, len, k, Len(buf)).ret = -1
    PROVE  k = 0 \/ (len \div k + 1) * k > Len(buf)
<1>1. CASE k = 0
  BY <1>1
<1>2. CASE k # 0
  <2>1. len + Number!PadLength(len, k) + 1 > Len(buf)
    BY <1>2, PadIs
  <2>2. len + Number!PadLength(len, k) + 1 = (len \div k + 1) * k
    BY <1>2, PaddingEndsABlock
  <2> QED BY <2>1, <2>2
<1> QED BY <1>1, <1>2

(* What is unpadded ends in a marker and zeros, in its last block.         *)
LEMMA UnpadAccepts ==
    ASSUME NEW buf \in Seq(0 .. (ByteMod - 1)), NEW k \in Nat,
           NEW r, r = Number!sodium_unpad(buf, Len(buf), k)
    PROVE  r.ret = 0 <=>
              /\ k > 0 /\ Len(buf) >= k /\ r.len \in (Len(buf) - k) .. (Len(buf) - 1)
              /\ buf[r.len + 1] = Number!Marker
              /\ \A p \in (r.len + 2) .. Len(buf) : buf[p] = 0
<1> DEFINE size == Len(buf)
           Ends == /\ k > 0 /\ size >= k /\ r.len \in (size - k) .. (size - 1)
                   /\ buf[r.len + 1] = Number!Marker
                   /\ \A p \in (r.len + 2) .. size : buf[p] = 0
<1>0. size \in Nat
  OBVIOUS
<1>1. CASE k = 0 \/ size < k
  <2>1. r = Number!Refused
    BY <1>1 DEF Number!sodium_unpad
  <2>2. ~ Ends
    BY <1>0, <1>1
  <2> QED BY <2>1, <2>2 DEF Number!Refused
<1>2. CASE ~ (k = 0 \/ size < k)
  <2>0. k \in Nat \ {0} /\ k <= size
    BY <1>0, <1>2
  <2> HIDE DEF size
  <2>1. ASSUME NEW i \in 0 .. (k - 1), Barrier(buf, size, i)
        PROVE  r.ret = 0 /\ Ends
    <3>1. r = [ret |-> 0, buf |-> buf, len |-> size - 1 - i]
      BY <1>0, <2>0, <2>1, UnpadIs DEF size
    <3>2. r.len + 1 = size - i /\ r.len \in (size - k) .. (size - 1) /\ r.ret = 0
      BY <1>0, <2>0, <3>1
    <3>3. ASSUME NEW p \in (r.len + 2) .. size PROVE buf[p] = 0
      <4>1. size - p \in 0 .. (i - 1) /\ p = size - (size - p)
        BY <1>0, <3>1
      <4> QED BY <2>1, <4>1 DEF Barrier
    <3> QED BY <1>0, <2>0, <2>1, <3>2, <3>3 DEF Barrier
  <2>2. ASSUME \A i \in 0 .. (k - 1) : ~ Barrier(buf, size, i)
        PROVE  r.ret # 0 /\ ~ Ends
    <3>1. r = [ret |-> -1, buf |-> buf, len |-> size - 1]
      BY <1>0, <2>0, <2>2, UnpadIs DEF size
    <3>2. ASSUME Ends PROVE FALSE
      <4>1. buf[size - 0] = Number!Marker
        BY <1>0, <3>1, <3>2
      <4>2. Barrier(buf, size, 0) /\ 0 \in 0 .. (k - 1)
        BY <2>0, <4>1 DEF Barrier
      <4> QED BY <2>2, <4>2
    <3> QED BY <3>1, <3>2
  <2> QED BY <2>1, <2>2 DEF size
<1> QED BY <1>1, <1>2


-----------------------------------------------------------------------------
(* The composition.                                                        *)

(* What was passed is legal, and what is returned is what was computed.    *)
NumbersInv ==
    alg = "numbers" =>
        /\ Number!Passed
        /\ Number!Returned("pad") => mem = Number!sodium_pad(input.buf, input.len, input.blocksize, Len(input.buf))
        /\ Number!Returned("unpad") => mem = Number!sodium_unpad(input.buf, Len(input.buf), input.blocksize)
        /\ Number!Returned("uniform") => mem = Number!Uniform(input.bound, input.word)

(* Every call of the numbers leaves the invariant.                         *)
LEMMA NumbersInvHolds == CallSpec => []NumbersInv
<1>1. CallInit => NumbersInv
  BY DEF CallInit, Number!Init, NumbersInv, Number!Returned
<1>2. NumbersInv /\ [CallNext]_vars => NumbersInv'
  <2> SUFFICES ASSUME NumbersInv, [CallNext]_vars, alg' = "numbers"
               PROVE  NumbersInv'
    BY DEF NumbersInv
  <2>1. CASE UNCHANGED vars
    BY <2>1 DEF vars, NumbersInv, Number!Passed, Number!Returned
  <2>2. CASE alg = "numbers" /\ Number!Next /\ UNCHANGED alg
    <3>1. at' = "returned" /\ input' = input /\ Number!Passed'
      BY <2>2 DEF Number!Next, Number!Return, NumbersInv, Number!Passed
    <3>2. /\ input.call = "pad" => mem' = Number!sodium_pad(input.buf, input.len, input.blocksize, Len(input.buf))
          /\ input.call = "unpad" => mem' = Number!sodium_unpad(input.buf, Len(input.buf), input.blocksize)
          /\ input.call = "uniform" => mem' = Number!Uniform(input.bound, input.word)
      BY <2>2 DEF Number!Next, Number!Return
    <3> QED BY <3>1, <3>2 DEF NumbersInv, Number!Returned
  <2> QED BY <2>1, <2>2 DEF CallNext
<1> QED BY <1>1, <1>2, PTL DEF CallSpec

LEMMA CardinalityIs == \A S : Number!Cardinality(S) = Cardinality(S)
  BY Zenon DEF Number!Cardinality, Cardinality

(* Every value is drawn by as many words as any other, and fewer than half *)
(* are rejected, for every bound and every size of the word.               *)
LEMMA UniformHolds ==
    ASSUME NumbersInv
    PROVE  UniformIsUniform
<1> SUFFICES ASSUME alg = "numbers", Number!Returned("uniform"), input.bound >= 2
             PROVE  /\ \A v \in 0 .. (input.bound - 1) :
                          Cardinality({r \in DOMAIN mem : mem[r] = v}) = Cardinality({r \in DOMAIN mem : mem[r] = 0})
                    /\ 2 * Cardinality({r \in DOMAIN mem : mem[r] = -1}) < input.word
  BY CardinalityIs DEF UniformIsUniform, Number!UniformIsUniform
<1> DEFINE n == input.bound
           w == input.word
<1>1. n \in Nat /\ n >= 2 /\ w \in Nat /\ n < w /\ mem = Number!Uniform(n, w)
  BY DEF NumbersInv, Number!Passed, Number!Returned
<1> HIDE DEF n, w
<1>2. DOMAIN mem = 0 .. (w - 1)
  BY <1>1 DEF Number!Uniform
<1> DEFINE q == w \div n
           m == w % n
<1>3. q \in Nat /\ m \in 0 .. (n - 1) /\ w = n * q + m
  <2>1. n \in Nat \ {0} /\ w \in Int
    BY <1>1
  <2>2. q \in Int /\ m \in 0 .. (n - 1) /\ w = n * q + m
    BY <2>1, DivOf
  <2>3. q >= 0
    BY <1>1
  <2> QED BY <2>2, <2>3
<1> HIDE DEF q, m
<1>4. ASSUME NEW v \in 0 .. (n - 1) PROVE Cardinality({r \in DOMAIN mem : mem[r] = v}) = q
  BY <1>1, <1>2, <1>3, EachIsDrawn
<1>5. 0 \in 0 .. (n - 1)
  BY <1>1
<1>6. 2 * Cardinality({r \in DOMAIN mem : mem[r] = -1}) < w
  BY <1>1, <1>2, <1>3, FewAreRejected
<1> QED BY <1>4, <1>5, <1>6 DEF n, w

LEMMA PaddingHolds ==
    ASSUME NumbersInv
    PROVE  PaddingRoundTrips
<1> SUFFICES ASSUME alg = "numbers" PROVE Number!PaddingRoundTrips
  BY DEF PaddingRoundTrips
<1> DEFINE k == input.blocksize
           len == input.len
           buf == input.buf
<1>1. ASSUME Number!Returned("pad")
      PROVE  buf \in Seq(0 .. (ByteMod - 1)) /\ k \in Nat /\ len \in Nat
             /\ mem = Number!sodium_pad(buf, len, k, Len(buf))
  BY <1>1 DEF NumbersInv, Number!Passed, Number!Returned
<1>2. ASSUME Number!Returned("unpad")
      PROVE  buf \in Seq(0 .. (ByteMod - 1)) /\ k \in Nat /\ mem = Number!sodium_unpad(buf, Len(buf), k)
  BY <1>2 DEF NumbersInv, Number!Passed, Number!Returned
<1> HIDE DEF k, len, buf
<1>3. ASSUME Number!Returned("pad"), mem.ret = 0
      PROVE  /\ mem.len \in (len + 1) .. Len(buf)
             /\ mem.len % k = 0 /\ mem.len - len <= k
             /\ SubSeq(mem.buf, 1, len) = SubSeq(buf, 1, len)
             /\ Number!sodium_unpad(mem.buf, mem.len, k) = [ret |-> 0, buf |-> mem.buf, len |-> len]
  BY <1>1, <1>3, PadKeeps
<1>4. ASSUME Number!Returned("pad"), mem.ret = -1
      PROVE  k = 0 \/ (len \div k + 1) * k > Len(buf)
  BY <1>1, <1>4, PadRefuses
<1>5. ASSUME Number!Returned("unpad")
      PROVE  mem.ret = 0 <=>
                /\ k > 0 /\ Len(buf) >= k /\ mem.len \in (Len(buf) - k) .. (Len(buf) - 1)
                /\ buf[mem.len + 1] = Number!Marker
                /\ \A p \in (mem.len + 2) .. Len(buf) : buf[p] = 0
  BY <1>2, <1>5, UnpadAccepts
<1> QED BY <1>3, <1>4, <1>5 DEF Number!PaddingRoundTrips, k, len, buf

(* randombytes_uniform(): no value is likelier than another.               *)
THEOREM UniformSampling == CallSpec => []UniformIsUniform
<1>1. NumbersInv => UniformIsUniform
  BY UniformHolds
<1> QED BY <1>1, NumbersInvHolds, PTL

(* sodium_pad() and sodium_unpad() invert each other, and refuse exactly   *)
(* what has no room or no padding.                                         *)
THEOREM Padding == CallSpec => []PaddingRoundTrips
<1>1. NumbersInv => PaddingRoundTrips
  BY PaddingHolds
<1> QED BY <1>1, NumbersInvHolds, PTL

(* Both, as the run checks them.                                           *)
THEOREM PaddingAndSampling == CallSpec => []PaddingAndSamplingAreExact
<1>1. PaddingRoundTrips /\ UniformIsUniform => PaddingAndSamplingAreExact
  BY DEF PaddingAndSamplingAreExact
<1> QED BY <1>1, Padding, UniformSampling, PTL

=============================================================================
