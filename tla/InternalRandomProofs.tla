------------------------ MODULE InternalRandomProofs ------------------------
(***************************************************************************)
(* InternalRandom, for any number of threads, sizes of requests and words  *)
(* in a pool.  The theorems are about applications whose processes are all *)
(* Careful, as those that call sodium_init() first are: without that a     *)
(* child returns what its parent does (the run random_fork) and init() in  *)
(* one thread takes away the source that another is about to read.         *)
(***************************************************************************)
EXTENDS InternalRandom, SequenceTheorems, TLAPS

USE DEF ghosts

CarefulEverywhere == Careful = Proc

Key  == Nat \X Seq(Nat)
Word == Key \X Nat

StreamType == [initialized : {0, 1}, left : Nat, key : Key, pool : Key]
GlobalType == [initialized : {0, 1}, fd : {"none", "open"}, available : {0, 1},
               pid : Proc \cup {"none"}]

Places == {"idle", "init", "probe", "mark", "pid", "seed", "draw"}

Typed ==
    /\ source \in Sources
    /\ global \in [Proc -> GlobalType]
    /\ stream \in [Agent -> StreamType]
    /\ pc \in [Agent -> Places]
    /\ todo \in [Agent -> Int]
    /\ drawn \in [Agent -> Seq(Word)]
    /\ entropy \in Nat
    /\ ops \in [Agent -> Nat]
    /\ alive \in SUBSET Proc /\ stirred \in SUBSET alive
    /\ closed \in SUBSET Proc /\ misused \in SUBSET Proc /\ starved \in SUBSET Proc
    /\ overlapped \in SUBSET Proc

(* A process that does not exist yet does nothing.  One whose main thread  *)
(* has not stirred has drawn nothing, and its other threads have not begun.*)
Orderly ==
    \A a \in Agent :
        /\ a[1] \notin alive => pc[a] = "idle"
        /\ a[1] \notin stirred =>
              /\ drawn[a] = <<>>
              /\ a[2] # MainThread => pc[a] = "idle" /\ stream[a] = ZeroStream
              /\ pc[a] # "idle" => pc[a] # "draw" /\ todo[a] = Nothing

(* What a thread that is about to draw after stirring will draw.           *)
Pending ==
    \A a \in Agent :
        /\ pc[a] # "idle" => todo[a] \in {Nothing, RandomOp} \cup Sizes
        /\ pc[a] = "draw" => todo[a] # Nothing /\ stream[a].initialized = 1
        /\ pc[a] \notin {"idle", "draw"} => stream[a].left = 0

(* Init() has left the process something to read from.                     *)
Ready(p) == IF source = "getrandom" THEN global[p].available # 0
                                    ELSE global[p].fd = "open"

ProcessReady(p) ==
    /\ global[p].initialized = 1 => Ready(p)
    /\ p \in stirred => global[p].initialized = 1 /\ global[p].pid = p

ThreadReady(a) ==
    /\ pc[a] \in {"init", "probe", "mark"} =>
          a[2] = MainThread /\ a[1] \notin stirred /\ global[a[1]].initialized = 0
    /\ pc[a] = "mark" => Ready(a[1])
    /\ pc[a] \in {"pid", "seed", "draw"} => global[a[1]].initialized = 1
    /\ pc[a] = "seed" => global[a[1]].pid = a[1]

(* As long as no device was closed: only a main thread that has not stirred*)
(* initialises its process, and nobody reads before that is done.          *)
Initialised ==
    (source = "device" => closed = {}) =>
       (\A p \in Proc : ProcessReady(p)) /\ (\A a \in Agent : ThreadReady(a))

(* Seeds are given once and are never shared by two streams that draw.     *)
OwnSeeds ==
    /\ \A a \in Agent : stream[a].key[1] <= entropy
    /\ \A a, b \in Agent :
          a # b /\ a[1] \in stirred /\ b[1] \in stirred /\ stream[a].key[1] # 0
             => stream[a].key[1] # stream[b].key[1]

(* The pool comes from an earlier key of the same stream.                  *)
PoolsAreOlder ==
    \A a \in Agent :
        stream[a].left > 0 => /\ stream[a].pool[1] = stream[a].key[1]
                              /\ stream[a].pool[1] # 0
                              /\ Len(stream[a].pool[2]) < Len(stream[a].key[2])

(* A stream can never yield this word.                                     *)
Past(word, s) ==
    /\ word[1][1] = s.key[1] => Len(word[1][2]) < Len(s.key[2])
    /\ word[1] = s.pool => word[2] > s.left

(* Words that were drawn are past for every stream that can draw.          *)
WordsArePast ==
    \A a \in Agent : \A i \in DOMAIN drawn[a] :
        /\ drawn[a][i][1][1] \in 1 .. entropy
        /\ drawn[a][i][2] > 0
        /\ \A b \in Agent : b[1] \in stirred => Past(drawn[a][i], stream[b])

(* With every process careful, InitializedMeansSeeded and                  *)
(* OutputsNeverRepeat hold without their exception.                        *)
AlwaysSeeded == \A a \in Agent : stream[a].initialized = 1 => stream[a].key[1] # 0

NeverRepeats ==
    \A a, b \in Agent : \A i \in DOMAIN drawn[a], j \in DOMAIN drawn[b] :
        <<a, i>> # <<b, j>> => drawn[a][i] # drawn[b][j]

(* The three invariants, each inductive: where threads and processes are,  *)
(* what their streams hold, and what they have returned.                   *)
PlacesInv == Typed /\ Orderly /\ Pending /\ Initialised
DrawInv   == PlacesInv /\ AlwaysSeeded /\ PoolsAreOlder /\ OwnSeeds
OutputInv == DrawInv /\ WordsArePast /\ NeverRepeats

(* No build considered meets a kernel that refuses its getrandom(): there  *)
(* stir() goes on without a seed, as the run random_fallback shows.        *)
NoFallback == "fallback" \notin Sources

-----------------------------------------------------------------------------
(* Keys and words.                                                         *)

LEMMA KeyTypes == ZeroKey \in Key /\ ZeroStream \in StreamType /\ ZeroGlobal \in GlobalType
<1>1. ZeroKey \in Key
  <2>1. <<>> \in Seq(Nat) /\ 0 \in Nat
    OBVIOUS
  <2> QED BY <2>1 DEF ZeroKey, Key
<1>2. ZeroStream \in StreamType
  BY <1>1 DEF ZeroStream, StreamType
<1>3. ZeroGlobal \in GlobalType
  BY DEF ZeroGlobal, GlobalType
<1> QED BY <1>1, <1>2, <1>3

LEMMA EvolveKey ==
    ASSUME NEW k \in Key, NEW n \in Nat
    PROVE  /\ Evolve(k, n) \in Key
           /\ Evolve(k, n)[1] = k[1]
           /\ Len(Evolve(k, n)[2]) = Len(k[2]) + 1
<1>1. k[1] \in Nat /\ k[2] \in Seq(Nat)
  BY DEF Key
<1>2. Append(k[2], n) \in Seq(Nat) /\ Len(Append(k[2], n)) = Len(k[2]) + 1
  BY <1>1
<1> QED BY <1>1, <1>2 DEF Evolve, Key

LEMMA SizesAreNatural == Sizes \in SUBSET Nat /\ PoolWords \in Nat /\ PoolWords > 0
BY PoolAssumption

(* What one draw adds to the words of a thread.                            *)
Adds(k, from, to) == [i \in 1 .. (to - from) |-> <<k, from + i>>]

LEMMA AddsWords ==
    ASSUME NEW k \in Key, NEW from \in Nat, NEW to \in Nat, from <= to
    PROVE  /\ Adds(k, from, to) \in Seq(Word)
           /\ Len(Adds(k, from, to)) = to - from
           /\ \A i \in 1 .. (to - from) : Adds(k, from, to)[i] = <<k, from + i>>
<1>1. \A i \in 1 .. (to - from) : <<k, from + i>> \in Word
  BY DEF Word
<1>2. to - from \in Nat
  OBVIOUS
<1> QED BY <1>1, <1>2 DEF Adds

LEMMA Appending ==
    ASSUME NEW s \in Seq(Word), NEW n \in Seq(Word), NEW i \in DOMAIN (s \o n)
    PROVE  \/ i \in DOMAIN s /\ (s \o n)[i] = s[i]
           \/ i - Len(s) \in DOMAIN n /\ i > Len(s) /\ (s \o n)[i] = n[i - Len(s)]
OBVIOUS

(* The three ways to draw, in one form.                                    *)
Draws(a, k, from, to) == drawn' = [drawn EXCEPT ![a] = @ \o Adds(k, from, to)]

LEMMA BufDraws ==
    ASSUME Typed, NEW a \in Agent, NEW size \in Nat, TakeBuf(a, size)
    PROVE  Draws(a, stream[a].key, 0, size)
<1>1. [i \in 1 .. size |-> <<stream[a].key, i>>] = Adds(stream[a].key, 0, size)
  BY DEF Adds
<1> QED BY <1>1 DEF TakeBuf, Draws

LEMMA OneWord ==
    ASSUME NEW k \in Key, NEW n \in Nat, n > 0, NEW s \in Seq(Word)
    PROVE  Append(s, <<k, n>>) = s \o Adds(k, n - 1, n)
<1> DEFINE w == <<k, n>>
           m == n - 1
<1>1. w \in Word /\ m \in Nat /\ m <= n /\ n - m = 1 /\ m + 1 = n
  BY DEF Word
<1> HIDE DEF m
<1>2. Adds(k, m, n) = <<w>>
  <2>1. [i \in 1 .. 1 |-> <<k, m + i>>] = <<w>>
    BY <1>1
  <2> QED BY <1>1, <2>1 DEF Adds
<1>3. Append(s, w) = s \o <<w>>
  BY <1>1, AppendIsConcat
<1> QED BY <1>2, <1>3 DEF m

LEMMA PoolDraws ==
    ASSUME Typed, NEW a \in Agent, stream[a].left > 0, TakeFromPool(a)
    PROVE  Draws(a, stream[a].pool, stream[a].left - 1, stream[a].left)
<1>1. stream[a].pool \in Key /\ stream[a].left \in Nat /\ drawn[a] \in Seq(Word)
  BY DEF Typed, StreamType
<1> QED BY <1>1, OneWord DEF TakeFromPool, Draws, Typed

LEMMA RefillDraws ==
    ASSUME Typed, NEW a \in Agent, RefillAndTake(a)
    PROVE  Draws(a, stream[a].key, PoolWords - 1, PoolWords)
<1>1. stream[a].key \in Key /\ drawn[a] \in Seq(Word)
  BY DEF Typed, StreamType
<1> QED BY <1>1, OneWord, SizesAreNatural DEF RefillAndTake, Draws, Typed

LEMMA DrawsTypes ==
    ASSUME Typed, NEW a \in Agent, NEW k \in Key, NEW from \in Nat, NEW to \in Nat, from <= to,
           Draws(a, k, from, to)
    PROVE  drawn' \in [Agent -> Seq(Word)]
<1>1. drawn \in [Agent -> Seq(Word)] /\ drawn[a] \in Seq(Word)
  BY DEF Typed
<1>2. drawn[a] \o Adds(k, from, to) \in Seq(Word)
  BY <1>1, AddsWords
<1> QED BY <1>1, <1>2 DEF Draws

(* A word that is there after a draw was there before or is one of the new *)
(* ones.                                                                   *)
LEMMA DrawnBefore ==
    ASSUME Typed, NEW a \in Agent, NEW k \in Key, NEW from \in Nat, NEW to \in Nat, from <= to,
           Draws(a, k, from, to), NEW b \in Agent, NEW i \in DOMAIN drawn'[b]
    PROVE  \/ i \in DOMAIN drawn[b] /\ drawn'[b][i] = drawn[b][i]
           \/ /\ b = a /\ i > Len(drawn[a]) /\ i - Len(drawn[a]) \in 1 .. (to - from)
              /\ drawn'[b][i] = <<k, from + (i - Len(drawn[a]))>>
<1>1. drawn \in [Agent -> Seq(Word)] /\ drawn[a] \in Seq(Word)
  BY DEF Typed
<1>2. CASE b # a
  BY <1>1, <1>2 DEF Draws
<1>3. CASE b = a
  <2> DEFINE n == Adds(k, from, to)
  <2>1. n \in Seq(Word) /\ Len(n) = to - from /\ \A j \in 1 .. (to - from) : n[j] = <<k, from + j>>
    BY AddsWords
  <2>2. drawn'[b] = drawn[a] \o n
    BY <1>1, <1>3 DEF Draws
  <2> HIDE DEF n
  <2>3. \/ i \in DOMAIN drawn[a] /\ drawn'[b][i] = drawn[a][i]
        \/ i - Len(drawn[a]) \in DOMAIN n /\ i > Len(drawn[a]) /\ drawn'[b][i] = n[i - Len(drawn[a])]
    BY <1>1, <2>1, <2>2, Appending
  <2>4. DOMAIN n = 1 .. (to - from)
    BY <2>1
  <2> QED BY <1>3, <2>1, <2>3, <2>4
<1> QED BY <1>2, <1>3

-----------------------------------------------------------------------------
(* The three ways in which a stir() ends in sodium_misuse().               *)
GivesUp(a) == InitFindsNothing(a) \/ SeedStarves(a) \/ SeedFails(a)

LEMMA GivingUp ==
    ASSUME NEW a \in Agent, GivesUp(a)
    PROVE  /\ UNCHANGED <<source, global, stream, pc, todo, drawn, entropy, ops, alive>>
           /\ UNCHANGED <<stirred, closed, overlapped>>
           /\ misused' = misused \cup {a[1]}
           /\ starved' = starved \/ starved' = starved \cup {a[1]}
           /\ a[1] \in alive /\ pc[a] \in {"probe", "seed"}
BY DEF GivesUp, InitFindsNothing, SeedStarves, SeedFails, Starves, Misuse, At, Running

(* Types.                                                                  *)

LEMMA TypedInitially == Init => Typed
<1> SUFFICES ASSUME Init PROVE Typed
  OBVIOUS
<1>1. entropy = 0 /\ entropy \in Nat
  BY DEF Init
<1>2. stream \in [Agent -> StreamType] /\ global \in [Proc -> GlobalType]
  BY KeyTypes DEF Init
<1>3. drawn \in [Agent -> Seq(Word)]
  BY DEF Init
<1>4. todo \in [Agent -> Int] /\ ops \in [Agent -> Nat] /\ pc \in [Agent -> Places]
  BY DEF Init, Nothing, Places
<1>5. alive \in SUBSET Proc /\ stirred \in SUBSET alive
  BY DEF Init, Proc
<1> QED BY <1>1, <1>2, <1>3, <1>4, <1>5 DEF Init, Typed

LEMMA StreamUpdate ==
    ASSUME Typed, NEW a \in Agent, NEW s \in StreamType, stream' = [stream EXCEPT ![a] = s]
    PROVE  stream' \in [Agent -> StreamType]
BY DEF Typed

(* The record of a stream.                                                 *)
R(i, n, k, p) == [initialized |-> i, left |-> n, key |-> k, pool |-> p]

LEMMA StreamFields ==
    ASSUME Typed, NEW a \in Agent
    PROVE  /\ stream[a] \in StreamType
           /\ stream[a].initialized \in {0, 1} /\ stream[a].left \in Nat
           /\ stream[a].key \in Key /\ stream[a].pool \in Key
BY DEF Typed, StreamType

LEMMA RecordType ==
    ASSUME NEW i \in {0, 1}, NEW n \in Nat, NEW k \in Key, NEW p \in Key
    PROVE  /\ R(i, n, k, p) \in StreamType
           /\ R(i, n, k, p).initialized = i /\ R(i, n, k, p).left = n
           /\ R(i, n, k, p).key = k /\ R(i, n, k, p).pool = p
BY DEF R, StreamType

LEMMA Fields ==
    ASSUME NEW s \in StreamType
    PROVE  s.initialized \in {0, 1} /\ s.left \in Nat /\ s.key \in Key /\ s.pool \in Key
BY DEF StreamType

LEMMA SetLeft ==
    ASSUME NEW s \in StreamType, NEW n \in Nat
    PROVE  [s EXCEPT !.left = n] = R(s.initialized, n, s.key, s.pool)
BY DEF StreamType, R

LEMMA SetKey ==
    ASSUME NEW s \in StreamType, NEW k \in Key
    PROVE  [s EXCEPT !.key = k] = R(s.initialized, s.left, k, s.pool)
BY DEF StreamType, R

LEMMA SetPool ==
    ASSUME NEW s \in StreamType, NEW p \in Key
    PROVE  [s EXCEPT !.pool = p] = R(s.initialized, s.left, s.key, p)
BY DEF StreamType, R

LEMMA SetInitialized ==
    ASSUME NEW s \in StreamType, NEW i \in {0, 1}
    PROVE  [s EXCEPT !.initialized = i] = R(i, s.left, s.key, s.pool)
BY DEF StreamType, R

LEMMA SetLeftPool ==
    ASSUME NEW s \in StreamType, NEW n \in Nat, NEW p \in Key
    PROVE  [s EXCEPT !.left = n, !.pool = p] = R(s.initialized, n, s.key, p)
<1> DEFINE x == R(s.initialized, n, s.key, s.pool)
<1>1. x = [s EXCEPT !.left = n]
  BY SetLeft
<1>2. x \in StreamType /\ x.initialized = s.initialized /\ x.left = n /\ x.key = s.key
  BY Fields, RecordType
<1> HIDE DEF x
<1>3. [s EXCEPT !.left = n, !.pool = p] = [x EXCEPT !.pool = p]
  BY <1>1
<1>4. [x EXCEPT !.pool = p] = R(x.initialized, x.left, x.key, p)
  BY <1>2, SetPool
<1> QED BY <1>2, <1>3, <1>4

LEMMA SetInitializedKey ==
    ASSUME NEW s \in StreamType, NEW i \in {0, 1}, NEW k \in Key
    PROVE  [s EXCEPT !.initialized = i, !.key = k] = R(i, s.left, k, s.pool)
<1> DEFINE x == R(i, s.left, s.key, s.pool)
<1>1. x = [s EXCEPT !.initialized = i]
  BY SetInitialized
<1>2. x \in StreamType /\ x.initialized = i /\ x.left = s.left /\ x.pool = s.pool
  BY Fields, RecordType
<1> HIDE DEF x
<1>3. [s EXCEPT !.initialized = i, !.key = k] = [x EXCEPT !.key = k]
  BY <1>1
<1>4. [x EXCEPT !.key = k] = R(x.initialized, x.left, k, x.pool)
  BY <1>2, SetKey
<1> QED BY <1>2, <1>3, <1>4

BecomesAllBut(s, n, k, p) == [s EXCEPT !.pool = p, !.left = n, !.key = k] = R(s.initialized, n, k, p)

LEMMA SetAllButInitialized ==
    ASSUME NEW s \in StreamType, NEW n \in Nat, NEW k \in Key, NEW p \in Key
    PROVE  BecomesAllBut(s, n, k, p)
<1> DEFINE x == R(s.initialized, s.left, s.key, p)
<1>1. x = [s EXCEPT !.pool = p]
  BY SetPool
<1>2. x \in StreamType /\ x.initialized = s.initialized /\ x.pool = p
  BY Fields, RecordType
<1> HIDE DEF x
<1> DEFINE y == R(x.initialized, n, x.key, x.pool)
<1>3. y = [x EXCEPT !.left = n]
  BY <1>2, SetLeft
<1>4. y \in StreamType /\ y.initialized = s.initialized /\ y.left = n /\ y.pool = p
  BY <1>2, Fields, RecordType
<1> HIDE DEF y
<1>5. [s EXCEPT !.pool = p, !.left = n, !.key = k] = [y EXCEPT !.key = k]
  BY <1>1, <1>3
<1>6. [y EXCEPT !.key = k] = R(y.initialized, y.left, k, y.pool)
  BY <1>4, SetKey
<1> QED BY <1>4, <1>5, <1>6 DEF BecomesAllBut

(* Each way a stream changes, with its new record written out.             *)
LEMMA Refreshed ==
    ASSUME Typed, NEW a \in Agent,
           stream' = [stream EXCEPT ![a].left = 0, ![a].pool = ZeroKey]
    PROVE  /\ stream' = [stream EXCEPT ![a] =
                 R(stream[a].initialized, 0, stream[a].key, ZeroKey)]
           /\ stream' \in [Agent -> StreamType]
<1> DEFINE s == R(stream[a].initialized, 0, stream[a].key, ZeroKey)
<1>1. s \in StreamType
  BY StreamFields, KeyTypes, RecordType
<1>2. [stream[a] EXCEPT !.left = 0, !.pool = ZeroKey] = s
  <2> DEFINE u == stream[a]
             n == 0
  <2>1. u \in StreamType /\ n \in Nat /\ ZeroKey \in Key
    BY StreamFields, KeyTypes
  <2> HIDE DEF u, n
  <2>2. [u EXCEPT !.left = n, !.pool = ZeroKey] = R(u.initialized, n, u.key, ZeroKey)
    BY <2>1, SetLeftPool
  <2> QED BY <2>2 DEF u, n
<1>3. stream' = [stream EXCEPT ![a] = s]
  BY <1>2
<1> HIDE DEF s
<1>4. stream' \in [Agent -> StreamType]
  BY <1>1, <1>3, StreamUpdate
<1> QED BY <1>3, <1>4 DEF s

LEMMA Seeding ==
    ASSUME Typed, NEW a \in Agent, NEW k \in Key,
           stream' = [stream EXCEPT ![a].initialized = 1, ![a].key = k]
    PROVE  /\ stream' = [stream EXCEPT ![a] =
                 R(1, stream[a].left, k, stream[a].pool)]
           /\ stream' \in [Agent -> StreamType]
<1> DEFINE s == R(1, stream[a].left, k, stream[a].pool)
<1>1. s \in StreamType
  BY StreamFields, KeyTypes, RecordType
<1>2. [stream[a] EXCEPT !.initialized = 1, !.key = k] = s
  BY StreamFields, KeyTypes, SetInitializedKey
<1>3. stream' = [stream EXCEPT ![a] = s]
  BY <1>2
<1> HIDE DEF s
<1>4. stream' \in [Agent -> StreamType]
  BY <1>1, <1>3, StreamUpdate
<1> QED BY <1>3, <1>4 DEF s

LEMMA BufMoves ==
    ASSUME Typed, NEW a \in Agent, NEW size \in Nat, TakeBuf(a, size)
    PROVE  /\ stream' = [stream EXCEPT ![a] =
                 R(stream[a].initialized, stream[a].left, Evolve(stream[a].key, size), stream[a].pool)]
           /\ stream' \in [Agent -> StreamType]
<1> DEFINE k == Evolve(stream[a].key, size)
           s == R(stream[a].initialized, stream[a].left, k, stream[a].pool)
<1>1. k \in Key
  BY StreamFields, EvolveKey
<1>2. stream' = [stream EXCEPT ![a].key = k]
  BY DEF TakeBuf
<1> HIDE DEF k
<1>3. s \in StreamType
  BY <1>1, StreamFields, RecordType
<1>4. [stream[a] EXCEPT !.key = k] = s
  BY <1>1, StreamFields, KeyTypes, SetKey
<1>5. stream' = [stream EXCEPT ![a] = s]
  BY <1>2, <1>4
<1> HIDE DEF s
<1>6. stream' \in [Agent -> StreamType]
  BY <1>3, <1>5, StreamUpdate
<1> QED BY <1>5, <1>6 DEF s, k

LEMMA PoolMoves ==
    ASSUME Typed, NEW a \in Agent, stream[a].left > 0, TakeFromPool(a)
    PROVE  /\ stream' = [stream EXCEPT ![a] =
                 R(stream[a].initialized, stream[a].left - 1, stream[a].key, stream[a].pool)]
           /\ stream' \in [Agent -> StreamType]
<1> DEFINE n == stream[a].left - 1
           s == R(stream[a].initialized, n, stream[a].key, stream[a].pool)
<1>1. n \in Nat
  BY StreamFields
<1>2. stream' = [stream EXCEPT ![a].left = n]
  BY DEF TakeFromPool
<1> HIDE DEF n
<1>3. s \in StreamType
  BY <1>1, StreamFields, RecordType
<1>4. [stream[a] EXCEPT !.left = n] = s
  BY <1>1, StreamFields, KeyTypes, SetLeft
<1>5. stream' = [stream EXCEPT ![a] = s]
  BY <1>2, <1>4
<1> HIDE DEF s
<1>6. stream' \in [Agent -> StreamType]
  BY <1>3, <1>5, StreamUpdate
<1> QED BY <1>5, <1>6 DEF s, n

LEMMA RefillMoves ==
    ASSUME Typed, NEW a \in Agent, RefillAndTake(a)
    PROVE  /\ stream' = [stream EXCEPT ![a] =
                 R(stream[a].initialized, PoolWords - 1, Evolve(stream[a].key, 0), stream[a].key)]
           /\ stream' \in [Agent -> StreamType]
<1> DEFINE k == Evolve(stream[a].key, 0)
           n == PoolWords - 1
           s == R(stream[a].initialized, n, k, stream[a].key)
<1>1. k \in Key
  BY StreamFields, EvolveKey
<1>2. stream' = [stream EXCEPT ![a].pool = stream[a].key, ![a].left = n, ![a].key = k]
  BY DEF RefillAndTake
<1>3. n \in Nat
  BY SizesAreNatural
<1> HIDE DEF k, n
<1>4. s \in StreamType
  BY <1>1, <1>3, StreamFields, RecordType
<1>5. [stream[a] EXCEPT !.pool = stream[a].key, !.left = n, !.key = k] = s
  <2> DEFINE u == stream[a]
             p == stream[a].key
  <2>1. u \in StreamType /\ p \in Key
    BY StreamFields
  <2> HIDE DEF u, p
  <2>2. BecomesAllBut(u, n, k, p)
    BY <1>1, <1>3, <2>1, SetAllButInitialized
  <2> QED BY <2>2 DEF u, p, BecomesAllBut
<1>6. stream' = [stream EXCEPT ![a] = s]
  BY <1>2, <1>5
<1> HIDE DEF s
<1>7. stream' \in [Agent -> StreamType]
  BY <1>4, <1>6, StreamUpdate
<1> QED BY <1>6, <1>7 DEF s, k, n

(* Seed() reads a seed, or leaves the key as it is.                         *)
LEMMA SeedMoves ==
    ASSUME Typed, NEW a \in Agent, Seed(a)
    PROVE  \E k \in Key :
              /\ stream' = [stream EXCEPT ![a] =
                    R(1, stream[a].left, k, stream[a].pool)]
              /\ stream' \in [Agent -> StreamType]
              /\ \/ Reads(a) /\ k[1] = entropy + 1 /\ k[2] = <<>> /\ entropy' = entropy + 1
                 \/ ~ Reads(a) /\ k = stream[a].key /\ entropy' = entropy
<1>1. CASE Reads(a)
  <2> DEFINE k == <<entropy + 1, <<>>>>
  <2>1. k \in Key
    <3>1. <<>> \in Seq(Nat) /\ entropy + 1 \in Nat
      BY DEF Typed
    <3> QED BY <3>1 DEF Key
  <2>2. stream' = [stream EXCEPT ![a].initialized = 1, ![a].key = k] /\ entropy' = entropy + 1
    BY <1>1 DEF Seed, Reads
  <2>3. k[1] = entropy + 1 /\ k[2] = <<>>
    OBVIOUS
  <2> HIDE DEF k
  <2> QED BY <1>1, <2>1, <2>2, <2>3, Seeding
<1>2. CASE ~ Reads(a)
  <2>1. stream' = [stream EXCEPT ![a].initialized = 1, ![a].key = stream[a].key] /\ entropy' = entropy
    BY <1>2 DEF Seed, Reads
  <2> QED BY <1>2, <2>1, StreamFields, Seeding
<1> QED BY <1>1, <1>2

(* A process's record, when one of its fields changes.                     *)
LEMMA GlobalFields ==
    ASSUME NEW g \in GlobalType, NEW n \in {0, 1}, NEW p \in Proc
    PROVE  /\ [g EXCEPT !.available = n] \in GlobalType
           /\ [g EXCEPT !.initialized = n] \in GlobalType
           /\ [g EXCEPT !.fd = "open"] \in GlobalType
           /\ [g EXCEPT !.pid = p] \in GlobalType
BY DEF GlobalType

ClosedGlobal(g) == [g EXCEPT !.fd = "none", !.initialized = 0, !.pid = "none"]

LEMMA ClosedField ==
    ASSUME NEW g \in GlobalType
    PROVE  ClosedGlobal(g) \in GlobalType
<1> DEFINE x == [g EXCEPT !.fd = "none"]
           y == [x EXCEPT !.initialized = 0]
           z == [y EXCEPT !.pid = "none"]
<1>1. x \in GlobalType
  BY DEF GlobalType
<1> HIDE DEF x
<1>2. y \in GlobalType
  BY <1>1 DEF GlobalType
<1> HIDE DEF y
<1>3. z \in GlobalType
  BY <1>2 DEF GlobalType
<1> QED BY <1>3 DEF x, y, z, ClosedGlobal

LEMMA GlobalUpdate ==
    ASSUME Typed, NEW p \in Proc, NEW g \in GlobalType, global' = [global EXCEPT ![p] = g]
    PROVE  global' \in [Proc -> GlobalType]
BY DEF Typed

LEMMA AgentParts == \A a \in Agent : a[1] \in Proc /\ a[2] \in Thread /\ a = <<a[1], a[2]>>
BY DEF Agent

(* What each action of a thread does to where it is, and to the counters.  *)
LEMMA MayStartTypes ==
    ASSUME Typed, NEW a \in Agent, NEW main, MayStart(a, main)
    PROVE  ops' \in [Agent -> Nat]
BY DEF Typed, MayStart

LEMMA GotoTypes ==
    ASSUME Typed, NEW a \in Agent, NEW l \in Places, Goto(a, l)
    PROVE  pc' \in [Agent -> Places]
BY DEF Typed, Goto

LEMMA TypedStir ==
    ASSUME Typed, NEW a \in Agent, Stir(a) \/ DrawStirs(a)
    PROVE  Typed'
<1>1. ops' \in [Agent -> Nat]
  BY MayStartTypes DEF Stir, DrawStirs
<1>2. PICK then \in {Nothing, RandomOp} \cup Sizes : BeginStir(a, then)
  BY DEF Stir, DrawStirs
<1>3. then \in Int
  BY <1>2, SizesAreNatural DEF Nothing, RandomOp
<1>4. todo' \in [Agent -> Int]
  BY <1>2, <1>3 DEF BeginStir, Typed
<1>5. pc' \in [Agent -> Places]
  BY <1>2, GotoTypes DEF BeginStir, Places
<1>6. stream' \in [Agent -> StreamType]
  BY Refreshed DEF Stir, DrawStirs
<1>7. overlapped' \in SUBSET Proc
  <2>1. a[1] \in Proc /\ overlapped \in SUBSET Proc
    BY AgentParts DEF Typed
  <2>2. overlapped' = overlapped \/ overlapped' = overlapped \cup {a[1]}
    BY <1>2 DEF BeginStir
  <2> QED BY <2>1, <2>2
<1>8. /\ UNCHANGED <<source, global, drawn, entropy, alive, misused>>
      /\ UNCHANGED <<stirred, closed, starved>>
  BY DEF Stir, DrawStirs
<1> QED BY <1>1, <1>4, <1>5, <1>6, <1>7, <1>8 DEF Typed

LEMMA TypedInit ==
    ASSUME Typed, NEW a \in Agent, InitClears(a) \/ InitProbes(a) \/ Mark(a) \/ SetPid(a)
    PROVE  Typed'
<1> DEFINE g == global[a[1]]
<1>1. a[1] \in Proc /\ g \in GlobalType
  BY AgentParts DEF Typed
<1>2. PICK h \in GlobalType : global' = [global EXCEPT ![a[1]] = h]
  <2>1. CASE InitClears(a)
    BY <1>1, <2>1, GlobalFields DEF InitClears
  <2>2. CASE InitProbes(a)
    BY <1>1, <2>2, GlobalFields DEF InitProbes
  <2>3. CASE Mark(a)
    BY <1>1, <2>3, GlobalFields DEF Mark
  <2>4. CASE SetPid(a)
    BY <1>1, <2>4, GlobalFields DEF SetPid
  <2> QED BY <2>1, <2>2, <2>3, <2>4
<1>3. global' \in [Proc -> GlobalType]
  BY <1>1, <1>2, GlobalUpdate
<1>4. pc' \in [Agent -> Places]
  BY GotoTypes DEF InitClears, InitProbes, Mark, SetPid, Places
<1> QED BY <1>3, <1>4 DEF InitClears, InitProbes, Mark, SetPid, Typed

LEMMA TypedSeed ==
    ASSUME Typed, NEW a \in Agent, Seed(a)
    PROVE  Typed'
<1>1. stream' \in [Agent -> StreamType] /\ entropy' \in Nat
  <2>1. stream' \in [Agent -> StreamType]
    BY SeedMoves
  <2>2. entropy' = entropy \/ entropy' = entropy + 1
    BY SeedMoves
  <2> QED BY <2>1, <2>2 DEF Typed
<1>2. pc' \in [Agent -> Places]
  BY GotoTypes DEF Seed, Places
<1>3. stirred' \in SUBSET alive
  BY DEF Seed, At, Running, Typed
<1> QED BY <1>1, <1>2, <1>3 DEF Seed, Typed

LEMMA TypedDraw ==
    ASSUME Typed, Pending, NEW a \in Agent,
           \/ \E size \in Sizes : Buf(a, size)
           \/ Random(a) \/ DrawAfterStir(a)
    PROVE  Typed'
<1>1. stream' \in [Agent -> StreamType] /\ drawn' \in [Agent -> Seq(Word)]
  <2>1. ASSUME NEW size \in Sizes, TakeBuf(a, size)
        PROVE  stream' \in [Agent -> StreamType] /\ drawn' \in [Agent -> Seq(Word)]
    <3>1. size \in Nat /\ 0 <= size /\ 0 \in Nat /\ stream[a].key \in Key
      BY SizesAreNatural, StreamFields
    <3>2. Draws(a, stream[a].key, 0, size)
      BY <2>1, <3>1, BufDraws
    <3>3. drawn' \in [Agent -> Seq(Word)]
      BY <3>1, <3>2, DrawsTypes
    <3> QED BY <2>1, <3>1, <3>3, BufMoves
  <2>2. ASSUME stream[a].left > 0, TakeFromPool(a)
        PROVE  stream' \in [Agent -> StreamType] /\ drawn' \in [Agent -> Seq(Word)]
    <3> DEFINE n == stream[a].left
               m == stream[a].left - 1
    <3>1. n \in Nat /\ m \in Nat /\ m <= n /\ stream[a].pool \in Key
      BY <2>2, StreamFields
    <3>2. Draws(a, stream[a].pool, m, n)
      BY <2>2, PoolDraws
    <3> HIDE DEF n, m
    <3>3. drawn' \in [Agent -> Seq(Word)]
      BY <3>1, <3>2, DrawsTypes
    <3> QED BY <2>2, <3>3, PoolMoves
  <2>3. ASSUME RefillAndTake(a)
        PROVE  stream' \in [Agent -> StreamType] /\ drawn' \in [Agent -> Seq(Word)]
    <3> DEFINE m == PoolWords - 1
    <3>1. PoolWords \in Nat /\ m \in Nat /\ m <= PoolWords /\ stream[a].key \in Key
      BY SizesAreNatural, StreamFields
    <3>2. Draws(a, stream[a].key, m, PoolWords)
      BY <2>3, RefillDraws
    <3> HIDE DEF m
    <3>3. drawn' \in [Agent -> Seq(Word)]
      BY <3>1, <3>2, DrawsTypes
    <3> QED BY <2>3, <3>3, RefillMoves
  <2>4. CASE \E size \in Sizes : Buf(a, size)
    BY <2>1, <2>4 DEF Buf
  <2>5. CASE Random(a)
    BY <2>2, <2>3, <2>5 DEF Random
  <2>6. CASE DrawAfterStir(a)
    <3>1. pc[a] = "draw" /\ (todo[a] = RandomOp \/ todo[a] \in Sizes)
      BY <2>6 DEF DrawAfterStir, At, Pending
    <3> QED BY <2>1, <2>3, <2>6, <3>1 DEF DrawAfterStir
  <2> QED BY <2>4, <2>5, <2>6
<1>2. pc' \in [Agent -> Places] /\ ops' \in [Agent -> Nat]
  <2>1. CASE DrawAfterStir(a)
    BY <2>1, GotoTypes DEF DrawAfterStir, Places, Typed
  <2>2. CASE (\E size \in Sizes : Buf(a, size)) \/ Random(a)
    BY <2>2, MayStartTypes DEF Buf, Random, Typed
  <2> QED BY <2>1, <2>2
<1> QED BY <1>1, <1>2 DEF Buf, Random, DrawAfterStir, Typed

LEMMA TypedEnd ==
    ASSUME Typed, NEW a \in Agent, GivesUp(a) \/ DrawFindsStale(a) \/ Close(a)
    PROVE  Typed'
<1>1. ops' \in [Agent -> Nat]
  <2>1. CASE GivesUp(a)
    BY <2>1, GivingUp DEF Typed
  <2>2. CASE DrawFindsStale(a) \/ Close(a)
    BY <2>2, MayStartTypes DEF DrawFindsStale, Close
  <2> QED BY <2>1, <2>2
<1>2. misused' \in SUBSET Proc /\ closed' \in SUBSET Proc
  <2>1. a[1] \in Proc /\ misused \in SUBSET Proc /\ closed \in SUBSET Proc
    BY AgentParts DEF Typed
  <2>2. CASE GivesUp(a) \/ DrawFindsStale(a)
    BY <2>1, <2>2, GivingUp DEF DrawFindsStale, Misuse
  <2>3. CASE Close(a)
    BY <2>1, <2>3 DEF Close
  <2> QED BY <2>2, <2>3
<1>3. stream' \in [Agent -> StreamType]
  <2>1. CASE GivesUp(a) \/ DrawFindsStale(a)
    BY <2>1, GivingUp DEF DrawFindsStale, Typed
  <2>2. CASE Close(a)
    <3>1. stream \in [Agent -> StreamType] /\ ZeroStream \in StreamType
      BY KeyTypes DEF Typed
    <3>2. stream' = [stream EXCEPT ![a] = ZeroStream]
      BY <2>2 DEF Close
    <3> QED BY ONLY <3>1, <3>2
  <2> QED BY <2>1, <2>2
<1>4. global' \in [Proc -> GlobalType]
  <2>1. a[1] \in Proc /\ global[a[1]] \in GlobalType
    BY AgentParts DEF Typed
  <2> DEFINE g == ClosedGlobal(global[a[1]])
  <2>2. g \in GlobalType
    BY <2>1, ClosedField
  <2>3. global' = global \/ global' = [global EXCEPT ![a[1]] = g]
    BY GivingUp DEF DrawFindsStale, Close, ClosedGlobal
  <2> HIDE DEF g
  <2> QED BY <2>1, <2>2, <2>3, GlobalUpdate DEF Typed
<1> QED BY <1>1, <1>2, <1>3, <1>4, GivingUp DEF DrawFindsStale, Close, Typed

LEMMA TypedFork ==
    ASSUME Typed, NEW t \in Thread, Fork(t)
    PROVE  Typed'
<1>1. /\ <<"child", MainThread>> \in Agent /\ <<"parent", t>> \in Agent
      /\ "child" \in Proc /\ "parent" \in Proc
  BY ThreadAssumption DEF Agent, Proc
<1>2. global' \in [Proc -> GlobalType]
  BY <1>1 DEF Fork, Typed
<1>3. stream' \in [Agent -> StreamType]
  BY <1>1 DEF Fork, Typed
<1>4. alive' \in SUBSET Proc /\ stirred' \in SUBSET alive'
  BY <1>1 DEF Fork, Typed
<1>5. overlapped' \in SUBSET Proc
  <2>1. overlapped \in SUBSET Proc /\ overlapped \cup {"child"} \in SUBSET Proc
    BY <1>1 DEF Typed
  <2>2. overlapped' = overlapped \/ overlapped' = overlapped \cup {"child"}
    BY DEF Fork
  <2> QED BY ONLY <2>1, <2>2
<1>6. UNCHANGED <<source, pc, todo, drawn, entropy, ops, misused, closed, starved>>
  BY DEF Fork
<1> QED BY <1>2, <1>3, <1>4, <1>5, <1>6 DEF Typed

LEMMA TypedStep == ASSUME Typed, Pending, [Next]_vars PROVE Typed'
<1>1. CASE UNCHANGED vars
  BY <1>1 DEF vars, Typed
<1>2. CASE Next
  BY <1>2, TypedStir, TypedInit, TypedSeed, TypedDraw, TypedEnd, TypedFork DEF Next, GivesUp
<1> QED BY <1>1, <1>2

-----------------------------------------------------------------------------
(* Where threads are.                                                      *)

StepOf(a) ==
    \/ Stir(a) \/ InitClears(a) \/ InitProbes(a) \/ Mark(a) \/ SetPid(a)
    \/ Seed(a) \/ GivesUp(a)
    \/ \E size \in Sizes : Buf(a, size)
    \/ Random(a) \/ DrawStirs(a) \/ DrawAfterStir(a) \/ DrawFindsStale(a)
    \/ Close(a)

LEMMA Steps == Next <=> (\E a \in Agent : StepOf(a)) \/ (\E t \in Thread : Fork(t))
BY DEF Next, StepOf, GivesUp

(* A step of one thread leaves the others where they are.                  *)
LEMMA Others ==
    ASSUME Typed, NEW a \in Agent, StepOf(a), NEW b \in Agent, b # a
    PROVE  /\ pc'[b] = pc[b] /\ todo'[b] = todo[b] /\ stream'[b] = stream[b]
           /\ drawn'[b] = drawn[b]
<1>1. CASE Stir(a) \/ DrawStirs(a)
  BY <1>1 DEF Stir, DrawStirs, BeginStir, Goto, Typed
<1>2. CASE InitClears(a) \/ InitProbes(a) \/ Mark(a) \/ SetPid(a)
  BY <1>2 DEF InitClears, InitProbes, Mark, SetPid, Goto, Typed
<1>3. CASE Seed(a) \/ GivesUp(a) \/ DrawFindsStale(a) \/ Close(a)
  BY <1>3, GivingUp DEF Seed, DrawFindsStale, Close, Goto, Typed
<1>4. CASE (\E size \in Sizes : Buf(a, size)) \/ Random(a) \/ DrawAfterStir(a)
  BY <1>4 DEF Buf, Random, DrawAfterStir, TakeBuf, TakeFromPool, RefillAndTake, Goto, Typed
<1> QED BY <1>1, <1>2, <1>3, <1>4 DEF StepOf

LEMMA ProcessesLast ==
    ASSUME Typed, NEW a \in Agent, StepOf(a)
    PROVE  /\ alive' = alive /\ source' = source /\ closed \subseteq closed' /\ entropy' >= entropy
           /\ stirred' = IF Seed(a) /\ a[2] = MainThread THEN stirred \cup {a[1]} ELSE stirred
           /\ a[1] \in alive
<1>1. CASE Stir(a) \/ DrawStirs(a)
  BY <1>1 DEF Stir, DrawStirs, BeginStir, MayStart, At, Running, Goto, Seed, Typed
<1>2. CASE InitClears(a) \/ InitProbes(a) \/ Mark(a) \/ SetPid(a)
  BY <1>2 DEF InitClears, InitProbes, Mark, SetPid, At, Running, Seed, Typed
<1>3. CASE Seed(a)
  <2>1. entropy' = entropy \/ entropy' = entropy + 1
    BY <1>3, SeedMoves
  <2> QED BY <1>3, <2>1 DEF Seed, At, Running, Typed
<1>4. CASE GivesUp(a)
  BY <1>4, GivingUp DEF At, Running, Seed, Typed
<1>5. CASE DrawFindsStale(a) \/ Close(a)
  BY <1>5 DEF DrawFindsStale, Close, MayStart, At, Running, Seed, Typed
<1>6. CASE (\E size \in Sizes : Buf(a, size)) \/ Random(a)
  BY <1>6 DEF Buf, Random, MayStart, At, Running, Seed, Typed
<1>7. CASE DrawAfterStir(a)
  BY <1>7 DEF DrawAfterStir, At, Running, Seed, Typed
<1> QED BY <1>1, <1>2, <1>3, <1>4, <1>5, <1>6, <1>7 DEF StepOf

(* A careful application lets only the main thread of a process begin      *)
(* before it has stirred, and only with stir().                            *)
LEMMA Begins ==
    ASSUME CarefulEverywhere, NEW a \in Agent, NEW main \in BOOLEAN, MayStart(a, main)
    PROVE  /\ pc[a] = "idle" /\ a[1] \in alive
           /\ a[1] \notin stirred => main /\ a[2] = MainThread
BY AgentParts DEF CarefulEverywhere, MayStart, At, Running

(* Where the thread that moves arrives.                                    *)
LEMMA Arrives ==
    ASSUME Typed, NEW a \in Agent
    PROVE  /\ Stir(a) => todo'[a] = Nothing /\ pc'[a] \in {"init", "pid"}
           /\ DrawStirs(a) => todo'[a] \in {RandomOp} \cup Sizes /\ pc'[a] \in {"init", "pid"}
           /\ InitClears(a) => pc[a] = "init" /\ pc'[a] = "probe"
           /\ InitProbes(a) => pc[a] = "probe" /\ pc'[a] = "mark"
           /\ Mark(a) => pc[a] = "mark" /\ pc'[a] = "pid"
           /\ SetPid(a) => pc[a] = "pid" /\ pc'[a] = "seed"
           /\ Seed(a) => /\ pc[a] = "seed"
                         /\ pc'[a] = IF todo[a] = Nothing THEN "idle" ELSE "draw"
           /\ InitClears(a) \/ InitProbes(a) \/ Mark(a) \/ SetPid(a) \/ Seed(a) =>
                 todo'[a] = todo[a] /\ drawn'[a] = drawn[a]
           /\ InitClears(a) \/ InitProbes(a) \/ Mark(a) \/ SetPid(a) => stream'[a] = stream[a]
           /\ Stir(a) \/ DrawStirs(a) => drawn'[a] = drawn[a] /\ pc[a] = "idle"
<1> USE DEF Typed, Goto, At
<1>1. Stir(a) => todo'[a] = Nothing /\ pc'[a] \in {"init", "pid"}
  BY DEF Stir, BeginStir
<1>2. DrawStirs(a) => todo'[a] \in {RandomOp} \cup Sizes /\ pc'[a] \in {"init", "pid"}
  BY DEF DrawStirs, BeginStir
<1>3. /\ InitClears(a) => pc[a] = "init" /\ pc'[a] = "probe"
      /\ InitProbes(a) => pc[a] = "probe" /\ pc'[a] = "mark"
      /\ Mark(a) => pc[a] = "mark" /\ pc'[a] = "pid"
      /\ SetPid(a) => pc[a] = "pid" /\ pc'[a] = "seed"
  BY DEF InitClears, InitProbes, Mark, SetPid
<1>4. Seed(a) => /\ pc[a] = "seed"
                 /\ pc'[a] = IF todo[a] = Nothing THEN "idle" ELSE "draw"
  BY DEF Seed
<1>5. InitClears(a) \/ InitProbes(a) \/ Mark(a) \/ SetPid(a) \/ Seed(a) =>
                 todo'[a] = todo[a] /\ drawn'[a] = drawn[a]
  BY DEF InitClears, InitProbes, Mark, SetPid, Seed
<1>6. InitClears(a) \/ InitProbes(a) \/ Mark(a) \/ SetPid(a) => stream'[a] = stream[a]
  BY DEF InitClears, InitProbes, Mark, SetPid
<1>7. Stir(a) \/ DrawStirs(a) => drawn'[a] = drawn[a] /\ pc[a] = "idle"
  BY DEF Stir, DrawStirs, MayStart
<1> QED BY <1>1, <1>2, <1>3, <1>4, <1>5, <1>6, <1>7

LEMMA ForkKeeps ==
    ASSUME Typed, NEW t \in Thread, Fork(t)
    PROVE  /\ pc' = pc /\ todo' = todo /\ drawn' = drawn /\ entropy' = entropy /\ source' = source
           /\ stirred' = stirred /\ closed' = closed /\ misused' = misused
           /\ starved' = starved
           /\ "child" \notin alive /\ "child" \notin stirred
           /\ \A b \in Agent : b # <<"child", MainThread>> => stream'[b] = stream[b]
           /\ alive' = alive \cup {"child"}
           /\ stream'[<<"child", MainThread>>] = stream[<<"parent", t>>]
           /\ global'["child"] = global["parent"] /\ global'["parent"] = global["parent"]
           /\ <<"child", MainThread>> \in Agent /\ <<"parent", t>> \in Agent
<1>1. /\ <<"child", MainThread>> \in Agent /\ <<"parent", t>> \in Agent
      /\ "child" \in Proc /\ "parent" \in Proc
  BY ThreadAssumption DEF Agent, Proc
<1>2. stream' = [stream EXCEPT ![<<"child", MainThread>>] = stream[<<"parent", t>>]]
  BY DEF Fork
<1>3. /\ stream'[<<"child", MainThread>>] = stream[<<"parent", t>>]
      /\ \A b \in Agent : b # <<"child", MainThread>> => stream'[b] = stream[b]
  BY <1>1, <1>2 DEF Typed
<1>4. global'["child"] = global["parent"] /\ global'["parent"] = global["parent"]
  BY <1>1 DEF Fork, Typed
<1> QED BY <1>1, <1>3, <1>4 DEF Fork, Typed

(* What a thread does when it has not begun to stir, or is done with it.   *)
LEMMA Draws1 ==
    ASSUME CarefulEverywhere, Typed, Orderly, NEW a \in Agent,
           \/ \E size \in Sizes : Buf(a, size)
           \/ Random(a) \/ DrawAfterStir(a) \/ DrawFindsStale(a) \/ Close(a)
    PROVE  pc'[a] = "idle" /\ a[1] \in stirred /\ todo'[a] = todo[a]
<1>1. CASE DrawAfterStir(a)
  BY <1>1 DEF DrawAfterStir, At, Goto, Orderly, Typed
<1>2. CASE (\E size \in Sizes : Buf(a, size)) \/ Random(a) \/ DrawFindsStale(a) \/ Close(a)
  <2>1. MayStart(a, FALSE) /\ pc' = pc /\ todo' = todo
    BY <1>2 DEF Buf, Random, DrawFindsStale, Close
  <2> QED BY <2>1, Begins
<1> QED BY <1>1, <1>2

LEMMA OrderlyStep ==
    ASSUME CarefulEverywhere, Typed, Orderly, Pending, [Next]_vars
    PROVE  Orderly'
<1> SUFFICES ASSUME NEW b \in Agent
             PROVE  /\ b[1] \notin alive' => pc'[b] = "idle"
                    /\ b[1] \notin stirred' =>
                          /\ drawn'[b] = <<>>
                          /\ b[2] # MainThread => pc'[b] = "idle" /\ stream'[b] = ZeroStream
                          /\ pc'[b] # "idle" => pc'[b] # "draw" /\ todo'[b] = Nothing
  BY DEF Orderly
<1>0. /\ b[1] \notin alive => pc[b] = "idle"
      /\ b[1] \notin stirred =>
            /\ drawn[b] = <<>>
            /\ b[2] # MainThread => pc[b] = "idle" /\ stream[b] = ZeroStream
            /\ pc[b] # "idle" => pc[b] # "draw" /\ todo[b] = Nothing
  BY DEF Orderly
<1>1. CASE UNCHANGED vars
  BY <1>0, <1>1 DEF vars
<1> DEFINE Goal == /\ b[1] \notin alive' => pc'[b] = "idle"
                   /\ b[1] \notin stirred' =>
                         /\ drawn'[b] = <<>>
                         /\ b[2] # MainThread => pc'[b] = "idle" /\ stream'[b] = ZeroStream
                         /\ pc'[b] # "idle" => pc'[b] # "draw" /\ todo'[b] = Nothing
<1>2. ASSUME NEW a \in Agent, StepOf(a), b # a
      PROVE  Goal
  <2>1. alive' = alive /\ stirred \subseteq stirred'
    BY <1>2, ProcessesLast
  <2> QED BY <1>0, <1>2, <2>1, Others
<1>3. ASSUME StepOf(b)
      PROVE  Goal
  <2>1. alive' = alive /\ b[1] \in alive /\ stirred \subseteq stirred'
    BY <1>3, ProcessesLast
  <2>2. CASE Stir(b)
    <3>1. MayStart(b, TRUE)
      BY <2>2 DEF Stir
    <3>2. b[1] \notin stirred => b[2] = MainThread
      BY <3>1, Begins
    <3> QED BY <1>0, <2>1, <2>2, <3>2, Arrives
  <2>3. CASE DrawStirs(b)
    <3>1. MayStart(b, FALSE)
      BY <2>3 DEF DrawStirs
    <3>2. b[1] \in stirred
      BY <3>1, Begins
    <3> QED BY <2>1, <3>2
  <2>4. CASE InitClears(b) \/ InitProbes(b) \/ Mark(b) \/ SetPid(b)
    BY <1>0, <2>1, <2>4, Arrives
  <2>5. CASE Seed(b)
    <3>1. b[1] \in stirred'
      BY <1>0, <1>3, <2>5, Arrives, ProcessesLast
    <3> QED BY <2>1, <3>1
  <2>6. CASE GivesUp(b)
    BY <1>0, <2>1, <2>6, GivingUp
  <2>7. CASE \/ \E size \in Sizes : Buf(b, size)
             \/ Random(b) \/ DrawAfterStir(b) \/ DrawFindsStale(b) \/ Close(b)
    <3>1. b[1] \in stirred
      BY <2>7, Draws1
    <3> QED BY <2>1, <3>1
  <2> QED BY <1>3, <2>2, <2>3, <2>4, <2>5, <2>6, <2>7 DEF StepOf
<1>4. ASSUME NEW t \in Thread, Fork(t)
      PROVE  Goal
  <2>1. /\ pc' = pc /\ todo' = todo /\ drawn' = drawn /\ stirred' = stirred
        /\ \A c \in Agent : c # <<"child", MainThread>> => stream'[c] = stream[c]
        /\ alive \subseteq alive'
    BY <1>4, ForkKeeps
  <2>2. b[2] # MainThread => b # <<"child", MainThread>>
    OBVIOUS
  <2> QED BY <1>0, <2>1, <2>2
<1> QED BY <1>1, <1>2, <1>3, <1>4, Steps

LEMMA PendingStep ==
    ASSUME CarefulEverywhere, Typed, Orderly, Pending, [Next]_vars
    PROVE  Pending'
<1> SUFFICES ASSUME NEW b \in Agent
             PROVE  /\ pc'[b] # "idle" => todo'[b] \in {Nothing, RandomOp} \cup Sizes
                    /\ pc'[b] = "draw" => todo'[b] # Nothing /\ stream'[b].initialized = 1
                    /\ pc'[b] \notin {"idle", "draw"} => stream'[b].left = 0
  BY DEF Pending
<1> DEFINE Goal == /\ pc'[b] # "idle" => todo'[b] \in {Nothing, RandomOp} \cup Sizes
                   /\ pc'[b] = "draw" => todo'[b] # Nothing /\ stream'[b].initialized = 1
                   /\ pc'[b] \notin {"idle", "draw"} => stream'[b].left = 0
<1>0. /\ pc[b] # "idle" => todo[b] \in {Nothing, RandomOp} \cup Sizes
      /\ pc[b] = "draw" => todo[b] # Nothing /\ stream[b].initialized = 1
      /\ pc[b] \notin {"idle", "draw"} => stream[b].left = 0
  BY DEF Pending
<1>1. CASE UNCHANGED vars
  BY <1>0, <1>1 DEF vars
<1>2. ASSUME NEW a \in Agent, StepOf(a), b # a
      PROVE  Goal
  BY <1>0, <1>2, Others
<1>3. ASSUME StepOf(b)
      PROVE  Goal
  <2>1. CASE Stir(b) \/ DrawStirs(b)
    <3>1. stream' = [stream EXCEPT ![b] = R(stream[b].initialized, 0, stream[b].key, ZeroKey)]
      BY <2>1, Refreshed DEF Stir, DrawStirs
    <3>2. stream'[b] = R(stream[b].initialized, 0, stream[b].key, ZeroKey)
      BY <3>1 DEF Typed
    <3>3. stream'[b].left = 0
      BY <3>2 DEF R
    <3> QED BY <2>1, <3>3, Arrives
  <2>2. CASE InitClears(b) \/ InitProbes(b) \/ Mark(b) \/ SetPid(b)
    BY <1>0, <2>2, Arrives
  <2>3. CASE Seed(b)
    <3>1. PICK k \in Key : stream' = [stream EXCEPT ![b] = R(1, stream[b].left, k, stream[b].pool)]
      BY <2>3, SeedMoves
    <3>2. stream'[b] = R(1, stream[b].left, k, stream[b].pool)
      BY <3>1 DEF Typed
    <3>3. stream'[b].initialized = 1
      BY <3>2 DEF R
    <3> QED BY <1>0, <2>3, <3>3, Arrives
  <2>4. CASE GivesUp(b)
    BY <1>0, <2>4, GivingUp
  <2>5. CASE \/ \E size \in Sizes : Buf(b, size)
             \/ Random(b) \/ DrawAfterStir(b) \/ DrawFindsStale(b) \/ Close(b)
    BY <2>5, Draws1
  <2> QED BY <1>3, <2>1, <2>2, <2>3, <2>4, <2>5 DEF StepOf
<1>4. ASSUME NEW t \in Thread, Fork(t)
      PROVE  Goal
  <2>1. /\ pc' = pc /\ todo' = todo /\ "child" \notin alive
        /\ \A c \in Agent : c # <<"child", MainThread>> => stream'[c] = stream[c]
    BY <1>4, ForkKeeps
  <2>2. b = <<"child", MainThread>> => pc[b] = "idle"
    BY <2>1 DEF Orderly
  <2> QED BY <1>0, <2>1, <2>2
<1> QED BY <1>1, <1>2, <1>3, <1>4, Steps

(* What the steps before Seed() do to the record of the process.           *)
LEMMA GlobalMoves ==
    ASSUME Typed, NEW a \in Agent
    PROVE  /\ InitClears(a) \/ InitProbes(a) \/ Mark(a) \/ SetPid(a) =>
                 \A p \in Proc : p # a[1] => global'[p] = global[p]
           /\ InitClears(a) => global'[a[1]].initialized = global[a[1]].initialized
           /\ InitProbes(a) =>
                 /\ global'[a[1]].initialized = global[a[1]].initialized
                 /\ IF source = "getrandom" THEN global'[a[1]].available = 1
                                            ELSE global'[a[1]].fd = "open"
           /\ Mark(a) => /\ global'[a[1]].initialized = 1
                         /\ global'[a[1]].available = global[a[1]].available
                         /\ global'[a[1]].fd = global[a[1]].fd
           /\ SetPid(a) => /\ global'[a[1]].pid = a[1]
                           /\ global'[a[1]].initialized = global[a[1]].initialized
                           /\ global'[a[1]].available = global[a[1]].available
                           /\ global'[a[1]].fd = global[a[1]].fd
<1>0. a[1] \in Proc /\ global \in [Proc -> GlobalType] /\ global[a[1]] \in GlobalType
  BY AgentParts DEF Typed
<1>1. InitClears(a) \/ InitProbes(a) \/ Mark(a) \/ SetPid(a) =>
                 \A p \in Proc : p # a[1] => global'[p] = global[p]
  BY <1>0 DEF InitClears, InitProbes, Mark, SetPid
<1>2. InitClears(a) => global'[a[1]].initialized = global[a[1]].initialized
  BY <1>0 DEF InitClears, GlobalType
<1>3. InitProbes(a) =>
                 /\ global'[a[1]].initialized = global[a[1]].initialized
                 /\ IF source = "getrandom" THEN global'[a[1]].available = 1
                                            ELSE global'[a[1]].fd = "open"
  BY <1>0 DEF InitProbes, GlobalType
<1>4. Mark(a) => /\ global'[a[1]].initialized = 1
                 /\ global'[a[1]].available = global[a[1]].available
                 /\ global'[a[1]].fd = global[a[1]].fd
  BY <1>0 DEF Mark, GlobalType
<1>5. SetPid(a) => /\ global'[a[1]].pid = a[1]
                   /\ global'[a[1]].initialized = global[a[1]].initialized
                   /\ global'[a[1]].available = global[a[1]].available
                   /\ global'[a[1]].fd = global[a[1]].fd
  BY <1>0 DEF SetPid, GlobalType
<1> QED BY <1>1, <1>2, <1>3, <1>4, <1>5

LEMMA InitialisedStep ==
    ASSUME CarefulEverywhere, Typed, Orderly, Pending, Initialised, [Next]_vars
    PROVE  Initialised'
<1> DEFINE Calm == source = "device" => closed = {}
           Goal == (\A p \in Proc : ProcessReady(p)') /\ (\A b \in Agent : ThreadReady(b)')
<1> SUFFICES ASSUME Calm' PROVE Goal
  BY DEF Initialised
<1>1. CASE UNCHANGED vars
  <2>1. UNCHANGED <<global, stirred, source, pc, closed>>
    BY <1>1 DEF vars
  <2>2. Calm
    BY <2>1
  <2>3. (\A p \in Proc : ProcessReady(p)) /\ (\A b \in Agent : ThreadReady(b))
    BY <2>2 DEF Initialised
  <2> QED BY <2>1, <2>3 DEF ProcessReady, ThreadReady, Ready
<1>2. ASSUME NEW a \in Agent, StepOf(a)
      PROVE  Goal
  <2>1. source' = source /\ closed \subseteq closed' /\ stirred \subseteq stirred'
    BY <1>2, ProcessesLast
  <2>2. Calm
    BY <2>1
  <2>3. (\A p \in Proc : ProcessReady(p)) /\ (\A b \in Agent : ThreadReady(b))
    BY <2>2 DEF Initialised
  <2>4. \A b \in Agent : b # a => pc'[b] = pc[b]
    BY <1>2, Others
  <2>5. a[1] \in Proc /\ \A b \in Agent : b[1] \in Proc /\ (b[1] = a[1] /\ b[2] = a[2] => b = a)
    BY AgentParts
  <2>6. ASSUME global' = global, stirred' = stirred,
               pc'[a] \notin {"init", "probe", "mark"} \/ (pc'[a] = "init" /\ pc[a] = "idle" /\ ThreadReady(a)'),
               pc'[a] \in {"pid", "seed", "draw"} => ThreadReady(a)'
        PROVE  Goal
    <3>1. ThreadReady(a)'
      BY <2>6 DEF ThreadReady
    <3>2. ASSUME NEW b \in Agent, b # a PROVE ThreadReady(b)'
      BY <2>1, <2>3, <2>4, <2>6, <3>2 DEF ThreadReady, Ready
    <3>3. \A p \in Proc : ProcessReady(p)'
      BY <2>1, <2>3, <2>6 DEF ProcessReady, Ready
    <3> QED BY <3>1, <3>2, <3>3
  <2>7. CASE Stir(a) \/ DrawStirs(a)
    <3>1. global' = global /\ stirred' = stirred /\ pc[a] = "idle"
          /\ pc'[a] = IF global[a[1]].initialized = 0 THEN "init" ELSE "pid"
      BY <2>7 DEF Stir, DrawStirs, BeginStir, Goto, MayStart, At, Typed
    <3>2. global[a[1]].initialized \in {0, 1}
      BY <2>5 DEF Typed, GlobalType
    <3>3. a[1] \notin stirred => a[2] = MainThread
      <4>1. MayStart(a, TRUE) \/ MayStart(a, FALSE)
        BY <2>7 DEF Stir, DrawStirs
      <4> QED BY <4>1, Begins
    <3>4. ThreadReady(a)'
      BY <2>3, <2>5, <3>1, <3>2, <3>3 DEF ThreadReady, ProcessReady
    <3> QED BY <2>6, <3>1, <3>2, <3>4
  <2>8. CASE InitClears(a) \/ InitProbes(a)
    <3>1. /\ pc[a] \in {"init", "probe"} /\ stirred' = stirred
          /\ pc'[a] = IF InitClears(a) THEN "probe" ELSE "mark"
      BY <2>8, Arrives DEF InitClears, InitProbes
    <3>2. a[2] = MainThread /\ a[1] \notin stirred /\ global[a[1]].initialized = 0
      BY <2>3, <3>1 DEF ThreadReady
    <3>3. /\ global'[a[1]].initialized = 0
          /\ \A p \in Proc : p # a[1] => global'[p] = global[p]
          /\ InitProbes(a) => Ready(a[1])'
      BY <2>1, <2>8, <3>2, GlobalMoves DEF Ready
    <3>4. \A p \in Proc : ProcessReady(p)'
      BY <2>1, <2>3, <3>1, <3>2, <3>3 DEF ProcessReady, Ready
    <3>5. ThreadReady(a)'
      BY <2>8, <3>1, <3>2, <3>3 DEF ThreadReady
    <3>6. ASSUME NEW b \in Agent, b # a, b[1] # a[1] PROVE ThreadReady(b)'
      BY <2>1, <2>3, <2>4, <2>5, <3>1, <3>3, <3>6 DEF ThreadReady, Ready
    <3>7. ASSUME NEW b \in Agent, b # a, b[1] = a[1] PROVE ThreadReady(b)'
      <4>1. pc[b] \notin {"init", "probe", "mark", "pid", "seed", "draw"}
        BY <2>3, <2>5, <3>2, <3>7 DEF ThreadReady
      <4> QED BY <2>4, <3>7, <4>1 DEF ThreadReady
    <3> QED BY <3>4, <3>5, <3>6, <3>7
  <2>9. CASE Mark(a)
    <3>1. pc[a] = "mark" /\ stirred' = stirred /\ pc'[a] = "pid"
      BY <2>9, Arrives DEF Mark
    <3>2. a[2] = MainThread /\ a[1] \notin stirred /\ global[a[1]].initialized = 0 /\ Ready(a[1])
      BY <2>3, <3>1 DEF ThreadReady
    <3>3. /\ global'[a[1]].initialized = 1
          /\ \A p \in Proc : p # a[1] => global'[p] = global[p]
          /\ Ready(a[1])'
      BY <2>1, <2>9, <3>2, GlobalMoves DEF Ready
    <3>4. \A p \in Proc : ProcessReady(p)'
      BY <2>1, <2>3, <3>1, <3>2, <3>3 DEF ProcessReady, Ready
    <3>5. ThreadReady(a)'
      BY <3>1, <3>3 DEF ThreadReady
    <3>6. ASSUME NEW b \in Agent, b # a, b[1] # a[1] PROVE ThreadReady(b)'
      BY <2>1, <2>3, <2>4, <2>5, <3>1, <3>3, <3>6 DEF ThreadReady, Ready
    <3>7. ASSUME NEW b \in Agent, b # a, b[1] = a[1] PROVE ThreadReady(b)'
      <4>1. pc[b] \notin {"init", "probe", "mark", "pid", "seed", "draw"}
        BY <2>3, <2>5, <3>2, <3>7 DEF ThreadReady
      <4> QED BY <2>4, <3>7, <4>1 DEF ThreadReady
    <3> QED BY <3>4, <3>5, <3>6, <3>7
  <2>10. CASE SetPid(a)
    <3>1. pc[a] = "pid" /\ stirred' = stirred /\ pc'[a] = "seed"
      BY <2>10, Arrives DEF SetPid
    <3>2. global[a[1]].initialized = 1
      BY <2>3, <3>1 DEF ThreadReady
    <3>3. /\ global'[a[1]].initialized = 1 /\ global'[a[1]].pid = a[1]
          /\ \A p \in Proc : p # a[1] => global'[p] = global[p]
          /\ Ready(a[1]) => Ready(a[1])'
      BY <2>1, <2>10, <3>2, GlobalMoves DEF Ready
    <3>4. \A p \in Proc : ProcessReady(p)'
      BY <2>1, <2>3, <3>1, <3>2, <3>3 DEF ProcessReady, Ready
    <3>5. ThreadReady(a)'
      BY <3>1, <3>3 DEF ThreadReady
    <3>6. ASSUME NEW b \in Agent, b # a, b[1] # a[1] PROVE ThreadReady(b)'
      BY <2>1, <2>3, <2>4, <2>5, <3>1, <3>3, <3>6 DEF ThreadReady, Ready
    <3>7. ASSUME NEW b \in Agent, b # a, b[1] = a[1] PROVE ThreadReady(b)'
      BY <2>3, <2>4, <3>2, <3>3, <3>7 DEF ThreadReady
    <3> QED BY <3>4, <3>5, <3>6, <3>7
  <2>11. CASE Seed(a)
    <3>1. pc[a] = "seed" /\ pc'[a] \in {"idle", "draw"} /\ global' = global
          /\ stirred' \subseteq stirred \cup {a[1]}
      BY <2>11, Arrives DEF Seed
    <3>2. global[a[1]].initialized = 1 /\ global[a[1]].pid = a[1]
      BY <2>3, <3>1 DEF ThreadReady
    <3>3. \A p \in Proc : ProcessReady(p)'
      BY <2>1, <2>3, <3>1, <3>2 DEF ProcessReady, Ready
    <3>4. ThreadReady(a)'
      BY <3>1, <3>2 DEF ThreadReady
    <3>5. ASSUME NEW b \in Agent, b # a PROVE ThreadReady(b)'
      <4>1. pc[b] \in {"init", "probe", "mark"} => b[1] # a[1]
        BY <2>3, <3>2 DEF ThreadReady
      <4> QED BY <2>1, <2>3, <2>4, <3>1, <3>5, <4>1 DEF ThreadReady, Ready
    <3> QED BY <3>3, <3>4, <3>5
  <2>12. CASE GivesUp(a)
    <3>1. UNCHANGED <<global, stirred, source, pc, closed>>
      BY <2>12, GivingUp
    <3> QED BY <2>3, <3>1 DEF ProcessReady, ThreadReady, Ready
  <2>13. CASE \/ \E size \in Sizes : Buf(a, size)
              \/ Random(a) \/ DrawAfterStir(a) \/ DrawFindsStale(a)
    <3>1. global' = global /\ stirred' = stirred
      BY <2>13 DEF Buf, Random, DrawAfterStir, DrawFindsStale
    <3> QED BY <2>6, <2>13, <3>1, Draws1
  <2>14. CASE Close(a)
    <3>1. source # "device"
      BY <2>1, <2>14 DEF Close
    <3>2. global' = global /\ stirred' = stirred
      BY <2>14, <3>1 DEF Close
    <3> QED BY <2>6, <2>14, <3>2, Draws1
  <2> QED BY <1>2, <2>7, <2>8, <2>9, <2>10, <2>11, <2>12, <2>13, <2>14 DEF StepOf
<1>3. ASSUME NEW t \in Thread, Fork(t)
      PROVE  Goal
  <2>1. /\ source' = source /\ closed' = closed /\ stirred' = stirred /\ pc' = pc
        /\ "child" \notin alive /\ "child" \notin stirred
        /\ global'["child"] = global["parent"] /\ global'["parent"] = global["parent"]
    BY <1>3, ForkKeeps
  <2>2. Calm
    BY <2>1
  <2>3. (\A p \in Proc : ProcessReady(p)) /\ (\A b \in Agent : ThreadReady(b))
    BY <2>2 DEF Initialised
  <2>4. \A p \in Proc : ProcessReady(p)'
    BY <2>1, <2>3 DEF ProcessReady, Ready, Proc
  <2>5. ASSUME NEW b \in Agent PROVE ThreadReady(b)'
    <3>1. b[1] = "child" => pc[b] = "idle"
      BY <2>1 DEF Orderly
    <3>2. b[1] = "child" \/ b[1] = "parent"
      BY AgentParts DEF Proc
    <3> QED BY <2>1, <2>3, <3>1, <3>2 DEF ThreadReady, Ready
  <2> QED BY <2>4, <2>5
<1> QED BY <1>1, <1>2, <1>3, Steps

LEMMA AbortsStep ==
    ASSUME CarefulEverywhere, Typed, Orderly, Initialised, AbortsOnlyAfterClose, [Next]_vars
    PROVE  AbortsOnlyAfterClose'
<1>1. CASE UNCHANGED vars
  BY <1>1 DEF vars, AbortsOnlyAfterClose
<1>2. ASSUME NEW a \in Agent, StepOf(a)
      PROVE  AbortsOnlyAfterClose'
  <2>1. source' = source /\ closed \subseteq closed'
    BY <1>2, ProcessesLast
  <2>2. CASE source = "device" /\ closed # {}
    BY <2>1, <2>2 DEF AbortsOnlyAfterClose
  <2>3. CASE ~ (source = "device" /\ closed # {})
    <3>1. (\A p \in Proc : ProcessReady(p)) /\ ThreadReady(a) /\ a[1] \in Proc
      BY <2>3, AgentParts DEF Initialised
    <3>2. ~ SeedFails(a)
      BY <3>1 DEF SeedFails, At, ThreadReady, ProcessReady, Ready
    <3>3. ~ DrawFindsStale(a)
      <4>1. MayStart(a, FALSE) => a[1] \in stirred
        BY Begins
      <4> QED BY <3>1, <4>1 DEF DrawFindsStale, Stale, ProcessReady
    <3>4. CASE InitFindsNothing(a) \/ SeedStarves(a)
      <4>1. misused' = misused \cup {a[1]} /\ starved' = starved \cup {a[1]}
        BY <3>4 DEF InitFindsNothing, SeedStarves, Starves, Misuse
      <4> QED BY <2>3, <4>1 DEF AbortsOnlyAfterClose
    <3>5. CASE ~ (InitFindsNothing(a) \/ SeedStarves(a))
      <4>1. misused' = misused /\ starved' = starved
        BY <1>2, <3>2, <3>3, <3>5 DEF StepOf, GivesUp, Stir, InitClears, InitProbes, Mark, SetPid,
              Seed, Buf, Random, DrawStirs, DrawAfterStir, Close
      <4> QED BY <2>3, <4>1 DEF AbortsOnlyAfterClose
    <3> QED BY <3>4, <3>5
  <2> QED BY <2>2, <2>3
<1>3. ASSUME NEW t \in Thread, Fork(t)
      PROVE  AbortsOnlyAfterClose'
  BY <1>3, ForkKeeps DEF AbortsOnlyAfterClose
<1> QED BY <1>1, <1>2, <1>3, Steps

-----------------------------------------------------------------------------
(* What a step does to the stream of the thread that takes it.             *)

Stays(a) == stream'[a] = stream[a] /\ drawn'[a] = drawn[a] /\ entropy' = entropy /\ stirred' = stirred

Refreshes(a) ==
    /\ stream'[a] = R(stream[a].initialized, 0, stream[a].key, ZeroKey)
    /\ drawn'[a] = drawn[a] /\ entropy' = entropy /\ stirred' = stirred

Seeds(a) ==
    /\ pc[a] = "seed" /\ drawn'[a] = drawn[a]
    /\ a[1] \in stirred' /\ stirred' = stirred \cup {a[1]}
    /\ \E k \in Key :
          /\ stream'[a] = R(1, stream[a].left, k, stream[a].pool)
          /\ \/ Reads(a) /\ k[1] = entropy + 1 /\ k[2] = <<>> /\ entropy' = entropy + 1
             \/ ~ Reads(a) /\ k = stream[a].key /\ entropy' = entropy

Live(a) == a[1] \in stirred /\ entropy' = entropy /\ stirred' = stirred

TakesBuf(a) ==
    /\ Live(a) /\ stream[a].initialized = 1
    /\ \E size \in Nat :
          /\ stream'[a] = R(stream[a].initialized, stream[a].left, Evolve(stream[a].key, size),
                            stream[a].pool)
          /\ Draws(a, stream[a].key, 0, size)

TakesWord(a) ==
    /\ Live(a) /\ stream[a].left > 0
    /\ stream'[a] = R(stream[a].initialized, stream[a].left - 1, stream[a].key, stream[a].pool)
    /\ Draws(a, stream[a].pool, stream[a].left - 1, stream[a].left)

Refills(a) ==
    /\ Live(a) /\ stream[a].initialized = 1
    /\ stream'[a] = R(stream[a].initialized, PoolWords - 1, Evolve(stream[a].key, 0), stream[a].key)
    /\ Draws(a, stream[a].key, PoolWords - 1, PoolWords)

Wipes(a) ==
    /\ stream'[a] = ZeroStream
    /\ drawn'[a] = drawn[a] /\ entropy' = entropy /\ stirred' = stirred

Moves(a) ==
    \/ Stays(a) \/ Refreshes(a) \/ Seeds(a) \/ TakesBuf(a) \/ TakesWord(a) \/ Refills(a) \/ Wipes(a)

LEMMA StepsMove ==
    ASSUME CarefulEverywhere, Typed, Orderly, Pending, NEW a \in Agent, StepOf(a)
    PROVE  Moves(a)
<1>1. CASE Stir(a) \/ DrawStirs(a)
  <2>1. stream'[a] = R(stream[a].initialized, 0, stream[a].key, ZeroKey)
    BY <1>1, Refreshed DEF Stir, DrawStirs, Typed
  <2> QED BY <1>1, <2>1 DEF Stir, DrawStirs, Refreshes, Moves
<1>2. CASE InitClears(a) \/ InitProbes(a) \/ Mark(a) \/ SetPid(a) \/ GivesUp(a) \/ DrawFindsStale(a)
  BY <1>2, GivingUp DEF InitClears, InitProbes, Mark, SetPid, DrawFindsStale, Stays, Moves
<1>3. CASE Seed(a)
  <2>1. PICK k \in Key :
              /\ stream' = [stream EXCEPT ![a] = R(1, stream[a].left, k, stream[a].pool)]
              /\ \/ Reads(a) /\ k[1] = entropy + 1 /\ k[2] = <<>> /\ entropy' = entropy + 1
                 \/ ~ Reads(a) /\ k = stream[a].key /\ entropy' = entropy
    BY <1>3, SeedMoves
  <2>2. stream'[a] = R(1, stream[a].left, k, stream[a].pool)
    BY <2>1 DEF Typed
  <2>3. pc[a] = "seed" /\ drawn'[a] = drawn[a]
    BY <1>3 DEF Seed, At
  <2>4. a[1] \in stirred' /\ stirred' = stirred \cup {a[1]}
    BY <1>3, <2>3 DEF Seed, Orderly
  <2> QED BY <2>1, <2>2, <2>3, <2>4 DEF Seeds, Moves
<1>4. ASSUME Live(a), stream[a].initialized = 1, NEW size \in Sizes, TakeBuf(a, size)
      PROVE  Moves(a)
  <2>1. size \in Nat
    BY SizesAreNatural
  <2>2. stream'[a] = R(stream[a].initialized, stream[a].left, Evolve(stream[a].key, size), stream[a].pool)
    BY <1>4, <2>1, BufMoves DEF Typed
  <2>3. Draws(a, stream[a].key, 0, size)
    BY <1>4, <2>1, BufDraws
  <2> QED BY <1>4, <2>1, <2>2, <2>3 DEF TakesBuf, Moves
<1>5. ASSUME Live(a), stream[a].initialized = 1, RefillAndTake(a)
      PROVE  Moves(a)
  <2>1. stream'[a] = R(stream[a].initialized, PoolWords - 1, Evolve(stream[a].key, 0), stream[a].key)
    BY <1>5, RefillMoves DEF Typed
  <2> QED BY <1>5, <2>1, RefillDraws DEF Refills, Moves
<1>6. CASE \E size \in Sizes : Buf(a, size)
  <2>1. PICK size \in Sizes : Buf(a, size)
    BY <1>6
  <2>2. Live(a)
    BY <2>1, Begins DEF Buf, Live, TakeBuf
  <2> QED BY <1>4, <2>1, <2>2 DEF Buf, Usable
<1>7. CASE Random(a)
  <2>1. Live(a)
    BY <1>7, Begins DEF Random, Live, TakeFromPool, RefillAndTake
  <2>2. CASE stream[a].left > 0 /\ TakeFromPool(a)
    <3>1. stream'[a] = R(stream[a].initialized, stream[a].left - 1, stream[a].key, stream[a].pool)
      BY <2>2, PoolMoves DEF Typed
    <3> QED BY <2>1, <2>2, <3>1, PoolDraws DEF TakesWord, Moves
  <2>3. CASE Usable(a) /\ RefillAndTake(a)
    BY <1>5, <2>1, <2>3 DEF Usable
  <2> QED BY <1>7, <2>2, <2>3 DEF Random
<1>8. CASE DrawAfterStir(a)
  <2>1. pc[a] = "draw" /\ stream[a].initialized = 1 /\ (todo[a] = RandomOp \/ todo[a] \in Sizes)
    BY <1>8 DEF DrawAfterStir, At, Pending
  <2>2. Live(a)
    BY <1>8, <2>1 DEF Orderly, DrawAfterStir, Live
  <2> QED BY <1>4, <1>5, <1>8, <2>1, <2>2 DEF DrawAfterStir
<1>9. CASE Close(a)
  BY <1>9 DEF Close, Wipes, Moves, Typed
<1> QED BY <1>1, <1>2, <1>3, <1>6, <1>7, <1>8, <1>9 DEF StepOf

(* A build that refuses no source reads one whenever it seeds.             *)
LEMMA AlwaysReads ==
    ASSUME NoFallback, Typed, Initialised, NEW a \in Agent, pc[a] = "seed"
    PROVE  Reads(a)
<1>1. source \in {"getrandom", "device"}
  BY SourcesAssumption DEF NoFallback, Typed
<1>2. CASE source = "device"
  BY <1>2 DEF Reads
<1>3. CASE source = "getrandom"
  BY <1>3, AgentParts DEF Initialised, ThreadReady, ProcessReady, Ready, Reads
<1> QED BY <1>1, <1>2, <1>3

LEMMA AfterRefresh ==
    ASSUME Typed, NEW a \in Agent, Refreshes(a)
    PROVE  /\ stream'[a].initialized = stream[a].initialized /\ stream'[a].left = 0
           /\ stream'[a].key = stream[a].key /\ stream'[a].pool = ZeroKey
BY DEF Refreshes, R

LEMMA AfterSeed ==
    ASSUME Typed, NEW a \in Agent, Seeds(a), Reads(a)
    PROVE  /\ stream'[a].initialized = 1 /\ stream'[a].left = stream[a].left
           /\ stream'[a].pool = stream[a].pool
           /\ stream'[a].key[1] = entropy + 1 /\ stream'[a].key[2] = <<>> /\ entropy' = entropy + 1
BY DEF Seeds, R

LEMMA AfterBuf ==
    ASSUME Typed, NEW a \in Agent, TakesBuf(a)
    PROVE  /\ stream'[a].initialized = stream[a].initialized /\ stream'[a].left = stream[a].left
           /\ stream'[a].pool = stream[a].pool
           /\ stream'[a].key[1] = stream[a].key[1]
           /\ Len(stream'[a].key[2]) = Len(stream[a].key[2]) + 1
<1>1. PICK size \in Nat :
          stream'[a] = R(stream[a].initialized, stream[a].left, Evolve(stream[a].key, size), stream[a].pool)
  BY DEF TakesBuf
<1>2. /\ stream'[a].initialized = stream[a].initialized /\ stream'[a].left = stream[a].left
      /\ stream'[a].pool = stream[a].pool /\ stream'[a].key = Evolve(stream[a].key, size)
  BY <1>1 DEF R
<1>3. /\ Evolve(stream[a].key, size)[1] = stream[a].key[1]
      /\ Len(Evolve(stream[a].key, size)[2]) = Len(stream[a].key[2]) + 1
  BY StreamFields, EvolveKey
<1> QED BY <1>2, <1>3

LEMMA AfterWord ==
    ASSUME Typed, NEW a \in Agent, TakesWord(a)
    PROVE  /\ stream'[a].initialized = stream[a].initialized /\ stream'[a].left = stream[a].left - 1
           /\ stream'[a].pool = stream[a].pool /\ stream'[a].key = stream[a].key
BY DEF TakesWord, R

LEMMA AfterRefill ==
    ASSUME Typed, NEW a \in Agent, Refills(a)
    PROVE  /\ stream'[a].initialized = stream[a].initialized /\ stream'[a].left = PoolWords - 1
           /\ stream'[a].pool = stream[a].key
           /\ stream'[a].key[1] = stream[a].key[1]
           /\ Len(stream'[a].key[2]) = Len(stream[a].key[2]) + 1
<1>1. /\ stream'[a].initialized = stream[a].initialized /\ stream'[a].left = PoolWords - 1
      /\ stream'[a].pool = stream[a].key /\ stream'[a].key = Evolve(stream[a].key, 0)
  BY DEF Refills, R
<1> QED BY <1>1, StreamFields, EvolveKey

LEMMA AfterWipe ==
    ASSUME Typed, NEW a \in Agent, Wipes(a)
    PROVE  /\ stream'[a].initialized = 0 /\ stream'[a].left = 0
           /\ stream'[a].key[1] = 0 /\ stream'[a].pool = ZeroKey
BY DEF Wipes, ZeroStream, ZeroKey

LEMMA ZeroStreamFields ==
    /\ ZeroStream.initialized = 0 /\ ZeroStream.left = 0 /\ ZeroStream.key[1] = 0
    /\ ZeroStream.pool = ZeroKey /\ ZeroKey[1] = 0
BY DEF ZeroStream, ZeroKey

LEMMA SeededStep ==
    ASSUME NoFallback, CarefulEverywhere, PlacesInv, AlwaysSeeded, [Next]_vars
    PROVE  AlwaysSeeded'
<1> SUFFICES ASSUME NEW b \in Agent PROVE stream'[b].initialized = 1 => stream'[b].key[1] # 0
  BY DEF AlwaysSeeded
<1>0. Typed /\ Orderly /\ Pending /\ Initialised
  BY DEF PlacesInv
<1> DEFINE Goal == stream'[b].initialized = 1 => stream'[b].key[1] # 0
<1>1. CASE UNCHANGED vars
  BY <1>1 DEF vars, AlwaysSeeded
<1>2. ASSUME NEW a \in Agent, StepOf(a), b # a
      PROVE  Goal
  BY <1>0, <1>2, Others DEF AlwaysSeeded
<1>3. ASSUME StepOf(b)
      PROVE  Goal
  <2>1. Moves(b)
    BY <1>0, <1>3, StepsMove
  <2>2. CASE Seeds(b)
    <3>1. Reads(b)
      BY <1>0, <2>2, AlwaysReads DEF Seeds
    <3> QED BY <1>0, <2>2, <3>1, AfterSeed DEF Typed
  <2>3. CASE Stays(b) \/ Refreshes(b) \/ TakesWord(b)
    BY <1>0, <2>3, AfterRefresh, AfterWord DEF Stays, AlwaysSeeded
  <2>4. CASE TakesBuf(b) \/ Refills(b)
    BY <1>0, <2>4, AfterBuf, AfterRefill DEF AlwaysSeeded
  <2>5. CASE Wipes(b)
    BY <1>0, <2>5, AfterWipe
  <2> QED BY <2>1, <2>2, <2>3, <2>4, <2>5 DEF Moves
<1>4. ASSUME NEW t \in Thread, Fork(t)
      PROVE  Goal
  BY <1>0, <1>4, ForkKeeps DEF AlwaysSeeded
<1> QED BY <1>1, <1>2, <1>3, <1>4, Steps

LEMMA OwnSeedsStep ==
    ASSUME NoFallback, CarefulEverywhere, PlacesInv, OwnSeeds, [Next]_vars
    PROVE  OwnSeeds'
<1>0. Typed /\ Orderly /\ Pending /\ Initialised
  BY DEF PlacesInv
<1> DEFINE K(a) == stream[a].key[1]
<1>k. \A a \in Agent : K(a) \in Nat
  BY <1>0, StreamFields DEF Key
<1>1. CASE UNCHANGED vars
  BY <1>1 DEF vars, OwnSeeds
<1>2. ASSUME NEW a \in Agent, StepOf(a)
      PROVE  OwnSeeds'
  <2>1. Moves(a)
    BY <1>0, <1>2, StepsMove
  <2>2. \A b \in Agent : b # a => stream'[b] = stream[b]
    BY <1>0, <1>2, Others
  <2>3. entropy \in Nat /\ entropy' >= entropy /\ entropy' \in Nat
    BY <1>0, <1>2, ProcessesLast, TypedStep, Steps DEF Typed
  <2>4. CASE Seeds(a)
    <3>1. Reads(a)
      BY <1>0, <2>4, AlwaysReads DEF Seeds
    <3>2. stream'[a].key[1] = entropy + 1 /\ entropy' = entropy + 1 /\ stirred' = stirred \cup {a[1]}
      BY <1>0, <2>4, <3>1, AfterSeed DEF Seeds
    <3>3. \A b \in Agent : stream'[b].key[1] <= entropy'
      BY <1>k, <2>2, <2>3, <3>2 DEF OwnSeeds
    <3>4. ASSUME NEW b \in Agent, NEW c \in Agent, b # c, b[1] \in stirred', c[1] \in stirred',
                 stream'[b].key[1] # 0
          PROVE  stream'[b].key[1] # stream'[c].key[1]
      <4>1. CASE b = a
        BY <1>k, <2>2, <2>3, <3>2, <3>4, <4>1 DEF OwnSeeds
      <4>2. CASE c = a
        BY <1>k, <2>2, <2>3, <3>2, <3>4, <4>2 DEF OwnSeeds
      <4>3. CASE b # a /\ c # a /\ b[1] \in stirred /\ c[1] \in stirred
        BY <2>2, <3>4, <4>3 DEF OwnSeeds
      <4>4. ASSUME NEW d \in {b, c}, d # a, d[1] \notin stirred
            PROVE  stream'[d].key[1] = 0
        <5>1. d[1] = a[1] /\ d[2] # a[2] /\ a[2] = MainThread
          <6>1. d[1] = a[1]
            BY <3>2, <3>4, <4>4
          <6>2. d[2] # a[2]
            BY <4>4, <6>1, AgentParts
          <6>3. pc[a] # "idle" /\ a[1] \notin stirred
            BY <2>4, <4>4, <6>1 DEF Seeds
          <6>4. a[2] = MainThread
            BY <1>0, <6>3 DEF Orderly
          <6> QED BY <6>1, <6>2, <6>4
        <5>2. stream[d] = ZeroStream
          BY <1>0, <4>4, <5>1 DEF Orderly
        <5> QED BY <2>2, <4>4, <5>2, ZeroStreamFields
      <4>5. CASE b # a /\ c # a /\ b[1] \notin stirred
        BY <3>4, <4>4, <4>5
      <4>6. CASE b # a /\ c # a /\ c[1] \notin stirred
        BY <3>4, <4>4, <4>6
      <4> QED BY <4>1, <4>2, <4>3, <4>5, <4>6
    <3> QED BY <3>3, <3>4 DEF OwnSeeds
  <2>5. ASSUME stirred' = stirred, stream'[a].key[1] = stream[a].key[1] \/ stream'[a].key[1] = 0
        PROVE  OwnSeeds'
    <3>1. \A b \in Agent : stream'[b].key[1] = stream[b].key[1] \/ stream'[b].key[1] = 0
      BY <2>2, <2>5
    <3>2. \A b \in Agent : stream'[b].key[1] <= entropy'
      BY <1>k, <2>3, <3>1 DEF OwnSeeds
    <3>3. ASSUME NEW b \in Agent, NEW c \in Agent, b # c, b[1] \in stirred', c[1] \in stirred',
                 stream'[b].key[1] # 0
          PROVE  stream'[b].key[1] # stream'[c].key[1]
      BY <2>5, <3>1, <3>3 DEF OwnSeeds
    <3> QED BY <3>2, <3>3 DEF OwnSeeds
  <2>6. CASE Stays(a)
    BY <2>5, <2>6 DEF Stays
  <2>7. CASE Refreshes(a)
    BY <1>0, <2>5, <2>7, AfterRefresh DEF Refreshes
  <2>8. CASE TakesBuf(a)
    BY <1>0, <2>5, <2>8, AfterBuf DEF TakesBuf, Live
  <2>9. CASE TakesWord(a)
    BY <1>0, <2>5, <2>9, AfterWord DEF TakesWord, Live
  <2>10. CASE Refills(a)
    BY <1>0, <2>5, <2>10, AfterRefill DEF Refills, Live
  <2>11. CASE Wipes(a)
    BY <1>0, <2>5, <2>11, AfterWipe DEF Wipes
  <2> QED BY <2>1, <2>4, <2>6, <2>7, <2>8, <2>9, <2>10, <2>11 DEF Moves
<1>3. ASSUME NEW t \in Thread, Fork(t)
      PROVE  OwnSeeds'
  <2>1. /\ entropy' = entropy /\ stirred' = stirred /\ "child" \notin stirred
        /\ \A b \in Agent : b # <<"child", MainThread>> => stream'[b] = stream[b]
        /\ stream'[<<"child", MainThread>>] = stream[<<"parent", t>>]
        /\ <<"parent", t>> \in Agent
    BY <1>0, <1>3, ForkKeeps
  <2>2. \A b \in Agent : stream'[b].key[1] <= entropy'
    BY <2>1 DEF OwnSeeds
  <2>3. \A b \in Agent : b[1] \in stirred => b # <<"child", MainThread>>
    BY <2>1
  <2> QED BY <2>1, <2>2, <2>3 DEF OwnSeeds
<1> QED BY <1>1, <1>2, <1>3, Steps

LEMMA KeyParts ==
    ASSUME Typed, NEW a \in Agent
    PROVE  /\ stream[a].key[1] \in Nat /\ Len(stream[a].key[2]) \in Nat
           /\ stream[a].pool[1] \in Nat /\ Len(stream[a].pool[2]) \in Nat
           /\ stream[a].left \in Nat
BY StreamFields DEF Key

LEMMA PoolsStep ==
    ASSUME NoFallback, CarefulEverywhere, PlacesInv, AlwaysSeeded, PoolsAreOlder, [Next]_vars
    PROVE  PoolsAreOlder'
<1> DEFINE Older(s) == s.left > 0 => /\ s.pool[1] = s.key[1] /\ s.pool[1] # 0
                                     /\ Len(s.pool[2]) < Len(s.key[2])
<1> SUFFICES ASSUME NEW b \in Agent PROVE Older(stream'[b])
  BY DEF PoolsAreOlder
<1>0. Typed /\ Orderly /\ Pending /\ Initialised /\ (\A c \in Agent : Older(stream[c]))
  BY DEF PlacesInv, PoolsAreOlder
<1>1. CASE UNCHANGED vars
  BY <1>0, <1>1 DEF vars
<1>2. ASSUME NEW a \in Agent, StepOf(a), b # a
      PROVE  Older(stream'[b])
  <2>1. stream'[b] = stream[b]
    BY <1>0, <1>2, Others
  <2> QED BY <1>0, <2>1
<1>3. ASSUME StepOf(b)
      PROVE  Older(stream'[b])
  <2>1. Moves(b)
    BY <1>0, <1>3, StepsMove
  <2>2. Older(stream[b])
    BY <1>0
  <2>3. /\ stream[b].key[1] \in Nat /\ Len(stream[b].key[2]) \in Nat
        /\ Len(stream[b].pool[2]) \in Nat /\ stream[b].left \in Nat
    BY <1>0, KeyParts
  <2>4. CASE Seeds(b)
    <3>1. stream[b].left = 0
      BY <1>0, <2>4 DEF Seeds, Pending
    <3>2. stream'[b].left = 0
      BY <2>4, <3>1 DEF Seeds, R
    <3> QED BY <3>2
  <2>5. CASE Stays(b)
    BY <2>2, <2>5 DEF Stays
  <2>6. CASE Refreshes(b)
    <3>1. stream'[b].left = 0
      BY <1>0, <2>6, AfterRefresh
    <3> QED BY <3>1
  <2>7. CASE TakesBuf(b)
    <3>1. /\ stream'[b].left = stream[b].left /\ stream'[b].pool = stream[b].pool
          /\ stream'[b].key[1] = stream[b].key[1]
          /\ Len(stream'[b].key[2]) = Len(stream[b].key[2]) + 1
      BY <1>0, <2>7, AfterBuf
    <3> QED BY <2>2, <2>3, <3>1
  <2>8. CASE TakesWord(b)
    <3>1. /\ stream'[b].left = stream[b].left - 1 /\ stream'[b].pool = stream[b].pool
          /\ stream'[b].key = stream[b].key
      BY <1>0, <2>8, AfterWord
    <3> QED BY <2>2, <2>3, <3>1
  <2>9. CASE Refills(b)
    <3>1. /\ stream'[b].pool = stream[b].key
          /\ stream'[b].key[1] = stream[b].key[1]
          /\ Len(stream'[b].key[2]) = Len(stream[b].key[2]) + 1
      BY <1>0, <2>9, AfterRefill
    <3>2. stream[b].key[1] # 0
      BY <2>9 DEF Refills, AlwaysSeeded
    <3>3. stream'[b].pool[1] = stream'[b].key[1] /\ stream'[b].pool[1] # 0
      BY <3>1, <3>2
    <3>4. Len(stream'[b].pool[2]) < Len(stream'[b].key[2])
      <4>1. PICK n \in Nat : n = Len(stream[b].key[2])
        BY <2>3
      <4>2. Len(stream'[b].pool[2]) = n
        BY <3>1, <4>1
      <4>3. Len(stream'[b].key[2]) = n + 1
        BY <3>1, <4>1
      <4>4. n < n + 1
        OBVIOUS
      <4> QED BY ONLY <4>2, <4>3, <4>4
    <3> QED BY <3>3, <3>4
  <2>10. CASE Wipes(b)
    <3>1. stream'[b].left = 0
      BY <1>0, <2>10, AfterWipe
    <3> QED BY <3>1
  <2> QED BY <2>1, <2>4, <2>5, <2>6, <2>7, <2>8, <2>9, <2>10 DEF Moves
<1>4. ASSUME NEW t \in Thread, Fork(t)
      PROVE  Older(stream'[b])
  <2>1. stream'[b] = stream[b] \/ stream'[b] = stream[<<"parent", t>>]
    BY <1>0, <1>4, ForkKeeps
  <2>2. <<"parent", t>> \in Agent
    BY <1>0, <1>4, ForkKeeps
  <2> QED BY <1>0, <2>1, <2>2
<1> QED BY <1>1, <1>2, <1>3, <1>4, Steps

(* The words a draw returns could be drawn before it, and cannot after it. *)
Drawing(a, k, from, to) ==
    /\ k \in Key /\ from \in Nat /\ to \in Nat /\ from <= to
    /\ Draws(a, k, from, to) /\ Live(a)
    /\ k[1] = stream[a].key[1] /\ k[1] # 0
    /\ \A n \in Nat : from < n /\ n <= to =>
          ~ Past(<<k, n>>, stream[a]) /\ Past(<<k, n>>, stream'[a])

LEMMA DrawsAreDrawing ==
    ASSUME DrawInv, NEW a \in Agent, TakesBuf(a) \/ TakesWord(a) \/ Refills(a)
    PROVE  \E k, from, to : Drawing(a, k, from, to)
<1>0. /\ Typed /\ AlwaysSeeded /\ PoolsAreOlder
  BY DEF DrawInv, PlacesInv
<1> DEFINE K == stream[a].key
           P == stream[a].pool
           l == stream[a].left
           X == stream'[a]
<1>1. K \in Key /\ P \in Key /\ l \in Nat /\ K[1] \in Nat /\ Len(K[2]) \in Nat /\ Len(P[2]) \in Nat
  BY <1>0, KeyParts, StreamFields
<1>2. l > 0 => P[1] = K[1] /\ P[1] # 0 /\ Len(P[2]) < Len(K[2])
  BY <1>0 DEF PoolsAreOlder
<1>3. PoolWords \in Nat /\ PoolWords > 0
  BY SizesAreNatural
<1>4. CASE TakesBuf(a)
  <2>1. PICK size \in Nat : Draws(a, K, 0, size)
    BY <1>4 DEF TakesBuf
  <2>2. K[1] # 0 /\ Live(a)
    BY <1>0, <1>4 DEF TakesBuf, AlwaysSeeded
  <2>3. X.left = l /\ X.pool = P /\ X.key[1] = K[1] /\ Len(X.key[2]) = Len(K[2]) + 1
    BY <1>0, <1>4, AfterBuf
  <2>4. stream[a].key = K /\ stream'[a] = X
    OBVIOUS
  <2> HIDE DEF K, P, l, X
  <2>5. ASSUME NEW n \in Nat, 0 < n
        PROVE  ~ Past(<<K, n>>, stream[a]) /\ Past(<<K, n>>, X)
    <3>1. ~ Past(<<K, n>>, stream[a])
      BY <1>1, <2>4 DEF Past
    <3>2. Past(<<K, n>>, X)
      BY <1>1, <1>2, <2>3, <2>5 DEF Past
    <3> QED BY <3>1, <3>2
  <2>6. Drawing(a, K, 0, size)
    BY <1>1, <2>1, <2>2, <2>4, <2>5 DEF Drawing
  <2> QED BY <2>6
<1>5. CASE TakesWord(a)
  <2>1. Draws(a, P, l - 1, l) /\ Live(a) /\ l > 0
    BY <1>5 DEF TakesWord
  <2>2. X.left = l - 1 /\ X.pool = P /\ X.key = K
    BY <1>0, <1>5, AfterWord
  <2>3. stream[a].key = K /\ stream'[a] = X /\ stream[a].pool = P /\ stream[a].left = l
    OBVIOUS
  <2> DEFINE m == l - 1
  <2>4. m \in Nat /\ m <= l /\ \A n \in Nat : m < n /\ n <= l => n = l
    BY <1>1, <2>1
  <2> HIDE DEF K, P, l, X
  <2>5. ~ Past(<<P, l>>, stream[a])
    BY <1>1, <2>3 DEF Past
  <2>6. Past(<<P, l>>, X)
    BY <1>1, <1>2, <2>1, <2>2 DEF Past
  <2>7. Drawing(a, P, m, l)
    BY <1>1, <1>2, <2>1, <2>3, <2>4, <2>5, <2>6 DEF Drawing
  <2> QED BY <2>7
<1>6. CASE Refills(a)
  <2>1. Draws(a, K, PoolWords - 1, PoolWords)
    BY <1>6 DEF Refills
  <2>2. K[1] # 0 /\ Live(a)
    BY <1>0, <1>6 DEF Refills, AlwaysSeeded
  <2>3. X.left = PoolWords - 1 /\ X.pool = K /\ X.key[1] = K[1] /\ Len(X.key[2]) = Len(K[2]) + 1
    BY <1>0, <1>6, AfterRefill
  <2>4. stream[a].key = K /\ stream'[a] = X
    OBVIOUS
  <2> DEFINE m == PoolWords - 1
  <2>5. m \in Nat /\ m <= PoolWords /\ \A n \in Nat : m < n /\ n <= PoolWords => n = PoolWords
    BY <1>3
  <2> HIDE DEF K, P, l, X
  <2>6. ~ Past(<<K, PoolWords>>, stream[a])
    BY <1>1, <2>4 DEF Past
  <2>7. Past(<<K, PoolWords>>, X)
    BY <1>1, <1>3, <2>3 DEF Past
  <2>8. Drawing(a, K, m, PoolWords)
    BY <1>1, <1>3, <2>1, <2>2, <2>4, <2>5, <2>6, <2>7 DEF Drawing
  <2> QED BY <2>8
<1> QED BY <1>4, <1>5, <1>6

LEMMA DrawnWords ==
    ASSUME Typed, NEW a \in Agent, NEW i \in DOMAIN drawn[a]
    PROVE  /\ drawn[a][i] \in Word /\ drawn[a][i][1] \in Key /\ drawn[a][i][2] \in Nat
           /\ drawn[a][i][1][1] \in Nat /\ Len(drawn[a][i][1][2]) \in Nat
<1>1. drawn[a][i] \in Word
  BY DEF Typed
<1>2. drawn[a][i][1] \in Key /\ drawn[a][i][2] \in Nat
  BY <1>1 DEF Word
<1> QED BY <1>1, <1>2 DEF Key

LEMMA PastOfZero ==
    ASSUME NEW w \in Word, w[1][1] # 0
    PROVE  Past(w, ZeroStream)
BY ZeroStreamFields DEF Past

(* What is past for a stream stays so when the stream moves.               *)
LEMMA PastStays ==
    ASSUME NoFallback, DrawInv, NEW a \in Agent, Moves(a), a[1] \in stirred \/ Seeds(a),
           NEW w \in Word, w[1] \in Key, w[2] \in Nat, w[2] > 0, w[1][1] \in 1 .. entropy,
           a[1] \in stirred => Past(w, stream[a])
    PROVE  Past(w, stream'[a])
<1>0. Typed /\ Pending /\ Initialised
  BY DEF DrawInv, PlacesInv
<1> DEFINE K == stream[a].key
           P == stream[a].pool
           l == stream[a].left
           X == stream'[a]
<1>1. K \in Key /\ P \in Key /\ l \in Nat /\ K[1] \in Nat /\ Len(K[2]) \in Nat /\ Len(w[1][2]) \in Nat
      /\ entropy \in Nat /\ w[1][1] # 0 /\ w[1][1] # entropy + 1
  <2>1. stream[a] \in StreamType /\ entropy \in Nat
    BY <1>0 DEF Typed
  <2>2. K \in Key /\ P \in Key /\ l \in Nat
    BY <2>1 DEF StreamType
  <2>3. K[1] \in Nat /\ Len(K[2]) \in Nat /\ Len(w[1][2]) \in Nat
    BY <2>2 DEF Key
  <2>4. w[1][1] # 0 /\ w[1][1] # entropy + 1
    BY <2>1
  <2> QED BY <2>1, <2>2, <2>3, <2>4
<1>2. w[1] # ZeroKey
  BY <1>1, ZeroStreamFields
<1>3. a[1] \in stirred => /\ w[1][1] = K[1] => Len(w[1][2]) < Len(K[2])
                          /\ w[1] = P => w[2] > l
  BY DEF Past
<1>4. CASE Seeds(a)
  <2>1. l = 0 /\ Reads(a)
    BY <1>0, <1>4, AlwaysReads DEF Seeds, Pending
  <2>2. X.left = 0 /\ X.key[1] = entropy + 1
    BY <1>0, <1>4, <2>1, AfterSeed
  <2> QED BY <1>1, <2>2 DEF Past
<1>5. CASE Stays(a) /\ a[1] \in stirred
  BY <1>5 DEF Stays
<1>6. CASE Refreshes(a) /\ a[1] \in stirred
  <2>1. X.key = K /\ X.pool = ZeroKey
    BY <1>0, <1>6, AfterRefresh
  <2> QED BY <1>2, <1>3, <1>6, <2>1 DEF Past
<1>7. CASE TakesBuf(a) /\ a[1] \in stirred
  <2>1. X.left = l /\ X.pool = P /\ X.key[1] = K[1] /\ Len(X.key[2]) = Len(K[2]) + 1
    BY <1>0, <1>7, AfterBuf
  <2> HIDE DEF K, P, l, X
  <2>2. Past(w, X)
    BY <1>1, <1>3, <1>7, <2>1 DEF Past
  <2> QED BY <2>2 DEF X
<1>8. CASE TakesWord(a) /\ a[1] \in stirred
  <2>1. X.left = l - 1 /\ X.pool = P /\ X.key = K
    BY <1>0, <1>8, AfterWord
  <2> HIDE DEF K, P, l, X
  <2>2. Past(w, X)
    BY <1>1, <1>3, <1>8, <2>1 DEF Past
  <2> QED BY <2>2 DEF X
<1>9. CASE Refills(a) /\ a[1] \in stirred
  <2>1. X.left = PoolWords - 1 /\ X.pool = K /\ X.key[1] = K[1] /\ Len(X.key[2]) = Len(K[2]) + 1
    BY <1>0, <1>9, AfterRefill
  <2> HIDE DEF K, P, l, X
  <2>2. Past(w, X)
    BY <1>1, <1>3, <1>9, <2>1 DEF Past
  <2> QED BY <2>2 DEF X
<1>10. CASE Wipes(a) /\ a[1] \in stirred
  <2>1. X = ZeroStream
    BY <1>10 DEF Wipes
  <2> QED BY <1>1, <2>1, PastOfZero
<1> QED BY <1>4, <1>5, <1>6, <1>7, <1>8, <1>9, <1>10 DEF Moves, Seeds

(* A step draws at most for the thread that takes it.                      *)
LEMMA DrawsOrNot ==
    ASSUME NoFallback, CarefulEverywhere, DrawInv, NEW a \in Agent, StepOf(a)
    PROVE  \/ \A b \in Agent : drawn'[b] = drawn[b]
           \/ \E k, from, to : Drawing(a, k, from, to)
<1>0. Typed /\ Orderly /\ Pending
  BY DEF DrawInv, PlacesInv
<1>1. Moves(a)
  BY <1>0, StepsMove
<1>2. \A b \in Agent : b # a => drawn'[b] = drawn[b]
  BY <1>0, Others
<1> QED BY <1>1, <1>2, DrawsAreDrawing DEF Moves, Stays, Refreshes, Seeds, Wipes

(* A word of one live stream is past for all the others.                   *)
LEMMA PastElsewhere ==
    ASSUME DrawInv, NEW a \in Agent, NEW b \in Agent, a # b, a[1] \in stirred, b[1] \in stirred,
           NEW w \in Word, w[1][1] = stream[a].key[1], w[1][1] # 0, w[2] > 0, w[2] \in Nat
    PROVE  Past(w, stream[b])
<1>1. Typed /\ OwnSeeds /\ PoolsAreOlder
  BY DEF DrawInv, PlacesInv
<1>2. w[1][1] # stream[b].key[1]
  BY <1>1 DEF OwnSeeds
<1>3. stream[b].left \in Nat
  BY <1>1, KeyParts
<1>4. CASE stream[b].left = 0
  BY <1>2, <1>4 DEF Past
<1>5. CASE stream[b].left > 0
  BY <1>1, <1>2, <1>5 DEF Past, PoolsAreOlder
<1> QED BY <1>3, <1>4, <1>5

PastWord(w) ==
    /\ w[1][1] \in 1 .. entropy
    /\ w[2] > 0
    /\ \A b \in Agent : b[1] \in stirred => Past(w, stream[b])

PastWordNext(w) ==
    /\ w[1][1] \in 1 .. entropy'
    /\ w[2] > 0
    /\ \A b \in Agent : b[1] \in stirred' => Past(w, stream'[b])

LEMMA PastStep ==
    ASSUME NoFallback, CarefulEverywhere, DrawInv, WordsArePast, [Next]_vars
    PROVE  WordsArePast'
<1>0. Typed /\ Orderly /\ Pending /\ Initialised /\ OwnSeeds
  BY DEF DrawInv, PlacesInv
<1>w. \A a \in Agent : \A i \in DOMAIN drawn[a] : PastWord(drawn[a][i])
  BY DEF WordsArePast, PastWord
<1> SUFFICES ASSUME NEW c \in Agent, NEW i \in DOMAIN drawn'[c] PROVE PastWordNext(drawn'[c][i])
  BY DEF WordsArePast, PastWordNext
<1> DEFINE Goal == PastWordNext(drawn'[c][i])
<1>1. CASE UNCHANGED vars
  BY <1>1, <1>w DEF vars, PastWord, PastWordNext
<1>2. ASSUME NEW a \in Agent, StepOf(a)
      PROVE  Goal
  <2>1. Moves(a)
    BY <1>0, <1>2, StepsMove
  <2>2. \A b \in Agent : b # a => stream'[b] = stream[b]
    BY <1>0, <1>2, Others
  <2>3. entropy \in Nat /\ entropy' \in Nat /\ entropy' >= entropy /\ stirred \subseteq stirred'
    BY <1>0, <1>2, ProcessesLast, TypedStep, Steps DEF Typed
  <2>4. ASSUME NEW b \in Agent, b # a, b[1] \in stirred', b[1] \notin stirred
        PROVE  stream[b] = ZeroStream
    <3>1. Seed(a) /\ a[2] = MainThread /\ b[1] = a[1]
      BY <1>0, <1>2, <2>4, ProcessesLast
    <3>2. b[2] # MainThread
      BY <2>4, <3>1, AgentParts
    <3> QED BY <1>0, <2>4, <3>2 DEF Orderly
  <2>5. a[1] \in stirred' => a[1] \in stirred \/ Seeds(a)
    BY <1>0, <2>1 DEF Moves, Stays, Refreshes, TakesBuf, TakesWord, Refills, Live, Wipes
  (* A word that was there. *)
  <2>6. ASSUME i \in DOMAIN drawn[c], drawn'[c][i] = drawn[c][i]
        PROVE  Goal
    <3> DEFINE w == drawn[c][i]
    <3>1. w \in Word /\ w[1] \in Key /\ w[2] \in Nat /\ PastWord(w)
      BY <1>0, <1>w, <2>6, DrawnWords
    <3> HIDE DEF w
    <3>2. w[1][1] \in 1 .. entropy /\ w[1][1] # 0 /\ w[2] > 0
      BY <2>3, <3>1 DEF PastWord
    <3>3. ASSUME NEW b \in Agent, b[1] \in stirred'
          PROVE  Past(w, stream'[b])
      <4>1. CASE b = a
        BY <2>1, <2>5, <3>1, <3>2, <3>3, <4>1, PastStays DEF PastWord
      <4>2. CASE b # a /\ b[1] \in stirred
        BY <2>2, <3>1, <4>2 DEF PastWord
      <4>3. CASE b # a /\ b[1] \notin stirred
        BY <2>2, <2>4, <3>1, <3>2, <3>3, <4>3, PastOfZero
      <4> QED BY <4>1, <4>2, <4>3
    <3>4. w[1][1] \in 1 .. entropy'
      BY <2>3, <3>2
    <3>5. PastWordNext(w)
      BY <3>2, <3>3, <3>4 DEF PastWordNext
    <3> QED BY <2>6, <3>5 DEF w
  (* A new word. *)
  <2>7. ASSUME NEW k, NEW from, NEW to, Drawing(a, k, from, to), c = a,
               i - Len(drawn[a]) \in 1 .. (to - from),
               drawn'[c][i] = <<k, from + (i - Len(drawn[a]))>>
        PROVE  Goal
    <3> DEFINE n == from + (i - Len(drawn[a]))
               w == <<k, n>>
    <3>1. k \in Key /\ from \in Nat /\ to \in Nat /\ from <= to
      BY <2>7 DEF Drawing
    <3>2. n \in Nat /\ from < n /\ n <= to /\ n > 0
      BY <2>7, <3>1
    <3> HIDE DEF n
    <3>3. w \in Word /\ w[1] = k /\ w[2] = n
      BY <3>1, <3>2 DEF Word
    <3>4. /\ k[1] = stream[a].key[1] /\ k[1] # 0 /\ Live(a) /\ Past(w, stream'[a])
      BY <2>7, <3>2 DEF Drawing
    <3> HIDE DEF w
    <3>5. k[1] \in 1 .. entropy /\ entropy' = entropy /\ stirred' = stirred /\ a[1] \in stirred
      <4>1. k[1] \in Nat /\ k[1] <= entropy
        BY <1>0, <3>4, KeyParts DEF OwnSeeds
      <4> QED BY <2>3, <3>4, <4>1 DEF Live
    <3>6. ASSUME NEW b \in Agent, b[1] \in stirred'
          PROVE  Past(w, stream'[b])
      <4>1. CASE b = a
        BY <3>4, <4>1
      <4>2. CASE b # a
        <5>1. b[1] \in stirred /\ w[1][1] = stream[a].key[1] /\ w[1][1] # 0 /\ w[2] > 0 /\ w[2] \in Nat
          BY <3>2, <3>3, <3>4, <3>5, <3>6
        <5>2. Past(w, stream[b])
          BY <3>3, <3>5, <4>2, <5>1, PastElsewhere
        <5> QED BY <2>2, <4>2, <5>2
      <4> QED BY <4>1, <4>2
    <3>7. PastWordNext(w)
      BY <3>2, <3>3, <3>5, <3>6 DEF PastWordNext
    <3> QED BY <2>7, <3>7 DEF w, n
  <2>8. CASE \A b \in Agent : drawn'[b] = drawn[b]
    BY <2>6, <2>8
  <2>9. ASSUME NEW k, NEW from, NEW to, Drawing(a, k, from, to)
        PROVE  Goal
    <3>1. /\ k \in Key /\ from \in Nat /\ to \in Nat /\ from <= to /\ Draws(a, k, from, to)
      BY <2>9 DEF Drawing
    <3>2. \/ i \in DOMAIN drawn[c] /\ drawn'[c][i] = drawn[c][i]
          \/ /\ c = a /\ i - Len(drawn[a]) \in 1 .. (to - from)
             /\ drawn'[c][i] = <<k, from + (i - Len(drawn[a]))>>
      BY <1>0, <3>1, DrawnBefore
    <3> QED BY <2>6, <2>7, <2>9, <3>2
  <2> QED BY <1>2, <2>8, <2>9, DrawsOrNot
<1>3. ASSUME NEW t \in Thread, Fork(t)
      PROVE  Goal
  <2>1. /\ entropy' = entropy /\ stirred' = stirred /\ "child" \notin stirred /\ drawn' = drawn
        /\ \A b \in Agent : b # <<"child", MainThread>> => stream'[b] = stream[b]
    BY <1>0, <1>3, ForkKeeps
  <2>2. \A b \in Agent : b[1] \in stirred => b # <<"child", MainThread>>
    BY <2>1
  <2> QED BY <1>w, <2>1, <2>2 DEF PastWord, PastWordNext
<1> QED BY <1>1, <1>2, <1>3, Steps

-----------------------------------------------------------------------------
(* The outputs.                                                            *)

(* Two words at different places.                                          *)
Apart(a, i, b, j) == <<a, i>> # <<b, j>> => drawn[a][i] # drawn[b][j]
ApartNext(a, i, b, j) == <<a, i>> # <<b, j>> => drawn'[a][i] # drawn'[b][j]

(* A word that was drawn is not among those that a thread draws now.       *)
LEMMA OldAndNew ==
    ASSUME DrawInv, WordsArePast, NEW a \in Agent, NEW b \in Agent, NEW i \in DOMAIN drawn[b],
           NEW k, NEW from, NEW to, Drawing(a, k, from, to), NEW n \in 1 .. (to - from)
    PROVE  drawn[b][i] # <<k, from + n>>
<1>1. from \in Nat /\ to \in Nat /\ Live(a)
  BY DEF Drawing
<1>2. Past(drawn[b][i], stream[a])
  BY <1>1 DEF WordsArePast, Live
<1>3. from + n \in Nat /\ from < from + n /\ from + n <= to
  BY <1>1
<1>4. ~ Past(<<k, from + n>>, stream[a])
  BY <1>3 DEF Drawing
<1> QED BY <1>2, <1>4

LEMMA UniqueStep ==
    ASSUME NoFallback, CarefulEverywhere, DrawInv, WordsArePast, NeverRepeats, [Next]_vars
    PROVE  NeverRepeats'
<1>0. Typed
  BY DEF DrawInv, PlacesInv
<1>w. \A c, d \in Agent : \A i \in DOMAIN drawn[c], j \in DOMAIN drawn[d] : Apart(c, i, d, j)
  BY DEF NeverRepeats, Apart
<1> SUFFICES ASSUME NEW c \in Agent, NEW d \in Agent,
                    NEW i \in DOMAIN drawn'[c], NEW j \in DOMAIN drawn'[d]
             PROVE  ApartNext(c, i, d, j)
  BY DEF NeverRepeats, ApartNext
<1>1. CASE UNCHANGED vars
  BY <1>1, <1>w DEF vars, Apart, ApartNext
<1>2. ASSUME NEW a \in Agent, StepOf(a)
      PROVE  ApartNext(c, i, d, j)
  <2>1. CASE \A b \in Agent : drawn'[b] = drawn[b]
    BY <1>w, <2>1 DEF Apart, ApartNext
  <2>2. ASSUME NEW k, NEW from, NEW to, Drawing(a, k, from, to)
        PROVE  ApartNext(c, i, d, j)
    <3> DEFINE Old(e, n) == n \in DOMAIN drawn[e] /\ drawn'[e][n] = drawn[e][n]
               New(e, n) == /\ e = a /\ n - Len(drawn[a]) \in 1 .. (to - from)
                            /\ drawn'[e][n] = <<k, from + (n - Len(drawn[a]))>>
    <3>1. /\ k \in Key /\ from \in Nat /\ to \in Nat /\ from <= to /\ Draws(a, k, from, to)
      BY <2>2 DEF Drawing
    <3>2. (Old(c, i) \/ New(c, i)) /\ (Old(d, j) \/ New(d, j))
      BY <1>0, <3>1, DrawnBefore
    <3>3. CASE Old(c, i) /\ Old(d, j)
      BY <1>w, <3>3 DEF Apart, ApartNext
    <3>4. CASE Old(c, i) /\ New(d, j)
      <4>1. drawn[c][i] # <<k, from + (j - Len(drawn[a]))>>
        BY <2>2, <3>4, OldAndNew
      <4> QED BY <3>4, <4>1 DEF ApartNext
    <3>5. CASE New(c, i) /\ Old(d, j)
      <4>1. drawn[d][j] # <<k, from + (i - Len(drawn[a]))>>
        BY <2>2, <3>5, OldAndNew
      <4> QED BY <3>5, <4>1 DEF ApartNext
    <3>6. CASE New(c, i) /\ New(d, j)
      <4>1. drawn'[c] \in Seq(Word) /\ Len(drawn[a]) \in Nat
        <5>1. drawn'[c] \in Seq(Word) /\ drawn[a] \in Seq(Word)
          BY <1>0, <3>1, DrawsTypes DEF Typed
        <5> QED BY <5>1
      <4>2. i \in Nat /\ j \in Nat
        BY <3>6, <4>1
      <4>3. i # j => from + (i - Len(drawn[a])) # from + (j - Len(drawn[a]))
        BY <3>1, <4>1, <4>2
      <4> QED BY <3>6, <4>3 DEF ApartNext
    <3> QED BY <3>2, <3>3, <3>4, <3>5, <3>6
  <2> QED BY <1>2, <2>1, <2>2, DrawsOrNot
<1>3. ASSUME NEW t \in Thread, Fork(t)
      PROVE  ApartNext(c, i, d, j)
  <2>1. drawn' = drawn
    BY <1>0, <1>3, ForkKeeps
  <2> QED BY <1>w, <2>1 DEF Apart, ApartNext
<1> QED BY <1>1, <1>2, <1>3, Steps

-----------------------------------------------------------------------------
(* The theorems.                                                           *)

LEMMA PlacesInitially == Init => PlacesInv
<1> SUFFICES ASSUME Init PROVE PlacesInv
  OBVIOUS
<1>1. Orderly
  BY AgentParts DEF Init, Orderly
<1>2. Pending
  BY DEF Init, Pending
<1>3. Initialised
  BY DEF Init, Initialised, ProcessReady, ThreadReady, ZeroGlobal
<1> QED BY <1>1, <1>2, <1>3, TypedInitially DEF PlacesInv

LEMMA PlacesStep == ASSUME CarefulEverywhere, PlacesInv, [Next]_vars PROVE PlacesInv'
<1>1. Typed /\ Orderly /\ Pending /\ Initialised
  BY DEF PlacesInv
<1>2. Typed'
  BY <1>1, TypedStep
<1>3. Orderly'
  BY <1>1, OrderlyStep
<1>4. Pending'
  BY <1>1, PendingStep
<1>5. Initialised'
  BY <1>1, InitialisedStep
<1> QED BY <1>2, <1>3, <1>4, <1>5 DEF PlacesInv

LEMMA OutputsInitially == Init => OutputInv
<1> SUFFICES ASSUME Init PROVE OutputInv
  OBVIOUS
<1>1. PlacesInv
  BY PlacesInitially
<1>2. \A a \in Agent : stream[a] = ZeroStream /\ drawn[a] = <<>>
  BY DEF Init
<1>3. entropy = 0 /\ \A a \in Agent : stream[a].left = 0 /\ stream[a].initialized = 0
                                      /\ stream[a].key[1] = 0
  BY <1>2 DEF Init, ZeroStream, ZeroKey
<1>4. AlwaysSeeded /\ PoolsAreOlder /\ OwnSeeds
  BY <1>3 DEF AlwaysSeeded, PoolsAreOlder, OwnSeeds
<1>5. WordsArePast /\ NeverRepeats
  BY <1>2 DEF WordsArePast, NeverRepeats
<1> QED BY <1>1, <1>4, <1>5 DEF OutputInv, DrawInv

LEMMA OutputsStep == ASSUME NoFallback, CarefulEverywhere, OutputInv, [Next]_vars PROVE OutputInv'
<1>1. DrawInv /\ WordsArePast /\ NeverRepeats
  BY DEF OutputInv
<1>2. PlacesInv /\ AlwaysSeeded /\ PoolsAreOlder /\ OwnSeeds
  BY <1>1 DEF DrawInv
<1>3. PlacesInv'
  BY <1>2, PlacesStep
<1>4. AlwaysSeeded'
  BY <1>2, SeededStep
<1>5. PoolsAreOlder'
  BY <1>2, PoolsStep
<1>6. OwnSeeds'
  BY <1>2, OwnSeedsStep
<1>7. WordsArePast'
  BY <1>1, PastStep
<1>8. NeverRepeats'
  BY <1>1, UniqueStep
<1> QED BY <1>3, <1>4, <1>5, <1>6, <1>7, <1>8 DEF OutputInv, DrawInv

LEMMA OutputInvariant == ASSUME NoFallback, CarefulEverywhere PROVE Spec => []OutputInv
<1>1. OutputInv /\ [Next]_vars => OutputInv'
  BY OutputsStep
<1> QED BY <1>1, OutputsInitially, PTL DEF Spec

(* What a thread has drawn is past for its own stream, once its process    *)
(* has stirred; before that it has drawn nothing.                          *)
LEMMA PastIsForgotten == OutputInv => PastOutputsAreForgotten
<1> SUFFICES ASSUME OutputInv, NEW a \in Agent, NEW i \in DOMAIN drawn[a]
             PROVE  /\ drawn[a][i][1] # stream[a].key
                    /\ ~ (drawn[a][i][1] = stream[a].pool /\ drawn[a][i][2] <= stream[a].left)
  BY DEF PastOutputsAreForgotten
<1>1. Typed /\ Orderly /\ WordsArePast
  BY DEF OutputInv, DrawInv, PlacesInv
<1>2. a[1] \in stirred
  BY <1>1 DEF Orderly
<1>3. Past(drawn[a][i], stream[a])
  BY <1>1, <1>2 DEF WordsArePast
<1>4. drawn[a][i][2] \in Nat /\ Len(drawn[a][i][1][2]) \in Nat /\ stream[a].left \in Nat
  BY <1>1, DrawnWords, KeyParts
<1> QED BY <1>3, <1>4 DEF Past

(* No word of keystream is returned twice: not to one thread, not to two,  *)
(* not to a process and its forked child, however their stir()s, requests, *)
(* forks and close()s interleave.                                          *)
THEOREM Uniqueness == ASSUME CarefulEverywhere, NoFallback PROVE Spec => []OutputsNeverRepeat
<1>1. OutputInv => OutputsNeverRepeat
  BY DEF OutputInv, NeverRepeats, OutputsNeverRepeat
<1> QED BY <1>1, OutputInvariant, PTL

(* A thread that may draw has a seed from the kernel: not even a close()   *)
(* in another thread makes stir() mark a stream that it did not key.       *)
THEOREM Seeded == ASSUME CarefulEverywhere, NoFallback PROVE Spec => []InitializedMeansSeeded
<1>1. OutputInv => InitializedMeansSeeded
  BY DEF OutputInv, DrawInv, AlwaysSeeded, InitializedMeansSeeded
<1> QED BY <1>1, OutputInvariant, PTL

(* A look at the memory of a thread does not show the words it has         *)
(* returned: random() and buf() move on from what they use.                *)
THEOREM Backtracking == ASSUME CarefulEverywhere, NoFallback PROVE Spec => []PastOutputsAreForgotten
<1> QED BY PastIsForgotten, OutputInvariant, PTL

(* A process ends in sodium_misuse() only where the kernel gave it nothing *)
(* or the device was closed under another thread: never because stir() or  *)
(* close() lost track of what init() found, whatever the build.            *)
THEOREM NoFalseAbort == ASSUME CarefulEverywhere PROVE Spec => []AbortsOnlyAfterClose
<1> DEFINE Inv == PlacesInv /\ AbortsOnlyAfterClose
<1>1. Init => Inv
  BY PlacesInitially DEF Init, AbortsOnlyAfterClose
<1>2. Inv /\ [Next]_vars => Inv'
  BY PlacesStep, AbortsStep DEF PlacesInv
<1>3. Inv => AbortsOnlyAfterClose
  OBVIOUS
<1> QED BY <1>1, <1>2, <1>3, PTL DEF Spec
=============================================================================
