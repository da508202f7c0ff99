--------------------------- MODULE InternalRandom ---------------------------
(***************************************************************************)
(* randombytes/internal/randombytes_internal_random.c: a generator with    *)
(* one ChaCha20 stream per thread (TLS) and one record per process         *)
(* (`global'), used by the threads of a process and of its forked child.   *)
(*                                                                         *)
(* A key is <<seed, history>>: the entropy it comes from and what has      *)
(* been done to it since, which fixes the nonce too.  Seed 0 is the        *)
(* all-zero key of a stream that was never seeded.  A word of output is    *)
(* <<key, i>>, the i-th word of the keystream of that key.                 *)
(***************************************************************************)
EXTENDS Integers, Sequences, FiniteSets

CONSTANTS
    Thread,      \* the threads of one process; MainThread is one of them
    MainThread,
    Sources,     \* the builds and kernels considered, among
                 \* "getrandom" (or getentropy), compiled in and there,
                 \* "fallback", compiled in but refused by init()'s kernel,
                 \* "device", /dev/urandom only
    Sizes,       \* sizes of buf() requests, in words
    PoolWords,   \* words of rnd32 handed out per refill, (512 - 32) / 4
    Careful,     \* the processes whose main thread stirs before anything
                 \* else happens there: as sodium_init() does, or after fork()
    MaxOps       \* bound: MaxOps[a] operations of thread a

Proc  == {"parent", "child"}
Agent == Proc \X Thread

ASSUME ThreadAssumption == MainThread \in Thread
ASSUME SourcesAssumption == Sources \subseteq {"getrandom", "fallback", "device"}
ASSUME PoolAssumption == PoolWords \in Nat \ {0} /\ Sizes \subseteq 1 .. PoolWords
ASSUME CarefulAssumption == Careful \subseteq Proc
ASSUME MaxOpsAssumption == MaxOps \in [Agent -> Nat]

VARIABLES
    source,    \* the build and kernel of this behaviour
    global,    \* global[p]: the record of process p
    stream,    \* stream[a]: the TLS record of a thread
    pc,        \* where a thread is
    todo,      \* what it does after stirring: Nothing, RandomOp or a size for buf()
    drawn,     \* drawn[a]: the words returned to it, in order
    entropy,   \* how many seeds the kernel has given
    ops,       \* operations begun, per thread
    alive,     \* the processes that exist
    stirred,   \* the processes whose main thread has stirred
    closed,    \* the processes where close() was called
    misused,   \* the processes ended by sodium_misuse()
    starved,   \* the processes that asked the kernel for entropy in vain
    overlapped \* the processes that are not Careful where a stir() found the
               \* source unknown while another was finding it, and their child

ghosts == <<stirred, closed, starved, overlapped>>
vars   == <<source, global, stream, pc, todo, drawn, entropy, ops, alive, misused, ghosts>>

Nothing  == -1      \* after a call to stir() alone
RandomOp == 0       \* after random(); a positive number stands for buf()

ZeroKey    == <<0, <<>>>>
ZeroStream == [initialized |-> 0, left |-> 0, key |-> ZeroKey, pool |-> ZeroKey]
ZeroGlobal == [initialized |-> 0, fd |-> "none", available |-> 0, pid |-> "none"]

Init ==
    /\ source \in Sources
    /\ global = [p \in Proc |-> ZeroGlobal]
    /\ stream = [a \in Agent |-> ZeroStream]
    /\ pc = [a \in Agent |-> "idle"]
    /\ todo = [a \in Agent |-> Nothing]
    /\ drawn = [a \in Agent |-> <<>>]
    /\ entropy = 0
    /\ ops = [a \in Agent |-> 0]
    /\ alive = {"parent"} /\ misused = {}
    /\ stirred = {} /\ closed = {} /\ starved = {} /\ overlapped = {}

Running(a)     == a[1] \in alive \ misused
At(a, label)   == Running(a) /\ pc[a] = label
Goto(a, label) == pc' = [pc EXCEPT ![a] = label]

(* A careful application has the main thread of a process stir before      *)
(* anything else happens there.                                            *)
MayStart(a, main) ==
    /\ At(a, "idle") /\ ops[a] < MaxOps[a]
    /\ a[1] \in Careful \ stirred => main /\ a[2] = MainThread
    /\ ops' = [ops EXCEPT ![a] = @ + 1]

Misuse(a) == misused' = misused \cup {a[1]}

(* The kernel gives nothing: sodium_misuse().                              *)
Starves(a) == Misuse(a) /\ starved' = starved \cup {a[1]}

-----------------------------------------------------------------------------
(* stir(): reset the pool, initialise the process once, seed this stream.  *)

Probing(p) == \E t \in Thread : pc[<<p, t>>] \in {"init", "probe", "mark"}

BeginStir(a, then) ==
    /\ Goto(a, IF global[a[1]].initialized = 0 THEN "init" ELSE "pid")
    /\ todo' = [todo EXCEPT ![a] = then]
    /\ overlapped' = IF global[a[1]].initialized = 0 /\ Probing(a[1]) /\ a[1] \notin Careful
                     THEN overlapped \cup {a[1]} ELSE overlapped

Stir(a) ==
    /\ MayStart(a, TRUE)
    /\ stream' = [stream EXCEPT ![a].left = 0, ![a].pool = ZeroKey]
    /\ BeginStir(a, Nothing)
    /\ UNCHANGED <<source, global, drawn, entropy, alive, misused, stirred, closed, starved>>

(* Mutant: the process is marked before its source is known.               *)
InitClearsMarked(a) ==
    /\ At(a, "init")
    /\ global' = [global EXCEPT ![a[1]].available = 0, ![a[1]].initialized = 1]
    /\ Goto(a, "probe")
    /\ UNCHANGED <<source, stream, todo, drawn, entropy, ops, alive, misused, ghosts>>

(* init() forgets what is available before it asks.                        *)
InitClears(a) ==
    /\ At(a, "init")
    /\ global' = [global EXCEPT ![a[1]].available = 0]
    /\ Goto(a, "probe")
    /\ UNCHANGED <<source, stream, todo, drawn, entropy, ops, alive, misused, ghosts>>

InitProbes(a) ==
    /\ At(a, "probe")
    /\ global' = [global EXCEPT ![a[1]] =
                    IF source = "getrandom" THEN [@ EXCEPT !.available = 1]
                                            ELSE [@ EXCEPT !.fd = "open"]]
    /\ Goto(a, "mark")
    /\ UNCHANGED <<source, stream, todo, drawn, entropy, ops, alive, misused, ghosts>>

(* There is no device, or it cannot be opened.                             *)
InitFindsNothing(a) ==
    /\ At(a, "probe") /\ source # "getrandom"
    /\ Starves(a)
    /\ UNCHANGED <<source, global, stream, pc, todo, drawn, entropy, ops, alive, stirred, closed,
                   overlapped>>

Mark(a) ==
    /\ At(a, "mark")
    /\ global' = [global EXCEPT ![a[1]].initialized = 1]
    /\ Goto(a, "pid")
    /\ UNCHANGED <<source, stream, todo, drawn, entropy, ops, alive, misused, ghosts>>

(* Mutant: the process is not recorded.                                    *)
SetPidForgets(a) ==
    /\ At(a, "pid")
    /\ Goto(a, "seed")
    /\ UNCHANGED <<source, global, stream, todo, drawn, entropy, ops, alive, misused, ghosts>>

SetPid(a) ==
    /\ At(a, "pid")
    /\ global' = [global EXCEPT ![a[1]].pid = a[1]]
    /\ Goto(a, "seed")
    /\ UNCHANGED <<source, stream, todo, drawn, entropy, ops, alive, misused, ghosts>>

(* A build with getrandom() reads it if init() found it there, and nothing *)
(* otherwise; a build without it reads the device.                         *)
Reads(a) == source = "device" \/ global[a[1]].available # 0

Seed(a) ==
    /\ At(a, "seed")
    /\ source = "device" => global[a[1]].fd # "none"
    /\ stream' = [stream EXCEPT ![a].initialized = 1,
                                ![a].key = IF Reads(a) THEN <<entropy + 1, <<>>>> ELSE @]
    /\ entropy' = IF Reads(a) THEN entropy + 1 ELSE entropy
    /\ Goto(a, IF todo[a] = Nothing THEN "idle" ELSE "draw")
    /\ stirred' = IF a[2] = MainThread THEN stirred \cup {a[1]} ELSE stirred
    /\ UNCHANGED <<source, global, todo, drawn, ops, alive, misused, closed, starved, overlapped>>

(* getrandom() fails, or the device does, or gives too little.             *)
SeedStarves(a) ==
    /\ At(a, "seed") /\ Reads(a)
    /\ source = "device" => global[a[1]].fd # "none"
    /\ Starves(a)
    /\ UNCHANGED <<source, global, stream, pc, todo, drawn, entropy, ops, alive, stirred, closed,
                   overlapped>>

(* There is no device to read.                                             *)
SeedFails(a) ==
    /\ At(a, "seed")
    /\ source = "device" /\ global[a[1]].fd = "none"
    /\ Misuse(a)
    /\ UNCHANGED <<source, global, stream, pc, todo, drawn, entropy, ops, alive, ghosts>>

-----------------------------------------------------------------------------
(* Drawing.                                                                *)

(* stir_if_needed() lets the caller go on with its stream, or stirs first, *)
(* or finds the stream in a process that did not seed it.                  *)
Usable(a)    == stream[a].initialized = 1 /\ global[a[1]].pid = a[1]
NeedsStir(a) == stream[a].initialized = 0
Stale(a)     == stream[a].initialized = 1 /\ global[a[1]].pid # a[1]

Evolve(key, how) == <<key[1], Append(key[2], how)>>

(* Mutant: buf() leaves the key as it was.                                 *)
TakeBufKeepingKey(a, size) ==
    /\ drawn' = [drawn EXCEPT ![a] = @ \o [i \in 1 .. size |-> <<stream[a].key, i>>]]
    /\ UNCHANGED stream

(* buf(): `size' words from the front of the keystream, then a new key,    *)
(* which depends on the size.                                              *)
TakeBuf(a, size) ==
    /\ drawn' = [drawn EXCEPT ![a] = @ \o [i \in 1 .. size |-> <<stream[a].key, i>>]]
    /\ stream' = [stream EXCEPT ![a].key = Evolve(@, size)]

(* random(): pop the last word of the pool, which is the keystream of a    *)
(* key that is then replaced.                                              *)
TakeFromPool(a) ==
    /\ drawn' = [drawn EXCEPT ![a] = Append(@, <<stream[a].pool, stream[a].left>>)]
    /\ stream' = [stream EXCEPT ![a].left = @ - 1]

(* Mutant: the word that is returned stays in the pool.                    *)
RefillAndKeep(a) ==
    /\ drawn' = [drawn EXCEPT ![a] = Append(@, <<stream[a].key, PoolWords>>)]
    /\ stream' = [stream EXCEPT ![a].pool = stream[a].key, ![a].left = PoolWords,
                                ![a].key = Evolve(@, 0)]

RefillAndTake(a) ==
    /\ drawn' = [drawn EXCEPT ![a] = Append(@, <<stream[a].key, PoolWords>>)]
    /\ stream' = [stream EXCEPT ![a].pool = stream[a].key, ![a].left = PoolWords - 1,
                                ![a].key = Evolve(@, 0)]

Buf(a, size) ==
    /\ MayStart(a, FALSE) /\ Usable(a)
    /\ TakeBuf(a, size)
    /\ UNCHANGED <<source, global, pc, todo, entropy, alive, misused, ghosts>>

(* Only an empty pool is refilled, and only the refill looks at the        *)
(* process.                                                                *)
Random(a) ==
    /\ MayStart(a, FALSE)
    /\ \/ stream[a].left > 0 /\ TakeFromPool(a)
       \/ stream[a].left = 0 /\ Usable(a) /\ RefillAndTake(a)
    /\ UNCHANGED <<source, global, pc, todo, entropy, alive, misused, ghosts>>

DrawStirs(a) ==
    /\ MayStart(a, FALSE) /\ NeedsStir(a)
    /\ \E then \in {RandomOp} \cup Sizes : BeginStir(a, then)
    /\ stream' = [stream EXCEPT ![a].left = 0, ![a].pool = ZeroKey]
    /\ UNCHANGED <<source, global, drawn, entropy, alive, misused, stirred, closed, starved>>

DrawAfterStir(a) ==
    /\ At(a, "draw")
    /\ IF todo[a] = RandomOp THEN RefillAndTake(a) ELSE TakeBuf(a, todo[a])
    /\ Goto(a, "idle")
    /\ UNCHANGED <<source, global, todo, entropy, ops, alive, misused, ghosts>>

(* buf() always looks at the process, random() before a refill.            *)
DrawFindsStale(a) ==
    /\ MayStart(a, FALSE) /\ Stale(a)
    /\ Misuse(a)
    /\ UNCHANGED <<source, global, stream, pc, todo, drawn, entropy, alive, ghosts>>

(* close(): the builds with getrandom() leave `global' as it is, even the  *)
(* device they may have open; the stream is wiped in every build.          *)
Close(a) ==
    /\ MayStart(a, FALSE)
    /\ global' = IF source = "device" /\ global[a[1]].fd # "none"
                 THEN [global EXCEPT ![a[1]] =
                         [@ EXCEPT !.fd = "none", !.initialized = 0, !.pid = "none"]]
                 ELSE global
    /\ stream' = [stream EXCEPT ![a] = ZeroStream]
    /\ closed' = closed \cup {a[1]}
    /\ UNCHANGED <<source, pc, todo, drawn, entropy, alive, misused, stirred, starved, overlapped>>

-----------------------------------------------------------------------------
(* fork(), called by thread t of the parent: the child has its memory, and *)
(* this thread only, as its main one; its other threads start afterwards.  *)
Fork(t) ==
    /\ "child" \notin alive /\ At(<<"parent", t>>, "idle")
    /\ alive' = alive \cup {"child"}
    /\ global' = [global EXCEPT !["child"] = global["parent"]]
    /\ stream' = [stream EXCEPT ![<<"child", MainThread>>] = stream[<<"parent", t>>]]
    /\ overlapped' = IF "parent" \in overlapped THEN overlapped \cup {"child"} ELSE overlapped
    /\ UNCHANGED <<source, pc, todo, drawn, entropy, ops, misused, stirred, closed, starved>>

Next ==
    \/ \E a \in Agent :
          \/ Stir(a) \/ InitClears(a) \/ InitProbes(a) \/ InitFindsNothing(a) \/ Mark(a)
          \/ SetPid(a) \/ Seed(a) \/ SeedStarves(a) \/ SeedFails(a)
          \/ \E size \in Sizes : Buf(a, size)
          \/ Random(a) \/ DrawStirs(a) \/ DrawAfterStir(a) \/ DrawFindsStale(a)
          \/ Close(a)
    \/ \E t \in Thread : Fork(t)

Spec == Init /\ [][Next]_vars

-----------------------------------------------------------------------------
(* Properties.                                                             *)

(* A stream marked as initialised has been given a seed, with one          *)
(* exception: the build has getrandom(), the process did not stir in its   *)
(* main thread first, and a thread entered init() while another was in it. *)
(* The second clears what the first found, and the first goes on without;  *)
(* a child forked just then finds the record so.                           *)
Unseeded(p) == source = "getrandom" /\ p \in overlapped

InitializedMeansSeeded ==
    \A a \in Agent : stream[a].initialized = 1 => stream[a].key[1] # 0 \/ Unseeded(a[1])

(* No word of keystream is returned twice: not to one thread, not to two,  *)
(* not to a process and its child; in processes with that exception, which *)
(* may go on with no seed or with their parent's, nothing is promised.     *)
OutputsNeverRepeat ==
    \A a, b \in Agent : \A i \in DOMAIN drawn[a], j \in DOMAIN drawn[b] :
        ~ Unseeded(a[1]) /\ <<a, i>> # <<b, j>> => drawn[a][i] # drawn[b][j]

(* What stir_if_needed() asks of getpid(): a stream is used in the process *)
(* that seeded it, so no two processes draw from one seed.                 *)
SeedsStayInTheirProcess ==
    \A a, b \in Agent : \A i \in DOMAIN drawn[a], j \in DOMAIN drawn[b] :
        a[1] # b[1] => drawn[a][i][1][1] # drawn[b][j][1][1]

(* What is in memory does not yield a word that was already returned to    *)
(* this thread: the key moves on after each request, and a pool word that  *)
(* was popped is gone.  Words of a stream without a seed are not counted.  *)
PastOutputsAreForgotten ==
    \A a \in Agent : \A i \in DOMAIN drawn[a] :
        LET word == drawn[a][i]
        IN  word[1][1] # 0 =>
                /\ word[1] # stream[a].key
                /\ ~ (word[1] = stream[a].pool /\ word[2] <= stream[a].left)

(* As long as the kernel gives what it is asked for, legal use ends in     *)
(* sodium_misuse() in one case only: the build reads a device, and a       *)
(* thread closed it under the others.                                      *)
AbortsOnlyAfterClose ==
    \A p \in misused : p \in starved \/ (source = "device" /\ closed # {})
=============================================================================
