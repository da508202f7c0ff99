# libsodium in TLA+

This directory models libsodium in TLA+: its stateful parts with their interleavings and failures, and
most of its arithmetic in scaled words and fields. TLC checks the models on small instances, and TLAPS
proves what matters most about the concurrent core, the secret stream, the random generators and the
guarded heap, how Argon2 fills its memory, and that every streaming hash hashes what it was fed. Paths
below are relative to `src/libsodium/`.

## Inventory

| component | state | operations | interacts with | what is hard | what makes it correct |
|---|---|---|---|---|---|
| secret stream (`crypto_secretstream/`) | per end: key, 4-byte counter, 8-byte inonce | init_push, push, init_pull, pull, rekey | HChaCha20, ChaCha20-IETF, Poly1305, the network | lost, replayed, reordered, spliced packets; counter wrap; rekeyings agreed in band, out of band and by wrap; a refused packet in the middle | accepted = a prefix of what was sent; in-step ends stay in step; no keystream block used twice; past keys are forgotten |
| library core (`sodium/core.c`) | mutex, `locked`, `initialized`, misuse handler | sodium_init, sodium_set_misuse_handler, sodium_misuse | every component: init calls their set-up, they call misuse | concurrent first calls; giving up in the middle of init; handlers that call back; misuse from outside the section | one initialisation, truthful results, mutual exclusion, the process ends after misuse inside the section |
| internal generator (`randombytes/internal/`) | per process: flags, descriptor, pid; per thread: key, nonce, pool | stir, buf, random, uniform, close | kernel, core (misuse), ChaCha20 | threads sharing the process part; fork; close under other threads; kernels without getrandom() | no word twice; seeded before use; outputs not recoverable from memory |
| randombytes dispatch, sysrandom (`randombytes/`) | implementation pointer; flags, descriptor | set_implementation, random, uniform, buf, stir, close | the generators | first use by two threads; recursion of the first stir; rejection bound | an implementation is stirred before it serves; uniform is uniform |
| guarded heap (`sodium/utils.c`) | pages, protections, canaries | malloc, allocarray, free, mprotect_*, mlock | kernel, core (canary drawn by init) | size arithmetic at the top of size_t; protections left by the user, or refused by the kernel; canary drawn and page size learnt late | overflow hits a guard page; underflow is caught by free; no wrap |
| padding, big numbers (`sodium/utils.c`) | none | pad, unpad, increment, add, sub, compare | - | full blocks, block sizes that are no power of two | unpad inverts pad; arithmetic mod 2^(8n) |
| codecs (`sodium/codecs.c`) | none | hex2bin, base642bin, bin2ip, ip2bin | - | truncated input, ignored characters, padding variants | decoding inverts encoding and rejects the rest |
| streaming hashes and MACs (`crypto_generichash/`, `crypto_hash/`, `crypto_xof/`, `crypto_onetimeauth/`, `crypto_auth/`) | chaining value, counter, buffer | init, update, final (squeeze) | KDFs, Argon2, Ed25519ph | block boundaries, lazy last block, final twice | the result depends only on the concatenation of the updates |
| Argon2, scrypt (`crypto_pwhash/`) | block matrix | hash, verify, needs_rehash | BLAKE2b, kernel | reference index wrap, allocation failures, string parsing | a block refers only to finished blocks; verify accepts what str made; no leak |
| stream ciphers, AEADs, secretbox | none (counters of one call) | stream, xor_ic, encrypt, decrypt, easy, detached | runtime detection chooses among implementations | block counter limits, overlapping buffers, failed opens, batches of several widths | no counter wrap; overlap behaves as disjoint; nothing is decrypted on failure; every implementation gives the same bytes |
| box, seal, kx, kem, kdf | none | keypair, session keys, seal, encapsulate, derive | curves, lattices, hashes | degenerate shared secrets, implicit rejection | both ends derive the same keys, from the genuine ciphertext only |
| ed25519, X25519, Ristretto | none | sign, verify, scalarmult, add, decode, map | field, SHA-512 | exceptional points, non-canonical encodings, signed digits, tables | the group law, on all inputs; one encoding a point |
| field and scalar arithmetic | none | add, sub, mul, square, reduce, invert | the above | lazy carries, limb widths, reduction of the last representatives | the number is right and no word overflows |
| ML-KEM, ML-DSA | none | keypair, encapsulate, decapsulate, sign, verify | Keccak | rounding, compression, hints, rejection loops | secrets arrive, signatures verify, nothing else does |
| runtime detection (`sodium/runtime.c`) | CPU feature flags | _sodium_runtime_get_cpu_features | core, every pick_best_implementation | - | - |
| ipcrypt, short hashes | none | encrypt, decrypt, hash | - | prefix-preserving loop | decrypt inverts encrypt |

Components call each other in-process. `sodium_init()` runs the set-up of all of them inside one
critical section; any of them may call `sodium_misuse()`, which takes the same section, runs the
application's handler and aborts. The secret stream is the one component whose two halves talk
over a network, and the generator the one whose state survives a `fork()`.

## Modules

| module | models | checked by |
|---|---|---|
| `AuthStream` | abstract: an authenticated, ordered stream with agreed rekeyings | refined by `SecretStream` |
| `SecretStream` | `crypto_secretstream_xchacha20poly1305`, both ends and the network | `MCSecretStream`, `SecretStreamProofs`, `AuthStreamProofs` |
| `InitOnce` | abstract: the library becomes ready once and callers are told the truth | refined by `SodiumCore` |
| `SodiumCore` | `sodium/core.c` with pthreads | runs on the module itself, `SodiumCoreProofs` |
| `InternalRandom` | `randombytes_internal_random.c` with threads and fork | `MCInternalRandom`, `InternalRandomProofs` |
| `Randombytes` | `randombytes.c` and `randombytes_sysrandom.c` with threads | `MCRandombytes`, `RandombytesProofs` |
| `GuardedHeap` | `sodium_malloc()` and its companions in `sodium/utils.c` | a run on the module itself, `GuardedHeapProofs` |
| `StreamBytes` | bytes, buffers and blocks shared by the next four | with them |
| `Blake2b`, `Sha2`, `Poly1305`, `Sponge` | the streaming interface of BLAKE2b; SHA-256 and SHA-512; Poly1305; SHA-3, SHAKE and TurboSHAKE | `Hashes` |
| `Argon2` | the order in which Argon2 fills its memory, and what each block is made from | `Hashes` |
| `Hashes` | composition: the four hashes and Argon2, one at a time, with the assumptions on their sizes | `MCStreams`, `HashProofs` |
| `PasswordHash` | allocations, failures and releases of Argon2 and scrypt | `Calls` |
| `Numbers` | little-endian numbers, padding, `randombytes_uniform()`, scrypt's parameters | `Calls` |
| `Calls` | composition: the two above, one at a time | `MCCalls`, `CallsProofs` |
| `Codecs`, `IpText` | hexadecimal and Base64; texts of IP addresses | `MCCalls` |
| `Sealing` | secretbox, the ChaCha20-Poly1305 family, AEGIS, sealed boxes | `MCCalls` |
| `FieldLimbs`, `Scalars` | the two representations of the field; arithmetic modulo the order, safegcd | `MCCalls` |
| `Edwards`, `Points`, `Curves` | coordinates and the group law; scalar multiplication, decoders, Elligator and Ristretto; X25519, Ed25519 and the operations on encoded points | `MCCalls` |
| `PolyBytes`, `MlKem`, `XWing`, `MlDsa` | what lattices share; ML-KEM-768; X-Wing on top of it; ML-DSA-44 | `MCStreams` |
| `Lanes`, `VectorStreams` | vector registers; every implementation of ChaCha20 and Salsa20 | `MCStreams` |
| `PolyLanes` | the arithmetic of the four implementations of Poly1305 | `MCStreams` |
| `AesGcm` | AES-256-GCM, in its x86 and its ARM build | `MCStreams` |

### SecretStream

`snd` and `rcv` are the `crypto_secretstream_xchacha20poly1305_state` of the two ends: `k`, `ctr`
(the first 4 bytes of `nonce`) and `inonce` (the other 8). `Push`, `PullAccepts`, `PullRejects`,
`RekeySender`, `InitPush`, `InitPull` are the functions; `PushTooLong` and `PullTooLong` their calls
to `sodium_misuse()`. What the C code does in one call is one action, because an end's state
belongs to one caller.

*Idealised primitives.* HChaCha20, the rekeying keystream and Poly1305 are one lazily filled table,
`oracle`: a query gets the position of its first occurrence as its answer. So equal queries have
equal answers, different ones different answers, and nobody holds a MAC that was never computed. An
8-byte inonce is a XOR of such answers; it is the set of atoms that occur an odd number of times, so
the cancellations of XOR are kept. Not covered: collisions of 64-bit values, and whatever breaks the
primitives.

*Assumption on the sender.* `init_push()` draws a header of 24 random bytes; they are assumed fresh
(`r \notin seen`). The network may use headers again and splice them (`InitPull` takes any).

*Network.* `Pull` takes any text, additional data and tag together with any MAC ever computed, or a
forged one: this contains loss, replay, reordering, changed fields and packets of other streams.

### SodiumCore

One action per memory access or pthread call, so every interleaving of the C code is a behaviour.
`pc`, `op`, `after` are a thread's place, function and continuation: `sodium_crit_leave()` is shared
by five call sites. `Work` sets up one part of the library at a time, so a thread let in too early
would be seen with part of it. `WorkFails` is `randombytes_stir()` without entropy, or `_sodium_alloc_init()` with
too small a page, which call `sodium_misuse()` inside the section (`FailingParts`). `crit_enter()` reads `locked` for its assertion
(`AssertHolds`, `AssertFails`) and stores it (`SetLocked`) in two steps. `Outsiders` are the threads whose arguments make some function
call `sodium_misuse()` at any moment. Unlocking a mutex that another thread holds is undefined for a
default mutex: `ForeignUnlock` says whether it releases it, fails, or either; `refused` records who was refused.

### InternalRandom

`global` is per process, `stream` per thread (`TLS`). A key is a seed and its history: `<<seed,
sizes>>`, so that keys are equal exactly when the same operations were applied to the same seed; a
word is a key and a position. `InitClears`, `InitProbes`, `Mark`, `SetPid` and `Seed` cut `stir()` at the
accesses to `global`, which no lock protects; `buf()` and `random()` touch the thread's own stream and
are atomic once they are past the check. What the code asks of the kernel may be refused each time: there is no device
to open (`InitFindsNothing`), `getrandom()` fails, or a read does or falls short (`SeedStarves`); the process then ends in
`sodium_misuse()` and is recorded in `starved`, to tell this from ending for a reason of the library's own (`SeedFails`,
`DrawFindsStale`). The probe of `init()` alone gives what `source` says. `Fork` copies the process part and the calling thread's
stream. `Careful` is the set of processes whose main thread calls `stir()` (as `sodium_init()` does) before any other
thread starts or draws; in the others two first `stir()`s may be in `init()` at once, which `overlapped` records. The nonce is folded into the history: it changes with every key.

### GuardedHeap

`prot` and `mem` are the process's pages and bytes, `live` the blocks the application holds. A block's
record is what the application knows (its pointer, the size it wanted, the protection it was last granted), and history:
whether it was made before `sodium_init()` drew the canary, with which `page_size`, and which of its protections the kernel refused.
Everything the library needs it reads from `mem`, as `sodium_free()` does, and from `page_size` as it is then. All sizes and addresses are modulo
`WordMod`. `Write` is the application touching its block, or the byte before or after it; further underflows land in the slack
before the canary, which the code does not promise to notice. `protect` is a build with or without `mprotect()`: without it
a second canary stands after the block. `Mappable` is the kernel: it never maps 0 bytes, nor page 0, and knows only its own `PageSize`.

*The page size.* `page_size` begins as one of `DefaultSizes`: `PAGE_SIZE` where that is defined and 0x10000 where it is not; `AllocInit`
replaces it by what `sysconf()` says, or keeps it. A block made before that is not aligned to what the library takes for a
page, and its assertion may fail; one that is made all the same is looked up with other arithmetic afterwards. `NotFound` is
a size word that cannot be read, or a pointer that is taken for none of `sodium_malloc()`'s.

*Refusals.* Each `mprotect()` may be refused. `Changed` is what it may have changed when the pages are one mapping with one protection:
all or nothing. `ChangedSome` is for `sodium_free()`, whose pages have several protections: a refusal may come after the first few. `sodium_malloc()` and `sodium_free()`
drop the results and go on; `Opened` is what line 696 leaves, and comparing (`Compares`) and wiping (`Wipes`) consult it, or fault
(`FreeFaults`). `sodium_mprotect_*()` returns the failure. Assertions are evaluated in every build (`configure.ac:1014` undefines NDEBUG), and `munmap()` is taken to succeed.

### Blake2b, Sha2, Poly1305, Sponge

Each module has the state structure of its code in `s` and the rest of the update in progress in `todo`; one turn
of a loop is one action. Every byte the application ever feeds has its own name, and the compression function
keeps what it is given: the chaining value `h` is the sequence of blocks with their counters and flags, the state of a sponge
the sequence of blocks between permutations. A result therefore equals the standard's exactly when
the compressed blocks do, which is what `Digest`, `Tag` and `Padded` write down from the standards. A message may be
abandoned and the state initialised again, with its buffer as the code leaves it. `Sha2` covers both widths
of the counter (`wide`), and `Sponge` both interfaces (`xof`); SHAKE-256 and the TurboSHAKEs are the same code with other rates
and rounds. In BLAKE2b `final()` may be called again; SHA-2 and Poly1305 wipe the state, and the application must initialise
it before it goes on. `base` and `before` are history: what was permuted, and fed, before the message. `Hashes` runs
one algorithm at a time over the same variables, and Argon2 over its own; `MCStreams` adds the lattices and the vectorised ciphers.

### Randombytes

`implementation` and the record `stream` of sysrandom are shared by the threads and protected by nothing; `th[t]`
is where a thread is, the calls it is in the middle of, and what it is about to store. A step is one access to shared memory or one system
call, which the kernel may refuse: to open a device, to give random bytes, to read all that was asked (`ended = "denied"`). Stores that no lock orders may be seen in any order (`StoreOne`). `fds` is the descriptor table of the process: `OpenFile` is the
rest of the program, which is given numbers the library has closed. `races` records which calls overlapped
(`close`, a first `init`, `set_implementation`), so that the properties can say what a race can do, and that
without one nothing goes wrong; `harm` records a file of the application that was closed or read as random bytes.
`careful` is an application that calls `sodium_init()` before it starts threads.

### Modules of one call

What keeps no state between calls has three variables: `input`, the call with its arguments; `at`, how far it is;
`mem`, what it has computed. A function without control of its own is one step; where the code has a loop, a failure or a
choice that matters, each is an action. The property compares `mem` at the end with a definition that is not the code's.

`Argon2` keeps for each block how often it was written. `FillBlock` takes any pseudo-random value; the lanes
of a slice are filled in turn, as the code does, and the property says that nothing depends on that order. `PasswordHash` has one action per
allocation or group of allocations tested together, each of which may fail; `mem` is what became of each pointer, and a second
`free()` or one of a pointer that was never set is seen there. `Numbers` has bytes of two bits, and processes numbers in limbs: single bytes as in C, and longer limbs as the
assembly for nonces does. `Codecs` and `IpText` have characters as their codes; an
IPv6 address has 3 or 4 groups in some calls, so that all short texts can be whole addresses, and 8 in others.

`Sealing` runs on a memory of symbolic bytes: a byte is the set of the symbols whose XOR it is. Message and ciphertext lie
at any distance, and the loops read and write in the order of the code, so a byte that is overwritten before it is
read is a wrong byte. On the way any byte, the length, the additional data or the key may become another, or nothing does.

`Edwards`, `Points` and `Curves` are the code of `ed25519_ref10.c`, `x25519_ref10.c` and their callers, with the field of
2^15 - 19 elements for 2^255 - 19, where -1 is a square too and there is a curve of order 8 * 4129 with a non-square d. Encodings have two bytes, so all of them
can be decoded. The tables of `base.h` and `base2.h` are literals of `MCCalls`, as they are in the code. `RefAdd` is the affine group
law; each point is also known by its index, a multiple of a generator, so that a scalar multiplication has a
one-line definition. The functions of `Points` are operator parameters of `Curves`.

`FieldLimbs` has limbs of 5 bits (fe_51) and 3 and 2 bits in turn (fe_25_5), and words that are as much wider as 64- and
128-bit words are than 51 bits; overflow wraps as in C. `Wide25` has fe_25_5's own widths, for the final reduction, which
needs no products. `Scalars` has limbs of 2 bits for 21, order 2^24 + 807, and safegcd for
five moduli that vary the number of limbs, the number of batches and the signs of their limbs.

`MlKem` has the real modulus 3329, the real words and reductions, and 8 coefficients; `MlDsa` has q = 2017 for 8380417 and words of 17 bits,
which bear as many unreduced additions. SHAKE and SHA-3 are a small digest. A turn
of ML-DSA's signing loop, which starts again on any of four bounds, is an action. `XWing` takes the functions of `MlKem` as operator parameters and models X25519 as a cyclic group with points of small order.

`VectorStreams` gives each instruction of the vectorised files its meaning on lanes (`Lanes`): shuffles, unpacks, shifts and adds,
from sixteen blocks at once to one. Words have 4 bits, so counters carry inside a message; there are four rounds and the rotations are scaled.
`PolyLanes` has 7-bit limbs for 26, and 12-bit wide ones for 44; the modulus 2^35 - 5 is the product of 9, 79, 3359 and 14387, and a
result is checked modulo each of these and by its length. `AesGcm` has a field of 2^16 elements, a round function on
four nibbles, four rounds and 6-bit counters, so that the limit of 2^32 - 2 blocks is within reach.

## Runs

| run | instance | question | result |
|---|---|---|---|
| `secretstream_rekeying` | one stream, 4 operations at each end, counter modulo 3, tags MESSAGE and FINAL, one explicit rekey per end | `AcceptsOnlyThePrefix`, `InStepAccepts`, `EndsAgree`, `RekeyDiscardsPastKeys` | hold |
| `secretstream_two_streams` | two streams under one key, 3 operations, two additional data strings, the longest legal message and one too long | `KeystreamNeverReused`, refinement of `AuthStream` | hold |
| `core` | 3 threads, one call each, entropy or the allocator may fail, handlers that call back | exclusion, handler unlocked, termination, refinement of `InitOnce` | hold |
| `core_outsiders` | the same and a thread that misuses the API; unlocking the mutex of another thread releases it or fails | `ToldMeansReady`, `MisuseEndsTheProcess` | hold |
| `core_assert` | the same, where unlocking releases and nothing fails | the assertion of `crit_enter()` | violated |
| `random` | a process whose threads may stir at once and its child, which stirs first, two threads each, a pool of 2 words, with getrandom() and with a device, which may give nothing | `OutputsNeverRepeat`, `InitializedMeansSeeded`, `PastOutputsAreForgotten`, `AbortsOnlyAfterClose` | hold |
| `guarded_heap` | 32 pages of 4 bytes, taken for 4 or 16 bytes before `sodium_init()`, canary of 3, two blocks, five sizes, at most one protection of a new block refused | guards, canaries, leaks, wiping | hold |
| `streams` | hashes: blocks of 2 to 4 bytes, messages of 10, updates of 0, 1, 2, 3, 5 and 9, counters that wrap; Argon2 with 1 to 3 lanes, 1 to 3 passes and 16 to 36 blocks; lattices of 8 coefficients; vectorised ciphers, Poly1305 and AES-GCM on scaled words | each result is the standard's for the concatenated updates (`Blake2bHashes`, `Sha2Hashes`, `Poly1305Authenticates`, `SpongeSqueezes`); `Argon2FillsInOrder`; `LatticesAreExact`; `VariantsAgree` | hold |
| `randombytes` | two threads of two calls each, two descriptors, one file of the application; three kernels, any request refused | `FilesAreLeftAlone`, `EndsForACause`, `DescriptorsAgree`, `InitFirstIsEnough` | hold |
| `calls` | one call of each module that keeps no state between calls | `PasswordMemoryIsReleased`, `PaddingAndSamplingAreExact`, `ArithmeticIsExact`, `CurvesFollowTheLaw`, `TextsAreCanonical`, `MessagesAreSealed` | hold |
| `random_fallback` | getrandom() compiled in, refused by the kernel | `InitializedMeansSeeded` | violated |
| `random_fork` | a child that draws before it stirs | `SeedsStayInTheirProcess` | violated |

*Bounds and why they are enough.* A counter modulo 3 wraps in three operations: with 4 operations a
run contains messages before and after an automatic rekeying, one that meets an explicit rekeying or a
FINAL tag, and the orders of the two. The block counter is modulo 4, so the longest legal message is 2
blocks of 2 bytes, and one byte more would wrap. Three threads are the owner of the section, the
one that breaks it open and the one that suffers; two are enough for the other properties. In `random`
each main thread has 2 operations and the others one: a first draw stirs, so a pool of 2 words is filled and then popped, and a
thread can draw from what another has closed, or fork and go on. In `guarded_heap` the sizes are 0, one of several pages with slack, the largest that can be mapped, the last accepted one, and the
largest, which is refused; with the last accepted one `total_size` wraps to 0, as it does with pages of 4096 bytes, and products such as
11 * 109 do not fit. Two blocks make neighbours, and re-use of freed pages; two of the three places are aligned to 16 bytes, so that a block from before `sodium_init()` passes the
assertion at some places and not at others. One refusal for each new block (`MaxRefused`) separates what each of them does; those of
`sodium_free()` and `sodium_mprotect_*()` are not bounded, and the proofs have no bound on any. In `streams` ten bytes are more than two blocks of each algorithm,
so a cut falls at, before and after every boundary; BLAKE2b's word counts to 3 and SHA-2's to 63 bits, so both carry.
In `randombytes` two threads are enough for every overlap of two calls, and two descriptors for a number that is given away and one
that is not. The inputs of `calls` are exhaustive where they are small: every IP text of seven characters `1`, `.` and `:`, every short Base64
text with ignored and padding characters, every distance of two overlapping buffers; and chosen where they are not: limbs at
the maximum their comments allow, points of every order in every place, scalars around multiples of the order, encodings around p and
2^15. Each implementation of a cipher gets lengths that pass through all its batch widths and stop after each, and
counters that carry within and between batches. Random-looking inputs are deterministic (`Seeded`).
A scaled field is a real field of the same form: formulas that hold in it for all points by an identity hold at the real size for the same
reason, and what scaling cannot show (a constant mistyped in a table of 255-bit numbers) is what test vectors are good at.

*Fairness.* Only `SodiumCore` has liveness properties. `WF_vars(Run(t))` for each thread: a thread
inside the library is scheduled, and a mutex that stays free while somebody waits is given to a waiter.
Nobody is required to call. Weak fairness of `Run(t)` is enough: each thread makes finitely many calls,
so the mutex cannot be taken away from a waiter for ever.

*Deadlock.* All runs set `CHECK_DEADLOCK FALSE`: threads stop after `MaxCalls`, streams after `MaxOps`, and
a process may have ended, and a call that returned does nothing more. That calls do return is `CallsReturn` and `MisuseEndsTheProcess`.

## What the violated runs show

- `core_assert`: `sodium_misuse()` executes `(void) sodium_crit_leave()` (`sodium/core.c:196`) for any
  caller. A thread outside the section clears `locked` and unlocks the mutex of the thread that is
  inside; the flag and the mutex are then out of step, and `assert(locked == 0)` can fail in a third
  thread. `core_outsiders` shows what is left intact: nobody is told that the library is ready when it
  is not, and the process ends unless pthread refused to unlock: then the owner finds `locked` clear, returns from
  `crit_leave()` with -1 and without unlocking, and everybody, the caller of `sodium_misuse()` too, waits for a mutex nobody will release
  (`MutexLeftBehind`; `MisuseEndsTheProcess` excepts just this).
- `random_fallback`: where `getrandom()` or `getentropy()` is compiled in and the kernel refuses it, `init()`
  opens a device that `stir()` never reads: the stream is marked as initialised with a key of zeros.
- `random_fork`: `random()` looks at the process only when its pool is empty, so a child returns what is
  left in the pool it inherited, as its parent does.

## What else the models showed

Differences that no line of the repository contradicts, so no run is about them, but that the properties had to state:

- `ge25519_p2_to_p3()` sets T = X*Y without dividing by Z. Signature verification reads the sum in a formula that uses T, and
  accepts a difference of order 1, 2 or 4 while it refuses one of order 8 (`CurvesFollowTheLaw`).
- `fe25519_sq2()` of fe_51 would overflow on limbs of 54 bits; those it is given have 52, and `ArithmeticIsExact` checks that products have no more.
- `poly_tomsg()` of ML-KEM takes coefficient 2497 to 1, where 0 is nearer (`SecretsArrive` excepts it).
- `sysrandom` read by one thread while another closes it may read, or close, a file the application
  opened in between (`FilesAreLeftAlone` says that this needs an overlapping `close()`).
- Two threads of a `getrandom()` build that stir first, and at once: one clears `getrandom_available` in `init()` just before the other
  tests it, and the other goes on with a key of zeros, marked as initialised. A child forked in that state may inherit `initialized` with nothing available
  and go on with its parent's key when it stirs. `InitializedMeansSeeded` and `OutputsNeverRepeat` except these processes and no others.
- A block of `sodium_malloc()` from before `sodium_init()` carries another canary, and freeing it raises an alarm. Where `PAGE_SIZE` is not defined,
  the assertion of `_sodium_malloc()` fails at most places before `sodium_init()`; on a block that passed it, `sodium_free()` may fault or
  call `sodium_misuse()` afterwards, and `sodium_mprotect_*()` may protect nothing of it and return 0. `NoFalseAlarm` and `BlocksAreGuarded` say
  that this takes a block whose `page_size` was not, or is no longer, that of the machine.
- A guard whose `mprotect()` was refused is missing and the caller is not told. In a build with `mprotect()` there is no canary after the block, so
  nothing notices an overflow there. If `sodium_free()` is refused write access to a block the application had made inaccessible, it faults.

## Proofs

Eight modules of theorems, for every value of the constants allowed by the named assumptions.

- `SodiumCoreProofs`. `TypeInvariant`. `Exclusion`, for `Outsiders = {}`: `SectionIsExclusive` says which
  threads may be where but not who owns a taken mutex; its strengthening `SectionInv` adds that the
  owner is inside the section, without which `Unlock` by a thread might release a mutex
  whose `locked` flag is another's. `UnlockedHandler` follows from it and one more fact. `Truthful` needs no assumption on
  the other threads: `ToldInv` relates each thread's place to the parts it has set up (`step[t] = n`
  means that parts below n are ready) and `res[t]` to `initialized`, and this survives a broken lock
  because parts are only ever added. `Implementation`: every step of `SodiumCore` is a step of `InitOnce`
  or a stutter, from `OnceInv` (who is past `SetInitialized` with result 0 is the winner).
- `SecretStreamProofs`, first part. `KeystreamOnce`: `KeystreamNeverReused` is not inductive: a key might come back.
  `KeyInv` adds that the input of each HChaCha20 query was seen, so a fresh header yields a
  fresh key; that the key in a rekeying query is the answer of an earlier one, so rekeying moves to a
  larger key; and that the sender's counter is above every counter used with its key.
- `SecretStreamProofs`, second part. `Types`, `PrefixOnly`, `InStep`, `BothEnds` and `PastKeysGone` are the invariants of the two runs,
  and `Implementation` is the refinement of `AuthStream`. All rest on `AgreeInv`, about the table that stands for the primitives:
  `Good(oracle)` says that a query asks only about answers before its own, so that an answer determines what was asked and, by induction
  over positions (`Least`, from the library's `WFMin`), the whole path that led to it; `SenderReaches` and `ReceiverReaches`
  that each end's state is reached from its header by what it has sent or accepted; `OldOnesReach` the same of streams that were left;
  `MacsAreSent` that a MAC in the table was made by a sender for the packet at a place of its path. `Meet` then turns
  "this MAC verifies here" into "the receiver stands where the sender of that packet stood" and `Follow` into "what it
  accepted before is what was sent before". Each pull that accepts, and each agreed rekeying, maps to one of `AuthStream`'s
  actions (`AuthSimulation`); a refused packet to a stutter.
- `AuthStreamProofs`. `Prefix`: the abstract stream delivers only a prefix of what was sent. With
  `ImplementsAuthStream` this gives the meaning of `AcceptsOnlyThePrefix`.
- `InternalRandomProofs`. `Uniqueness`, `Seeded`, `Backtracking` and `NoFalseAbort` are the four invariants of the run `random`, for any
  number of threads, requests and sizes, in a process and its child. They come from three invariants, each inductive given the one before.
  `PlacesInv` is about `stir()` cut into steps: only a main thread that has not stirred runs `init()`, and until a
  device is closed nobody reads before there is something to read. `DrawInv` adds what a stream holds: a seed of its own
  once its process has stirred (`OwnSeeds`, which a child that has not stirred breaks, and may), and a pool from an earlier key
  (`PoolsAreOlder`). `OutputInv` adds that every word ever returned is *past* for every stream that can draw
  (`WordsArePast`): its key is an earlier one, or it lies above what is left in the pool. `DrawsAreDrawing` shows that what a draw
  returns is not past before it and past after it; two different words follow. The assumption `Careful` is that an application
  calls `sodium_init()` first, and again after `fork()`; `random_fork` shows what happens without it (`CarefulEverywhere` says that both processes are careful). What the kernel refuses needs no assumption:
  a process it gives nothing ends at once (`GivingUp`), so it only matters to `NoFalseAbort`, which names it. `NoFallback` excludes the kernels of
  `random_fallback`; `NoFalseAbort` does not need it.
- `GuardedHeapProofs`. `Guards`, `Leakless`, `Catching`, `Alarms` and `Wiping` are the five invariants of the run `guarded_heap`, for every
  `WordMod` that is a multiple of `PageSize` and has more than four pages, every `CanarySize` below `PageSize`, and any sizes, placements,
  number of blocks and refusals of `mprotect()`. They are about behaviours in which `[]Settled` holds: nobody holds a block while `page_size` is not that of the machine, because the
  application allocates after `sodium_init()` or `PAGE_SIZE` is defined. Without it they would have to say what the code does with
  a wrong page size, which is arbitrary; the run says that each exception needs one. The arithmetic comes first: `Rounded` shows that a size that is not rejected is rounded without wrapping, `Totals`
  that `total_size` is exact or 0, which the kernel does not map, and `Placed` that
  `_unprotected_ptr_from_user_ptr()` finds its way back from what `sodium_malloc()` returns; `ArrayIsMalloc` that
  `sodium_allocarray()` never asks for less than the product. From there on blocks are counted in pages (`First`, `End`, `Own`). The invariant
  `HeapInv` needs `Laid`, because `sodium_free()` and `sodium_mprotect_*()` trust the size word they read back: each live block still has its own
  (`HeaderKept`), its pages are protected as they should be but for what was refused (`Guarded`, which is what keeps the application off the size word)
  and no two blocks share one; and `Written`: canaries change only to what the application writes, and its bytes are
  only where it can reach.
- `RandombytesProofs`. `Files`, `Causes`, `Descriptors` and `InitFirst` are the four invariants of the run `randombytes`, for any number of
  threads, calls, descriptors and files, and for every kernel and whatever it refuses. They say what an overlap of calls can do and that nothing happens without one,
  so `RaceInv` has one part for each kind of overlap that `races` records. `Apart` says that as long as no `close()`
  (no initialisation) overlapped, a thread in one is alone. Then `OwnFiles`: what a thread is about to read or close is the library's, and
  the record names an open device, except while a thread forgets it. `Implemented`: the pointer is there for each call that has tested it,
  unless it was replaced under one. `Sourced`: how far each assignment of `init()` and `close()` has brought the record
  (`Published`), and that between them it is usable or reset (`Settled`) and no device is forgotten (`NotForgotten`).
  `CarefulInv` is the argument for `sodium_init()` first: until the main thread has stirred it is alone and only stirs, and
  afterwards `initialized` stays 1, so no call reaches `init()`. `EndsForACause` is inductive given these.
  Every step is first reduced to what it does to one thread (`Moved`, `Pushed`, `Returned`, `Held`) and to the shared state (`Does`).
- `HashProofs`, the hashes. `Poly1305Tags`, `Blake2bDigests`, `Sha2Digests` and `SpongeOutputs` are about each module, and `Poly1305Hashing`, `Blake2bHashing`,
  `Sha2Hashing` and `SpongeHashing` state four invariants of the run `streams` of the composition, with no bound on the
  blocks, the updates or the number of messages. What a hash gives is defined from the length of the message alone, so none is inductive: `PolyInv`,
  `BlakeInv`, `ShaInv` and `SpongeInv` each say that for some number of blocks k, the first k of the message went in, the buffer
  holds what follows them (whatever an earlier message left behind that), and the call in progress has the rest. From there each final call is
  one lemma about the last block or two (`PolyCloses`, `BlakeDigested`, `ShaPadded`, `SpongeFinalizes`). What is assumed is what the code relies on (`HashAssumption` of `Hashes`, which TLC evaluates in the run): a BLAKE2b
  block is no longer than a word counts and the messages no longer than two words count (`BlakeParameters`); a SHA-2 word of bits holds whole blocks,
  since `update()` takes the place in the buffer from it (`ShaParameters`), and its length may be anything, as the count is reduced; a
  SHA-3 digest is at most one block (`SpongeParameters`). For the sponge the invariant also follows the output: a state that is being squeezed is that of the message and q
  permutations more (`SpongeGone`), the offset ties q to what was squeezed (`SpongeSqueezed`), and `SpongeSpends` shows that a late update starts from the state
  after exactly those.
- `HashProofs`, Argon2. `Argon2ReadsFinishedBlocks` and `Argon2FillsTheMemory` are the two conjuncts of `Argon2FillsInOrder`; `Argon2InOrder` is the whole of it,
  and `Argon2Hashing` the invariant of the run, which checks it for up to three lanes of small segments. Neither conjunct is inductive: `FillInv` adds `Counts`, which
  says how often each block was written from the pass, slice, lane and index alone, and `Places`, which ties `prev_offset`
  to the place reached (and leaves it free at the second block of a lane, where `fill_segment()` sets it again).
  The arithmetic is apart: `RelativeInArea` bounds the skewed distribution, `Referred` places what
  `index_alpha()` returns in each of the four slices, and `PlaceOf`/`PartsOf` take a block apart into lane, segment and index.
  `Inputs` is what `argon2_validate_inputs()` lets through, eight blocks a lane and more; `ArgonParameters` says the same of the
  constants: at least one lane and one pass.
- `CallsProofs`. `Padding` and `UniformSampling`, together `PaddingAndSampling`, are an invariant of the run `calls`, for buffers, block sizes, bounds and words of any size. The invariant
  `NumbersInv` only says that what was returned is what the function computes from a legal call; the work is in the functions. For the padding, `PaddingEndsABlock` is the
  arithmetic, `PaddedIs` says what stands at each place, and `UnpadIs` that the loop of `sodium_unpad()`, which always goes through the whole block, accumulates
  the place of the only barrier there can be (`OneBarrier`). For `randombytes_uniform()`, words are counted: with w = n * q + m, `UniformMinIs` shows that exactly m
  words are rejected, and `EachIsDrawn` gives a bijection between 0 .. q - 1 and the words that yield a value, whatever the value; that fewer than half are
  rejected (`FewAreRejected`) is the bound on how long its loop runs. The assumption is that a byte has at least two values, without which the marker would be the byte that
  follows it.

Only model-checked: the liveness properties `CallsReturn` and `MisuseEndsTheProcess` (out of the prover's reach); `PasswordMemoryIsReleased`, whose module has no
constant, so that its run takes every behaviour there is; and the remaining modules of one call. Those compute mostly by recursion over data, with recursive functions, folds or `Bitwise`: the library's induction theorems
cannot be instantiated by the installed provers (`SecretStreamProofs` uses the least counterexample instead, which works where the statement is
about positions and not about the value of a recursive operator, and `CallsProofs` a sum over one element). General powers, with which the choice of scrypt's parameters and the limbs of numbers
are written, are not known to the provers either.

## Not modelled

The components marked so in `PROJECT.json`, each with its reason. In the modelled ones:

- the bytes of MAC inputs and their padding, wiping of stack buffers, Windows and lock-free variants of the critical
  section, the heap with `posix_memalign()`, without an aligned allocator or on Windows, a failing `munmap()`, RDRAND mixing, and the retry loops of the internal generator around `read()` and `getrandom()` (those of sysrandom are modelled);
- HMAC, HKDF and the key exchange, which only call hashes; BLAKE2b's salt and personal parameters;
- the rounds of AEGIS, AES in software, Keccak's permutation and the compression functions of BLAKE2b, SHA-2 and Argon2: uninterpreted
  or idealised where a model needs them. They have no control of their own, and a scaled version would not be the code's;
- SMix of scrypt, Salsa20/8 and Salsa20/12, the assembly of Salsa20 and of Curve25519 (sandy2x);
- hashing to the curve (h2c), the encodings of ML-DSA, the text of an encoded password hash.

## Plan

Modelled, checked and, where the section above says so, proved: the core, the secret stream, the generators, the heap, the streaming
hashes, Argon2's memory, password hashing's failures, numbers, codecs, sealing, the curves and their fields, the lattices, and the vectorised ciphers.
What a next step would take, in this order; each module is written without RECURSIVE operators unless it is for TLC only.

1. Proofs about the operators of the other modules of one call that are not recursive (the overlapping buffers of `Sealing`).
2. HMAC on top of `Sha2`, HKDF and `crypto_kx` symbolically.
3. The text of an encoded password hash, parsed and written (`argon2-encoding.c`).
4. `ipcrypt`'s prefix-preserving loop; h2c.
