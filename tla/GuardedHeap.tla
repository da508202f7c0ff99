----------------------------- MODULE GuardedHeap -----------------------------
(***************************************************************************)
(* The guarded allocator of sodium/utils.c: sodium_malloc(),               *)
(* sodium_allocarray(), sodium_mprotect_*() and sodium_free(), down to     *)
(* pages, protections and the bytes that matter, with size_t arithmetic    *)
(* modulo WordMod.  A block is                                             *)
(*                                                                         *)
(*   | size word | guard | slack, canary, user's bytes | guard |           *)
(*   | read only | none  | what the user asked for     | none  |           *)
(*                                                                         *)
(* and the user's bytes end where the second guard begins.  The library    *)
(* counts in pages of page_size bytes, the kernel in pages of PageSize:    *)
(* they differ until sodium_init() where PAGE_SIZE is not defined.  Any    *)
(* mprotect() may be refused; sodium_malloc() and sodium_free() go on.     *)
(***************************************************************************)
EXTENDS Integers, FiniteSets

CONSTANTS
    WordMod,        \* 2^64: size_t and addresses
    PageSize,       \* of the machine
    DefaultSizes,   \* DEFAULT_PAGE_SIZE: PAGE_SIZE or, without it, 0x10000
    CanarySize,     \* CANARY_SIZE, 16
    Protection,     \* whether a build has mprotect(): TRUE, FALSE or either
    Bases,          \* bound: where mmap() may put a block
    Sizes,          \* the sizes and counts the application asks for
    MaxBlocks,      \* bound: allocations
    MaxRefused      \* bound: the protections a new block is refused

ASSUME PageAssumption == /\ PageSize \in Nat \ {0} /\ WordMod \in Nat
                         /\ WordMod % PageSize = 0 /\ WordMod > 4 * PageSize
ASSUME DefaultAssumption == \A d \in DefaultSizes : /\ d \in Nat /\ d >= PageSize
                                                   /\ d % PageSize = 0
                                                   /\ WordMod % d = 0
ASSUME CanaryAssumption == CanarySize \in Nat \ {0} /\ CanarySize < PageSize
ASSUME ProtectionAssumption == Protection \subseteq BOOLEAN
ASSUME SizesAssumption == Sizes \subseteq 0 .. (WordMod - 1)
ASSUME BasesAssumption == \A b \in Bases : b \in PageSize .. (WordMod - 1) /\ b % PageSize = 0
ASSUME MaxBlocksAssumption == MaxBlocks \in Nat

VARIABLES
    protect,     \* this build has mprotect()
    page_size,   \* what the library takes for the size of a page
    drawn,       \* sodium_init() has drawn the canary
    prot,        \* prot[p]: the protection of page p
    mem,         \* mem[a]: what is at address a
    live,        \* the blocks the application holds
    made,        \* how many it was given
    missed,      \* freed blocks whose canary it had overwritten
    end          \* how the process ended

vars == <<protect, page_size, drawn, prot, mem, live, made, missed, end>>

SizeMax == WordMod - 1
Word    == 0 .. SizeMax
Page    == 0 .. ((WordMod \div PageSize) - 1)
PageOf(a) == a \div PageSize
RoundDown(a, n) == a - (a % n)

(* Contents of a byte; the size word is kept in the first byte of its page.*)
(* What the application writes in or before its block is the user's, what  *)
(* it writes after it is beyond.                                           *)
Zero          == <<"zero", 0>>
Garbage       == <<"garbage", 0>>
User          == <<"user", 0>>
Beyond        == <<"beyond", 0>>
SizeWord(n)   == <<"size", n>>
CanaryByte(i) == IF drawn THEN <<"canary", i>> ELSE Zero

Init ==
    /\ protect \in Protection /\ page_size \in DefaultSizes /\ drawn = FALSE
    /\ prot = [p \in Page |-> "unmapped"] /\ mem = [a \in Word |-> Zero]
    /\ live = {} /\ made = 0 /\ missed = {} /\ end = "running"

(* _sodium_alloc_init(): without sysconf(), or where it fails, page_size   *)
(* stays what it is.                                                       *)
AllocInit ==
    /\ end = "running" /\ ~ drawn
    /\ page_size' \in {PageSize, page_size}
    /\ drawn' = TRUE
    /\ UNCHANGED <<protect, prot, mem, live, made, missed, end>>

-----------------------------------------------------------------------------
(* The arithmetic of _sodium_malloc().                                     *)

PageRound(n) == RoundDown((n + page_size - 1) % WordMod, page_size)

Rejected(size) == size >= SizeMax - page_size * 4

WithCanary(size)      == (CanarySize + size) % WordMod
UnprotectedSize(size) == PageRound(WithCanary(size))
TotalSize(unprotectedSize) == (page_size * 3 + unprotectedSize) % WordMod

(* Where the canary is, from the start of the unprotected pages.           *)
CanaryOffset(size) == UnprotectedSize(size) - WithCanary(size)

(* _unprotected_ptr_from_user_ptr()                                        *)
UnprotectedPtr(ptr) == RoundDown((ptr - CanarySize) % WordMod, page_size)
BadPtr(ptr)         == UnprotectedPtr(ptr) <= page_size * 2

Bytes(a, n) == a .. (a + n - 1)
Pages(a, n) == {PageOf(b) : b \in Bytes(a, n)}

-----------------------------------------------------------------------------
(* mprotect(): the pages it may have changed.  When it is refused, those   *)
(* are none if the pages have one protection, as they are one mapping to   *)
(* the kernel, or else the first few.  A build without it changes none.    *)
Changed(pages)      == IF protect THEN {pages, {}} ELSE {{}}
ChangedSome(pages)  == Changed(pages) \cup
                       IF protect THEN {{q \in pages : q < p} : p \in pages} ELSE {}

Given(protection, pages, mode) ==
    [p \in Page |-> IF p \in pages THEN mode ELSE protection[p]]

(* sodium_malloc(size), where mmap() can map the total at base: it never   *)
(* maps 0 bytes, page 0, or pages in use.  `want' is what the application  *)
(* computed.                                                               *)
Mappable(base, total) ==
    /\ total > 0 /\ base + total <= WordMod
    /\ \A p \in Pages(base, total) : prot[p] = "unmapped"

(* The pages of the size word and of the two guards.                       *)
SizePages(base)         == Pages(base, page_size)
GuardBefore(base)       == Pages(base + page_size, page_size)
GuardAfter(base, size)  == Pages(base + page_size * 2 + UnprotectedSize(size), page_size)

Contents(base, size) ==
    LET us     == UnprotectedSize(size)
        start  == base + page_size * 2
        canary == start + CanaryOffset(size)
        tail   == start + us
    IN  [a \in Word |->
           IF a \notin Bytes(base, TotalSize(us)) THEN mem[a]
           ELSE IF a = base THEN SizeWord(us)
           ELSE IF a \in Bytes(canary, CanarySize) THEN CanaryByte(a - canary)
           ELSE IF a \in Bytes(canary + CanarySize, size) THEN Garbage
           ELSE IF ~ protect /\ a \in Bytes(tail, CanarySize) THEN CanaryByte(a - tail)
           ELSE Zero]

(* `page' is the page_size a block was made with, `mode' the protection    *)
(* its bytes were given last, `refused' what the kernel has refused it.    *)
Block(ptr, want, refused) ==
    [ptr |-> ptr, want |-> want, mode |-> "rw", early |-> ~ drawn, page |-> page_size,
     refused |-> refused]

Refused(part, pages, changed) == IF protect /\ changed # pages THEN {part} ELSE {}

Fits(base, size) ==   \* the memset() of sodium_malloc() stays in the block
    CanaryOffset(size) + CanarySize + size <= UnprotectedSize(size)

Malloc(want, size) ==
    /\ end = "running" /\ made < MaxBlocks
    /\ ~ Rejected(size)
    /\ \E base \in Bases :
       \E before \in Changed(GuardBefore(base)), after \in Changed(GuardAfter(base, size)),
          sized \in Changed(SizePages(base)) :
          LET ptr     == base + page_size * 2 + CanaryOffset(size) + CanarySize
              total   == TotalSize(UnprotectedSize(size))
              refused == Refused("before", GuardBefore(base), before)
                         \cup Refused("after", GuardAfter(base, size), after)
                         \cup Refused("size", SizePages(base), sized)
          IN  /\ Mappable(base, total)
              /\ Cardinality(refused) <= MaxRefused
              /\ end' = IF BadPtr(ptr) THEN "misuse"
                        ELSE IF UnprotectedPtr(ptr) # base + page_size * 2 THEN "assert"
                        ELSE IF ~ Fits(base, size) THEN "crash" ELSE "running"
              /\ prot' = Given(Given(Given(prot, Pages(base, total), "rw"),
                                     before \cup after, "none"), sized, "read")
              /\ mem' = Contents(base, size)
              /\ live' = live \cup {Block(ptr, want, refused)}
    /\ made' = made + 1
    /\ UNCHANGED <<protect, page_size, drawn, missed>>

(* NULL: the size is refused, or mmap() fails.                             *)
MallocFails(size) ==
    /\ end = "running" /\ made < MaxBlocks
    /\ UNCHANGED vars

AllocArray(count, size) ==
    /\ count > 0 => size < SizeMax \div count
    /\ Malloc(count * size, (count * size) % WordMod)

-----------------------------------------------------------------------------
(* What the application does with a block: it writes a byte, perhaps just  *)
(* before or just after its own.                                           *)
Write(b, offset) ==
    /\ end = "running"
    /\ LET a == (b.ptr + offset) % WordMod
       IN  IF prot[PageOf(a)] = "rw"
           THEN /\ mem' = [mem EXCEPT ![a] = IF offset < b.want THEN User ELSE Beyond]
                /\ UNCHANGED end
           ELSE end' = "fault" /\ UNCHANGED mem
    /\ UNCHANGED <<protect, page_size, drawn, prot, live, made, missed>>

(* Where sodium_free() and sodium_mprotect_*() look for the size word.     *)
Base(ptr)   == UnprotectedPtr(ptr) - page_size * 2
Header(ptr) == mem[Base(ptr)][2]

Readable(protection, a, n) == \A p \in Pages(a, n) : protection[p] \in {"read", "rw"}
Writable(protection, a, n) == \A p \in Pages(a, n) : protection[p] = "rw"

Found(b) == ~ BadPtr(b.ptr) /\ Readable(prot, Base(b.ptr), 1)

(* They fault there, or take the pointer for none of theirs.               *)
NotFound(b) ==
    /\ end = "running" /\ ~ Found(b)
    /\ end' = IF BadPtr(b.ptr) THEN "misuse" ELSE "crash"
    /\ UNCHANGED <<protect, page_size, drawn, prot, mem, live, made, missed>>

(* sodium_mprotect_noaccess(), _readonly() and _readwrite(), which return  *)
(* the failure of mprotect().                                              *)
Protected(b, mode, pages) ==
    \E done \in Changed(pages) :
       /\ prot' = Given(prot, done, mode)
       /\ live' = (live \ {b}) \cup {[b EXCEPT !.mode = IF done = pages THEN mode ELSE @]}

(* Mutant: the protection starts at the user's pointer.                    *)
ProtectFromUserPtr(b, mode) ==
    /\ end = "running" /\ protect /\ Found(b)
    /\ Protected(b, mode, Pages(b.ptr, Header(b.ptr)))
    /\ UNCHANGED <<protect, page_size, drawn, mem, made, missed, end>>

Protect(b, mode) ==
    /\ end = "running" /\ protect /\ Found(b)
    /\ Protected(b, mode, Pages(UnprotectedPtr(b.ptr), Header(b.ptr)))
    /\ UNCHANGED <<protect, page_size, drawn, mem, made, missed, end>>

(* sodium_free()                                                           *)
FreeSize(b)  == TotalSize(Header(b.ptr))
FreePages(b) == Pages(Base(b.ptr), FreeSize(b))

(* _mprotect_readwrite() of the whole block.  Mutant: it is left out.      *)
OpenedNever(b, done) == prot

Opened(b, done) == Given(prot, done, "rw")

(* Mutant: only the first byte of the canary is compared.                  *)
IntactFirstByte(a) == mem[a] = CanaryByte(0)

Intact(a) == \A i \in 0 .. (CanarySize - 1) : mem[a + i] = CanaryByte(i)

Unbroken(b) ==
    /\ Intact(b.ptr - CanarySize)
    /\ ~ protect => Intact(UnprotectedPtr(b.ptr) + Header(b.ptr))

Overwritten(b) ==   \* the application wrote before its block, or after it
    \/ \E a \in Bytes(b.ptr - CanarySize, CanarySize) : mem[a] = User
    \/ ~ protect /\ mem[b.ptr + b.want] = Beyond

(* What it does to the block needs pages that can be read, then written.   *)
Compares(b, done) == Readable(Opened(b, done), b.ptr - CanarySize, CanarySize)
Wipes(b, done)    == Writable(Opened(b, done), UnprotectedPtr(b.ptr), Header(b.ptr))

FreeFaults(b) ==
    /\ end = "running" /\ Found(b)
    /\ \E done \in ChangedSome(FreePages(b)) :
          /\ ~ Compares(b, done) \/ (Unbroken(b) /\ ~ Wipes(b, done))
          /\ live' = (live \ {b}) \cup
                      {[b EXCEPT !.refused = @ \cup Refused("free", FreePages(b), done)]}
    /\ end' = "crash"
    /\ UNCHANGED <<protect, page_size, drawn, prot, mem, made, missed>>

FreeDetects(b) ==
    /\ end = "running" /\ Found(b) /\ ~ Unbroken(b)
    /\ \E done \in ChangedSome(FreePages(b)) : Compares(b, done)
    /\ end' = "caught"
    /\ UNCHANGED <<protect, page_size, drawn, prot, mem, live, made, missed>>

(* Mutants: sodium_munlock(), which wipes, is skipped; the last guard page *)
(* is forgotten.                                                           *)
WipeNothing(b) == mem

Wipe(b) == [a \in Word |-> IF a \in Bytes(UnprotectedPtr(b.ptr), Header(b.ptr))
                           THEN Zero ELSE mem[a]]

UnmappedButAGuard(b) == Given(prot, Pages(Base(b.ptr), FreeSize(b) - page_size), "unmapped")

Unmapped(b) == Given(prot, FreePages(b), "unmapped")

Free(b) ==
    /\ end = "running" /\ Found(b) /\ Unbroken(b)
    /\ \E done \in ChangedSome(FreePages(b)) : Compares(b, done) /\ Wipes(b, done)
    /\ prot' = Unmapped(b)
    /\ mem' = Wipe(b)
    /\ live' = live \ {b}
    /\ missed' = IF Overwritten(b) THEN missed \cup {b} ELSE missed
    /\ UNCHANGED <<protect, page_size, drawn, made, end>>

Next ==
    \/ AllocInit
    \/ \E size \in Sizes : Malloc(size, size) \/ MallocFails(size)
    \/ \E count, size \in Sizes : AllocArray(count, size)
    \/ \E b \in live : \/ \E offset \in {-1, 0, b.want} : Write(b, offset)
                       \/ \E mode \in {"none", "read", "rw"} : Protect(b, mode)
                       \/ NotFound(b)
                       \/ FreeFaults(b)
                       \/ FreeDetects(b)
                       \/ Free(b)

Spec == Init /\ [][Next]_vars

-----------------------------------------------------------------------------
(* Properties.                                                             *)

(* Where a block begins and what was mapped for it, by what it was made    *)
(* with and not by what the library reads back.                            *)
Start(b)  == RoundDown(b.ptr - CanarySize, b.page)
Tail(b)   == b.ptr + b.want
Region(b) == Pages(Start(b) - b.page * 2, Tail(b) + b.page - (Start(b) - b.page * 2))

(* The pages around a live block cannot be touched and its size word       *)
(* cannot be written, whatever the sizes, the order of the calls and the   *)
(* neighbours: a guard is missing only where the kernel refused that very  *)
(* guard.  The bytes of the user have the protection asked for last and    *)
(* not refused, unless page_size has changed since the block was made:     *)
(* sodium_mprotect_*() then looks elsewhere and says it has succeeded.     *)
BlocksAreGuarded ==
    (protect /\ end = "running") => \A b \in live :
        /\ "after" \notin b.refused => \A p \in Pages(Tail(b), b.page) : prot[p] = "none"
        /\ "before" \notin b.refused =>
              \A p \in Pages(Start(b) - b.page, b.page) : prot[p] = "none"
        /\ "size" \notin b.refused =>
              \A p \in Pages(Start(b) - b.page * 2, b.page) : prot[p] = "read"
        /\ b.page = page_size => \A p \in Pages(b.ptr, b.want) : prot[p] = b.mode

(* The mapped pages are those mapped for the live blocks, no page belongs  *)
(* to two: the size sodium_free() reads back is the one that was mapped.   *)
NothingLeaks ==
    end = "running" =>
        /\ {p \in Page : prot[p] # "unmapped"} = UNION {Region(b) : b \in live}
        /\ \A b, c \in live : b # c => Region(b) \cap Region(c) = {}

(* A block before whose start the application wrote (or, where pages       *)
(* cannot be protected, after whose end) is never quietly freed.           *)
CanariesCatch == missed = {}

(* The library raises an alarm only for such a block, or for one that was  *)
(* allocated before sodium_init().  Its assertion fails, or it takes a     *)
(* block for none of its own, only where page_size was not that of the     *)
(* machine when the block was made; it faults only on such a block, or     *)
(* where the kernel refused sodium_free() the pages it was to wipe, and    *)
(* never because the application had made them inaccessible.               *)
NoFalseAlarm ==
    /\ end \in {"misuse", "assert"} => \E b \in live : b.page # PageSize
    /\ end = "crash" => \E b \in live : b.page # page_size \/ "free" \in b.refused
    /\ end = "caught" => \E b \in live : b.early \/ Overwritten(b)

(* No byte that the user wrote in or before its block is in the pages      *)
(* given back to the kernel.                                               *)
FreedIsWiped ==
    \A a \in Word : prot[PageOf(a)] = "unmapped" => mem[a] # User
=============================================================================
