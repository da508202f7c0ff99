------------------------- MODULE GuardedHeapProofs --------------------------
(***************************************************************************)
(* GuardedHeap, for any width of a size_t, size of a page and of a canary, *)
(* placement by mmap(), number and sizes of blocks, and refused mprotect().*)
(* What follows is about behaviours in which no block exists while the     *)
(* library is mistaken about the size of a page (Settled): the application *)
(* allocates after sodium_init(), as it is told to, or PAGE_SIZE is right. *)
(*                                                                         *)
(* A block occupies whole pages, so the invariant counts in pages: those   *)
(* of the user's bytes are First(b) .. End(b) - 1, the two before them are *)
(* the one of the size word and a guard, and End(b) is the other guard.    *)
(***************************************************************************)
EXTENDS GuardedHeap, TLAPS

NbPages == WordMod \div PageSize
Addr(p) == PageSize * p

First(b) == PageOf(b.ptr - CanarySize)
End(b)   == PageOf(b.ptr + b.want)
Own(b)   == (First(b) - 2) .. End(b)

Kinds == {"zero", "garbage", "user", "beyond", "canary", "size"}
Modes == {"none", "read", "rw"}

(* A block; `want : Word' says that none stands for a product that does    *)
(* not fit in a size_t.                                                    *)
Blocks == [ptr : Word, want : Word, mode : {"none", "read", "rw"}, early : BOOLEAN,
           page : DefaultSizes \cup {PageSize},
           refused : SUBSET {"before", "after", "size", "free"}]

(* The assumption of the theorems: whoever holds a block allocated it with  *)
(* the page size of the machine, as after sodium_init() or where PAGE_SIZE *)
(* is defined and right, and the library has not changed it since.         *)
Settled == live # {} => page_size = PageSize

Typed ==
    /\ protect \in BOOLEAN /\ drawn \in BOOLEAN /\ page_size \in DefaultSizes \cup {PageSize}
    /\ prot \in [Page -> {"unmapped"} \cup Modes]
    /\ mem \in [Word -> Kinds \X Nat]
    /\ live \subseteq Blocks
    /\ made \in 0 .. MaxBlocks

(* The bytes of the user end where a page does, the canary is in the first *)
(* page that holds any of them, and nothing wraps.                         *)
Shape(b) ==
    /\ First(b) >= 3 /\ First(b) < End(b) /\ End(b) < NbPages
    /\ b.ptr + b.want = Addr(End(b))
    /\ b.page = PageSize

(* What sodium_free() reads is what sodium_malloc() mapped.                *)
HeaderKept(b) == mem[Addr(First(b) - 2)] = SizeWord(Addr(End(b) - First(b)))

Guarded(b) ==
    IF protect
    THEN /\ prot[First(b) - 2] \in {"read", "rw"} /\ prot[First(b) - 1] \in {"none", "rw"}
         /\ prot[End(b)] \in {"none", "rw"}
         /\ "size" \notin b.refused => prot[First(b) - 2] = "read"
         /\ "before" \notin b.refused => prot[First(b) - 1] = "none"
         /\ "after" \notin b.refused => prot[End(b)] = "none"
         /\ \A p \in First(b) .. (End(b) - 1) : prot[p] = b.mode
    ELSE \A p \in Own(b) : prot[p] = "rw"

(* A canary only changes when the application writes there.  The last one  *)
(* is exposed to it in one byte.                                           *)
CanaryKept(b) ==
    /\ \A i \in 0 .. (CanarySize - 1) :
          mem[(b.ptr - CanarySize) + i] \in {<<"canary", i>>, User}
    /\ ~ protect =>
          \A i \in 0 .. (CanarySize - 1) :
             mem[Addr(End(b)) + i] \in {<<"canary", i>>} \cup (IF i = 0 THEN {Beyond} ELSE {})

(* The bytes of a block that are the user's once written.                  *)
Reach(b) == Addr(First(b)) .. (Addr(End(b)) - 1)

Laid ==
    /\ \A b \in live : Shape(b) /\ HeaderKept(b) /\ Guarded(b)
    /\ \A b, c \in live : b # c => Own(b) \cap Own(c) = {}
    /\ \A p \in Page : prot[p] # "unmapped" => \E b \in live : p \in Own(b)

Written ==
    /\ \A b \in live : ~ b.early => drawn /\ CanaryKept(b)
    /\ \A a \in Word : mem[a] = User => \E b \in live : a \in Reach(b)

Quiet ==
    /\ missed = {}
    /\ end \in {"running", "fault", "caught", "crash"}
    /\ end = "crash" => \E b \in live : "free" \in b.refused
    /\ end = "caught" => \E b \in live : b.early \/ Overwritten(b)

HeapInv == Typed /\ Laid /\ Written /\ Quiet

-----------------------------------------------------------------------------
(* Pages and addresses.                                                    *)

LEMMA DivMod ==
    ASSUME NEW n \in Int
    PROVE  /\ n \div PageSize \in Int /\ n % PageSize \in 0 .. (PageSize - 1)
           /\ n = PageSize * (n \div PageSize) + (n % PageSize)
BY PageAssumption

LEMMA PageOfAt ==
    ASSUME NEW q \in Int, NEW r \in 0 .. (PageSize - 1)
    PROVE  PageOf(Addr(q) + r) = q /\ (Addr(q) + r) % PageSize = r
BY PageAssumption DEF PageOf, Addr

LEMMA Monotone ==
    ASSUME NEW x \in Int, NEW y \in Int
    PROVE  /\ Addr(x) \in Int
           /\ x < y <=> Addr(x) < Addr(y)
           /\ x < y => Addr(x) + PageSize <= Addr(y)
<1> PageSize \in Nat \ {0}
  BY PageAssumption
<1>1. x < y => PageSize * x + PageSize <= PageSize * y
  OBVIOUS
<1>2. y <= x => PageSize * y <= PageSize * x
  OBVIOUS
<1> QED BY <1>1, <1>2 DEF Addr

LEMMA Linear ==
    ASSUME NEW x \in Int, NEW y \in Int
    PROVE  /\ Addr(x) \in Int
           /\ Addr(x + y) = Addr(x) + Addr(y)
           /\ Addr(x - y) = Addr(x) - Addr(y)
BY PageAssumption DEF Addr

LEMMA FewPages == /\ Addr(0) = 0 /\ Addr(1) = PageSize /\ Addr(2) = PageSize * 2
                  /\ Addr(3) = PageSize * 3 /\ Addr(4) = PageSize * 4 /\ PageSize \in Nat /\ PageSize > 0
BY PageAssumption DEF Addr

(* Where an address is, in terms of its page.                              *)
LEMMA Located ==
    ASSUME NEW a \in Int
    PROVE  /\ PageOf(a) \in Int /\ Addr(PageOf(a)) \in Int
           /\ Addr(PageOf(a)) <= a /\ a < Addr(PageOf(a)) + PageSize
           /\ a = Addr(PageOf(a)) + (a % PageSize)
<1>1. Addr(a \div PageSize) \in Int
  BY DivMod, Monotone
<1>2. a = Addr(a \div PageSize) + (a % PageSize)
  BY DivMod DEF Addr
<1> QED BY DivMod, <1>1, <1>2, PageAssumption DEF PageOf

LEMMA InPages ==
    ASSUME NEW a \in Int, NEW q \in Int, NEW e \in Int
    PROVE  /\ q <= PageOf(a) <=> Addr(q) <= a
           /\ PageOf(a) < e <=> a < Addr(e)
<1> DEFINE p == PageOf(a)
<1>1. p \in Int /\ Addr(p) <= a /\ a < Addr(p) + PageSize /\ Addr(p) \in Int /\ Addr(q) \in Int /\ Addr(e) \in Int
  BY Located, Monotone
<1> HIDE DEF p
<1>2. /\ p < q => Addr(p) + PageSize <= Addr(q)
      /\ q < p => Addr(q) < Addr(p)
      /\ p < e => Addr(p) + PageSize <= Addr(e)
      /\ e < p => Addr(e) < Addr(p)
  BY <1>1, Monotone
<1>3. PageSize \in Nat
  BY PageAssumption
<1>4. /\ q <= p <=> Addr(q) <= a
      /\ p < e <=> a < Addr(e)
  BY <1>1, <1>2, <1>3
<1> QED BY <1>4 DEF p

LEMMA WholePages ==
    /\ NbPages \in Nat /\ NbPages > 4 /\ WordMod = Addr(NbPages) /\ WordMod \in Nat
    /\ Page = 0 .. (NbPages - 1)
<1>1. WordMod \in Int /\ WordMod % PageSize = 0 /\ WordMod > PageSize * 4
  BY PageAssumption
<1>2. NbPages \in Int /\ WordMod = Addr(NbPages)
  <2>1. /\ WordMod \div PageSize \in Int
        /\ WordMod = PageSize * (WordMod \div PageSize) + (WordMod % PageSize)
    BY <1>1, DivMod
  <2>2. PageSize * (WordMod \div PageSize) \in Int
    BY <2>1, PageAssumption
  <2> QED BY <1>1, <2>1, <2>2 DEF NbPages, Addr
<1>3. Addr(4) < Addr(NbPages)
  BY <1>1, <1>2, FewPages
<1>4. NbPages > 4
  BY <1>2, <1>3, Monotone
<1> QED BY <1>2, <1>4, PageAssumption DEF Page, NbPages

LEMMA AddressPage ==
    ASSUME NEW a \in Int
    PROVE  a \in Word <=> PageOf(a) \in Page
<1>1. /\ PageOf(a) \in Int /\ NbPages \in Int
  BY Located, WholePages
<1>2. (0 <= PageOf(a) <=> Addr(0) <= a) /\ (PageOf(a) < NbPages <=> a < Addr(NbPages))
  BY <1>1, InPages
<1> QED BY <1>1, <1>2, WholePages, FewPages DEF Word, SizeMax

(* ... and the same for the addresses.                                     *)
LEMMA BytesAligned ==
    ASSUME NEW q \in Int, NEW k \in Nat, NEW a \in Int
    PROVE  a \in Bytes(Addr(q), Addr(k)) <=> PageOf(a) \in q .. (q + k - 1)
<1>1. Addr(q + k) = Addr(q) + Addr(k) /\ Addr(q) \in Int /\ Addr(k) \in Int
  BY Linear
<1>2. PageOf(a) \in Int /\ q + k \in Int
  BY Located
<1>3. /\ q <= PageOf(a) <=> Addr(q) <= a
      /\ PageOf(a) < q + k <=> a < Addr(q + k)
  BY <1>2, InPages
<1> QED BY <1>1, <1>2, <1>3 DEF Bytes

(* A whole number of pages from the beginning of one.                      *)
LEMMA PagesAligned ==
    ASSUME NEW q \in Int, NEW k \in Nat
    PROVE  Pages(Addr(q), Addr(k)) = q .. (q + k - 1)
<1>1. Bytes(Addr(q), Addr(k)) \subseteq Int
  BY Linear DEF Bytes
<1>2. ASSUME NEW p \in q .. (q + k - 1)
      PROVE  \E b \in Bytes(Addr(q), Addr(k)) : PageOf(b) = p
  <2>0. p \in Int /\ 0 \in 0 .. (PageSize - 1)
    BY FewPages
  <2>1. Addr(p) + 0 \in Int /\ PageOf(Addr(p) + 0) = p
    BY <2>0, PageOfAt, Monotone
  <2>2. Addr(p) + 0 \in Bytes(Addr(q), Addr(k))
    BY <2>1, BytesAligned
  <2> QED BY <2>1, <2>2
<1> QED BY <1>1, <1>2, BytesAligned DEF Pages

-----------------------------------------------------------------------------
(* Sizes.                                                                  *)

(* The pages of the canary and the user's bytes.                           *)
Frames(size) == PageOf(CanarySize + size + PageSize - 1)

LEMMA Parts ==
    /\ CanarySize \in Nat /\ CanarySize > 0 /\ CanarySize < PageSize
    /\ PageSize \in Nat /\ PageSize > 0 /\ WordMod \in Nat /\ WordMod > PageSize * 4
    /\ WordMod = Addr(NbPages) /\ NbPages \in Nat /\ SizeMax = WordMod - 1
BY CanaryAssumption, PageAssumption, WholePages DEF SizeMax

LEMMA SmallMod == ASSUME NEW n \in Int, 0 <= n, n < WordMod PROVE n % WordMod = n
BY Parts

(* A size that is not rejected is rounded without wrapping.                *)
LEMMA Rounded ==
    ASSUME page_size = PageSize, NEW size \in Word, ~ Rejected(size)
    PROVE  /\ Frames(size) \in Nat /\ Frames(size) >= 1 /\ Frames(size) + 3 <= NbPages
           /\ WithCanary(size) = CanarySize + size
           /\ UnprotectedSize(size) = Addr(Frames(size)) /\ Addr(Frames(size)) \in Int
           /\ CanarySize + size <= Addr(Frames(size))
           /\ Addr(Frames(size)) < CanarySize + size + PageSize
<1> DEFINE m == CanarySize + size + PageSize - 1
           k == PageOf(m)
<1>1. size \in Nat /\ size < WordMod - 1 - PageSize * 4 /\ PageSize * 4 \in Nat
  BY Parts DEF Word, Rejected, SizeMax
<1>2. m \in Int /\ 0 <= m /\ PageSize <= m /\ m < WordMod - PageSize - PageSize
  BY <1>1, Parts, FewPages
<1>3. (CanarySize + size) % WordMod = CanarySize + size /\ m % WordMod = m
  <2>1. CanarySize + size \in Int /\ 0 <= CanarySize + size /\ CanarySize + size < WordMod
    BY <1>1, Parts, FewPages
  <2>2. m < WordMod
    BY <1>2, Parts
  <2> HIDE DEF m
  <2> QED BY <1>2, <2>1, <2>2, SmallMod
<1>4. k \in Int /\ Addr(k) \in Int /\ Addr(k) <= m /\ m < Addr(k) + PageSize
      /\ m = Addr(k) + (m % PageSize) /\ m % PageSize \in Int
  BY <1>2, Located, DivMod
<1>5. WithCanary(size) = CanarySize + size
  BY <1>3 DEF WithCanary
<1>6. PageRound(CanarySize + size) = m - (m % PageSize)
  BY <1>3 DEF PageRound, RoundDown
<1>7. UnprotectedSize(size) = m - (m % PageSize)
  BY <1>5, <1>6 DEF UnprotectedSize
<1>8. 1 <= k
  <2> HIDE DEF m
  <2>1. m \in Int /\ 1 \in Int /\ Addr(1) <= m
    BY <1>2, FewPages
  <2> QED BY <2>1, InPages
<1>9. k + 3 <= NbPages
  <2> HIDE DEF k
  <2>0. k \in Int /\ NbPages \in Int /\ 3 \in Int /\ 1 \in Int
    BY <1>4, Parts
  <2>1. Addr(k + 3) = Addr(k) + PageSize * 3 /\ Addr(NbPages + 1) = Addr(NbPages) + PageSize
        /\ k + 3 \in Int /\ NbPages + 1 \in Int
    <3>1. Addr(k + 3) = Addr(k) + Addr(3)
      BY <2>0, Linear
    <3>2. Addr(NbPages + 1) = Addr(NbPages) + Addr(1)
      BY <2>0, Linear
    <3> QED BY <2>0, <3>1, <3>2, FewPages
  <2>2. Addr(k + 3) < Addr(NbPages + 1)
    BY <1>2, <1>4, <2>1, Parts
  <2>3. k + 3 < NbPages + 1
    BY <2>1, <2>2, Monotone
  <2> QED BY <1>4, <2>3, Parts
<1>10. k = Frames(size)
  BY DEF Frames
<1> HIDE DEF m, k
<1>11. CanarySize + size <= Addr(k) /\ Addr(k) < CanarySize + size + PageSize
  BY <1>1, <1>4, Parts DEF m
<1>12. UnprotectedSize(size) = Addr(k)
  BY <1>2, <1>4, <1>7
<1> QED BY <1>4, <1>5, <1>8, <1>9, <1>10, <1>11, <1>12

(* The total wraps to 0 where it cannot be mapped, and to nothing else.    *)
LEMMA Totals ==
    ASSUME page_size = PageSize, NEW k \in Nat, k + 3 <= NbPages
    PROVE  /\ k + 3 < NbPages => TotalSize(Addr(k)) = Addr(k + 3) /\ Addr(k + 3) > 0
           /\ k + 3 = NbPages => TotalSize(Addr(k)) = 0
<1>1. Addr(k + 3) = PageSize * 3 + Addr(k) /\ Addr(k + 3) \in Int
  BY Linear, FewPages
<1>2. Addr(0) < Addr(k + 3) /\ Addr(0) = 0
  BY Monotone, FewPages
<1>3. CASE k + 3 < NbPages
  <2>1. Addr(k + 3) < WordMod
    BY <1>3, Monotone, Parts
  <2> QED BY <1>1, <1>2, <1>3, <2>1, SmallMod DEF TotalSize
<1>4. CASE k + 3 = NbPages
  BY <1>1, <1>4, Parts DEF TotalSize
<1> QED BY <1>3, <1>4

(* _unprotected_ptr_from_user_ptr() finds the page where the canary begins.*)
LEMMA Unprotected ==
    ASSUME page_size = PageSize, NEW ptr \in Int, ptr - CanarySize \in Word
    PROVE  UnprotectedPtr(ptr) = Addr(PageOf(ptr - CanarySize))
<1> DEFINE c == ptr - CanarySize
<1>1. c \in Int /\ c % WordMod = c
  BY SmallMod, Parts DEF Word
<1>2. Addr(PageOf(c)) \in Int /\ c = Addr(PageOf(c)) + (c % PageSize) /\ c % PageSize \in Int
  BY <1>1, Located, DivMod
<1> QED BY <1>1, <1>2 DEF UnprotectedPtr, RoundDown

-----------------------------------------------------------------------------
(* Where a block is.                                                       *)

(* Where sodium_malloc() puts the block that mmap() places at base.        *)
PtrAt(base, size) == base + PageSize * 2 + CanaryOffset(size) + CanarySize

LEMMA Placed ==
    ASSUME page_size = PageSize, NEW size \in Word, ~ Rejected(size), NEW base \in Bases,
           Mappable(base, TotalSize(UnprotectedSize(size)))
    PROVE  LET q == PageOf(base) + 2
               k == Frames(size)
           IN  /\ q \in Nat /\ q >= 3 /\ k \in Nat /\ k >= 1 /\ q + k + 1 <= NbPages
               /\ base = Addr(q - 2)
               /\ UnprotectedSize(size) = Addr(k)
               /\ TotalSize(UnprotectedSize(size)) = Addr(k + 3)
               /\ PtrAt(base, size) + size = Addr(q + k)
               /\ PageOf(PtrAt(base, size) - CanarySize) = q
               /\ UnprotectedPtr(PtrAt(base, size)) = Addr(q)
               /\ PtrAt(base, size) \in Word
               /\ CanaryOffset(size) + CanarySize + size = UnprotectedSize(size)
               /\ CanaryOffset(size) \in 0 .. (PageSize - 1)
<1> DEFINE q == PageOf(base) + 2
           k == Frames(size)
           o == CanaryOffset(size)
<1>1. base \in Int /\ base >= PageSize /\ base % PageSize = 0 /\ size \in Nat
  BY BasesAssumption DEF Word
<1>2. /\ k \in Nat /\ k >= 1 /\ k + 3 <= NbPages /\ Addr(k) \in Int
      /\ UnprotectedSize(size) = Addr(k) /\ WithCanary(size) = CanarySize + size
      /\ CanarySize + size <= Addr(k) /\ Addr(k) < CanarySize + size + PageSize
  BY Rounded
<1>3. o = Addr(k) - (CanarySize + size) /\ o \in 0 .. (PageSize - 1)
  BY <1>1, <1>2, Parts DEF CanaryOffset
<1>4. base = Addr(q - 2) /\ q \in Int
  BY <1>1, Located
<1>5. q >= 3
  <2>1. PageOf(base) \in Int
    BY <1>1, Located
  <2>2. 1 \in Int /\ base \in Int
    BY <1>1
  <2>3. 1 <= PageOf(base) <=> Addr(1) <= base
    BY <2>2, InPages
  <2>4. Addr(1) = PageSize
    BY FewPages
  <2>5. 1 <= PageOf(base)
    BY <1>1, <2>3, <2>4
  <2> QED BY <2>1, <2>5
<1>6. k + 3 < NbPages /\ TotalSize(Addr(k)) = Addr(k + 3)
  BY <1>2, Totals, Parts DEF Mappable
<1> HIDE DEF q, k, o
<1>7. q + k + 1 <= NbPages
  <2>1. Addr((q - 2) + (k + 3)) = Addr(q - 2) + Addr(k + 3) /\ Addr(k + 3) \in Int
    BY <1>2, <1>4, Linear
  <2>2. Addr(q + k + 1) <= Addr(NbPages) /\ (q - 2) + (k + 3) = q + k + 1
    BY <1>2, <1>4, <1>6, <2>1, Parts DEF Mappable
  <2>3. ~ (NbPages < q + k + 1)
    BY <1>2, <1>4, <2>2, Monotone, Parts
  <2> QED BY <1>2, <1>4, <2>3, Parts
<1>8. /\ Addr(q) = Addr(q - 2) + PageSize * 2 /\ Addr(q + k) = Addr(q) + Addr(k)
      /\ Addr(q) \in Int /\ Addr(q + k) \in Int /\ Addr(q - 2) \in Int
  <2>0. q \in Int /\ k \in Int /\ q + k \in Int
    BY <1>2, <1>4
  <2>1. Addr(q + k) = Addr(q) + Addr(k)
    BY <2>0, Linear
  <2>3. Addr(q) \in Int /\ Addr(q + k) \in Int
    BY <2>0, Linear
  <2>2. Addr(q - 2) = Addr(q) - Addr(2) /\ Addr(q - 2) \in Int
    BY <1>4, Linear
  <2> QED BY <2>1, <2>2, <2>3, FewPages
<1>9. PtrAt(base, size) = Addr(q) + o + CanarySize /\ PtrAt(base, size) \in Int
  BY <1>3, <1>4, <1>8, Parts DEF PtrAt, o
<1>10. PtrAt(base, size) + size = Addr(q + k)
  BY <1>1, <1>2, <1>3, <1>8, <1>9, Parts
<1>11. PageOf(PtrAt(base, size) - CanarySize) = q
  <2>1. PtrAt(base, size) - CanarySize = Addr(q) + o
    BY <1>3, <1>8, <1>9, Parts
  <2> QED BY <1>3, <1>4, <2>1, PageOfAt
<1>12. PtrAt(base, size) - CanarySize \in Word
  <2>1. q \in Page
    BY <1>2, <1>4, <1>5, <1>7, WholePages
  <2> QED BY <1>9, <1>11, <2>1, AddressPage, Parts
<1>13. PtrAt(base, size) \in Word
  <2>1. Addr(q + k) < Addr(NbPages)
    BY <1>2, <1>4, <1>7, Monotone, Parts
  <2> QED BY <1>1, <1>9, <1>10, <1>12, <2>1, Parts DEF Word
<1>14. UnprotectedPtr(PtrAt(base, size)) = Addr(q)
  BY <1>9, <1>11, <1>12, Unprotected
<1>15. o + CanarySize + size = Addr(k)
  BY <1>1, <1>2, <1>3, Parts
<1> QED BY <1>2, <1>3, <1>4, <1>5, <1>6, <1>7, <1>10, <1>11, <1>13, <1>14, <1>15 DEF q, k, o

(* What a block's shape says.                                              *)
LEMMA ShapeFacts ==
    ASSUME NEW b \in Blocks, Shape(b)
    PROVE  /\ First(b) \in Nat /\ End(b) \in Nat /\ First(b) >= 3 /\ First(b) < End(b)
           /\ End(b) < NbPages /\ Own(b) \in SUBSET Page
           /\ b.ptr \in Int /\ b.want \in Nat /\ b.ptr + b.want = Addr(End(b))
           /\ Addr(First(b)) \in Int /\ Addr(First(b)) <= b.ptr - CanarySize
           /\ b.ptr - CanarySize < Addr(First(b)) + PageSize
           /\ Addr(End(b)) \in Int /\ Addr(First(b)) < Addr(End(b))
           /\ b.ptr - CanarySize \in Word /\ b.page = PageSize
           /\ Addr(First(b)) - PageSize * 2 = Addr(First(b) - 2)
<1>1. b.ptr \in Int /\ b.want \in Nat
  BY DEF Blocks, Word
<1>2. b.ptr - CanarySize \in Int /\ b.ptr + b.want \in Int
  BY <1>1, Parts
<1>3. First(b) \in Int /\ End(b) \in Int /\ Addr(First(b)) \in Int /\ Addr(End(b)) \in Int
      /\ Addr(First(b)) <= b.ptr - CanarySize /\ b.ptr - CanarySize < Addr(First(b)) + PageSize
  BY <1>2, Located DEF First, End
<1>4. First(b) >= 3 /\ First(b) < End(b) /\ End(b) < NbPages /\ b.ptr + b.want = Addr(End(b))
  BY DEF Shape
<1>5. Own(b) \in SUBSET Page
  BY <1>3, <1>4, WholePages DEF Own
<1>6. First(b) \in Page
  BY <1>3, <1>4, WholePages
<1>7. b.ptr - CanarySize \in Word /\ b.page = PageSize
  BY <1>1, <1>2, <1>6, AddressPage DEF First, Shape
<1>8. Addr(First(b) - 2) = Addr(First(b)) - Addr(2)
  BY <1>3, Linear
<1>9. Addr(First(b)) < Addr(End(b))
  BY <1>3, <1>4, Monotone
<1> QED BY <1>1, <1>3, <1>4, <1>5, <1>7, <1>8, <1>9, FewPages

(* The regions of the code, in pages.                                      *)
LEMMA Regions ==
    ASSUME page_size = PageSize, NEW b \in Blocks, Shape(b), HeaderKept(b)
    PROVE  /\ UnprotectedPtr(b.ptr) = Addr(First(b)) /\ Base(b.ptr) = Addr(First(b) - 2)
           /\ Header(b.ptr) = Addr(End(b) - First(b))
           /\ Pages(UnprotectedPtr(b.ptr), Header(b.ptr)) = First(b) .. (End(b) - 1)
           /\ FreePages(b) = Own(b)
           /\ \A a \in Int : a \in Bytes(UnprotectedPtr(b.ptr), Header(b.ptr))
                                <=> PageOf(a) \in First(b) .. (End(b) - 1)
           /\ UnprotectedPtr(b.ptr) + Header(b.ptr) = Addr(End(b))
<1> DEFINE f == First(b)
           e == End(b)
           k == End(b) - First(b)
<1>0. UnprotectedPtr(b.ptr) = Addr(f)
  BY ShapeFacts, Unprotected DEF First
<1>1. /\ f \in Int /\ e \in Int /\ f >= 3 /\ k \in Nat /\ k >= 1 /\ e < NbPages /\ f + k = e
      /\ UnprotectedPtr(b.ptr) = Addr(f) /\ Base(b.ptr) = Addr(f - 2)
  BY <1>0, ShapeFacts DEF Base
<1>2. Header(b.ptr) = Addr(k)
  BY <1>1 DEF Header, HeaderKept, SizeWord
<1> HIDE DEF f, e, k
<1>3. FreeSize(b) = Addr(k + 3)
  BY <1>1, <1>2, Totals, WholePages DEF FreeSize
<1>4. Pages(Addr(f), Addr(k)) = f .. (f + k - 1)
  BY <1>1, PagesAligned
<1>5. Pages(Addr(f - 2), Addr(k + 3)) = (f - 2) .. ((f - 2) + (k + 3) - 1)
  BY <1>1, PagesAligned
<1>6. (f - 2) + (k + 3) - 1 = e
  BY <1>1
<1>7. \A a \in Int : a \in Bytes(Addr(f), Addr(k)) <=> PageOf(a) \in f .. (f + k - 1)
  BY <1>1, BytesAligned
<1>8. Addr(f + k) = Addr(f) + Addr(k)
  BY <1>1, Linear
<1> QED BY <1>1, <1>2, <1>3, <1>4, <1>5, <1>6, <1>7, <1>8 DEF f, e, k, Own, FreePages

(* The bytes of a block that matter, and their pages.                      *)
LEMMA BlockBytes ==
    ASSUME NEW b \in Blocks, Shape(b)
    PROVE  /\ Addr(First(b) - 2) \in Word /\ PageOf(Addr(First(b) - 2)) = First(b) - 2
           /\ \A i \in 0 .. (CanarySize - 1) :
                 /\ (b.ptr - CanarySize) + i \in Word
                 /\ PageOf((b.ptr - CanarySize) + i) \in First(b) .. (End(b) - 1)
                 /\ Addr(End(b)) + i \in Word /\ PageOf(Addr(End(b)) + i) = End(b)
           /\ \A a \in Int : Addr(First(b)) <= a /\ a <= Addr(End(b)) =>
                 /\ a \in Word /\ PageOf(a) \in First(b) .. End(b)
                 /\ a < Addr(End(b)) => PageOf(a) \in First(b) .. (End(b) - 1)
                 /\ a = Addr(End(b)) <=> PageOf(a) = End(b)
<1> DEFINE f == First(b)
           e == End(b)
           c == b.ptr - CanarySize
<1>1. /\ f \in Int /\ e \in Int /\ f >= 3 /\ f < e /\ e < NbPages /\ c \in Int
      /\ Addr(f) <= c /\ c < Addr(f) + PageSize /\ Addr(f) \in Int /\ Addr(e) \in Int
      /\ c + CanarySize <= Addr(e)
  BY ShapeFacts, Parts
<1>2. \A p \in Int : p \in (f - 2) .. e => p \in Page
  BY <1>1, WholePages
<1> HIDE DEF f, e, c
<1>3. ASSUME NEW a \in Int, Addr(f) <= a, a <= Addr(e)
      PROVE  /\ a \in Word /\ PageOf(a) \in f .. e
             /\ a < Addr(e) => PageOf(a) \in f .. (e - 1)
             /\ a = Addr(e) <=> PageOf(a) = e
  <2>1. PageOf(a) \in Int /\ f <= PageOf(a)
    BY <1>1, <1>3, InPages, Located
  <2>2. PageOf(a) < e <=> a < Addr(e)
    BY <1>1, InPages
  <2>3. PageOf(Addr(e) + 0) = e
    BY <1>1, PageOfAt, Parts
  <2>4. a = Addr(e) => PageOf(a) = e
    BY <1>1, <2>3
  <2>5. PageOf(a) \in f .. e
    BY <1>1, <1>3, <2>1, <2>2, <2>4
  <2>6. a \in Word
    BY <1>1, <1>2, <2>5, AddressPage
  <2> QED BY <1>1, <1>3, <2>1, <2>2, <2>4, <2>5, <2>6
<1>4. ASSUME NEW i \in 0 .. (CanarySize - 1)
      PROVE  /\ c + i \in Word /\ PageOf(c + i) \in f .. (e - 1)
             /\ Addr(e) + i \in Word /\ PageOf(Addr(e) + i) = e
  <2>1. c + i \in Int /\ Addr(f) <= c + i /\ c + i < Addr(e) /\ i \in 0 .. (PageSize - 1)
    BY <1>1, Parts
  <2>2. PageOf(Addr(e) + i) = e /\ Addr(e) + i \in Int
    BY <1>1, <2>1, PageOfAt
  <2>3. Addr(e) + i \in Word
    BY <1>1, <1>2, <2>2, AddressPage
  <2> QED BY <1>1, <1>3, <2>1, <2>2, <2>3
<1>5. Addr(f - 2) \in Word /\ PageOf(Addr(f - 2)) = f - 2
  <2>1. f - 2 \in Int /\ 0 \in 0 .. (PageSize - 1) /\ Addr(f - 2) \in Int
    BY <1>1, Parts, Monotone
  <2>2. PageOf(Addr(f - 2) + 0) = f - 2
    BY <2>1, PageOfAt
  <2>3. PageOf(Addr(f - 2)) = f - 2
    BY <2>1, <2>2
  <2> QED BY <1>1, <1>2, <2>1, <2>3, AddressPage
<1> QED BY <1>3, <1>4, <1>5 DEF f, e, c

LEMMA ReachFacts ==
    ASSUME Typed, NEW b \in Blocks, Shape(b), NEW a \in Reach(b)
    PROVE  a \in Word /\ PageOf(a) \in Own(b) /\ PageOf(a) \in First(b) .. (End(b) - 1)
<1>1. /\ Addr(First(b)) \in Int /\ Addr(End(b)) \in Int /\ Addr(First(b)) < Addr(End(b))
      /\ First(b) \in Nat /\ End(b) \in Nat
  BY ShapeFacts
<1>2. a \in Int /\ Addr(First(b)) <= a /\ a < Addr(End(b))
  BY <1>1 DEF Reach
<1>3. a \in Word /\ PageOf(a) \in First(b) .. (End(b) - 1)
  BY <1>1, <1>2, BlockBytes
<1> QED BY <1>1, <1>2, <1>3 DEF Own

(* A block stays as it is while nothing happens in its pages.              *)
LEMMA Keeps ==
    ASSUME NEW b \in Blocks, Shape(b), protect' = protect,
           \A p \in Own(b) : prot'[p] = prot[p],
           \A a \in Word : PageOf(a) \in Own(b) => mem'[a] = mem[a]
    PROVE  /\ HeaderKept(b) => HeaderKept(b)'
           /\ Guarded(b) => Guarded(b)'
           /\ CanaryKept(b) => CanaryKept(b)'
<1>1. First(b) \in Nat /\ End(b) \in Nat /\ First(b) >= 3 /\ First(b) < End(b)
  BY ShapeFacts
<1>2. mem'[Addr(First(b) - 2)] = mem[Addr(First(b) - 2)]
  BY <1>1, BlockBytes DEF Own
<1>3. \A i \in 0 .. (CanarySize - 1) :
         /\ mem'[(b.ptr - CanarySize) + i] = mem[(b.ptr - CanarySize) + i]
         /\ mem'[Addr(End(b)) + i] = mem[Addr(End(b)) + i]
  BY <1>1, BlockBytes DEF Own
<1>4. HeaderKept(b) => HeaderKept(b)'
  BY <1>2 DEF HeaderKept
<1>5. Guarded(b) => Guarded(b)'
  BY <1>1 DEF Guarded, Own
<1>6. CanaryKept(b) => CanaryKept(b)'
  BY <1>3 DEF CanaryKept
<1> QED BY <1>4, <1>5, <1>6

LEMMA OwnIsMapped ==
    ASSUME NEW b \in Blocks, Shape(b), Guarded(b), NEW p \in Own(b)
    PROVE  prot[p] \in Modes
<1>1. First(b) \in Nat /\ End(b) \in Nat /\ First(b) >= 3 /\ First(b) < End(b)
  BY ShapeFacts
<1>2. b.mode \in Modes
  BY DEF Blocks, Modes
<1>3. \/ p = First(b) - 2 \/ p = First(b) - 1 \/ p = End(b) \/ p \in First(b) .. (End(b) - 1)
  BY <1>1 DEF Own
<1> QED BY <1>2, <1>3 DEF Guarded, Modes

(* The blocks of `live' are laid out, and away from each other.            *)
LEMMA LiveFacts ==
    ASSUME Typed, Laid, NEW b \in live
    PROVE  /\ b \in Blocks /\ Shape(b) /\ HeaderKept(b) /\ Guarded(b)
           /\ \A c \in live : c # b => \A p \in Own(c) : p \notin Own(b)
<1>1. b \in Blocks /\ Shape(b) /\ HeaderKept(b) /\ Guarded(b)
  BY DEF Typed, Laid
<1>2. \A c \in live : c # b => Own(c) \cap Own(b) = {}
  BY DEF Laid
<1> QED BY <1>1, <1>2

-----------------------------------------------------------------------------
(* sodium_malloc().                                                        *)

(* What mmap() and sodium_malloc() make of the pages and bytes.            *)
NewBlock(base, size, refused) == Block(PtrAt(base, size), size, refused)

LEMMA NewShape ==
    ASSUME page_size = PageSize, NEW size \in Word, ~ Rejected(size), NEW base \in Bases,
           drawn \in BOOLEAN, Mappable(base, TotalSize(UnprotectedSize(size))),
           NEW refused \in SUBSET {"before", "after", "size"}
    PROVE  LET n == NewBlock(base, size, refused)
           IN  /\ n \in Blocks /\ Shape(n) /\ n.ptr = PtrAt(base, size) /\ n.want = size
               /\ n.mode = "rw" /\ n.early = ~ drawn /\ n.refused = refused
               /\ base = Addr(First(n) - 2) /\ PageOf(base) = First(n) - 2
               /\ base + PageSize * 2 = Addr(First(n))
               /\ UnprotectedSize(size) = Addr(End(n) - First(n))
               /\ TotalSize(UnprotectedSize(size)) = Addr(End(n) - First(n) + 3)
               /\ base + PageSize * 2 + UnprotectedSize(size) = Addr(End(n))
               /\ base + PageSize * 2 + CanaryOffset(size) = n.ptr - CanarySize
               /\ Pages(base, TotalSize(UnprotectedSize(size))) = Own(n)
               /\ \A a \in Int : a \in Bytes(base, TotalSize(UnprotectedSize(size)))
                                    <=> PageOf(a) \in Own(n)
               /\ \A p \in Own(n) : prot[p] = "unmapped"
               /\ SizePages(base) = {First(n) - 2} /\ GuardBefore(base) = {First(n) - 1}
               /\ GuardAfter(base, size) = {End(n)}
<1> DEFINE n == NewBlock(base, size, refused)
           q == PageOf(base) + 2
           k == Frames(size)
           ptr == PtrAt(base, size)
           us == UnprotectedSize(size)
<1>1. /\ q \in Nat /\ q >= 3 /\ k \in Nat /\ k >= 1 /\ q + k + 1 <= NbPages
      /\ base = Addr(q - 2) /\ us = Addr(k) /\ TotalSize(us) = Addr(k + 3)
      /\ ptr + size = Addr(q + k) /\ PageOf(ptr - CanarySize) = q /\ ptr \in Word
      /\ CanaryOffset(size) \in 0 .. (PageSize - 1)
  BY Placed
<1>2. /\ n.ptr = ptr /\ n.want = size /\ n.mode = "rw" /\ n.early = ~ drawn
      /\ n.page = PageSize /\ n.refused = refused
  BY DEF NewBlock, Block
<1>3. n \in Blocks
  BY <1>1 DEF NewBlock, Block, Blocks
<1>4. ptr = base + PageSize * 2 + CanaryOffset(size) + CanarySize /\ base \in Int
      /\ PageOf(base) \in Int
  BY BasesAssumption, Located DEF PtrAt
<1> HIDE DEF n, q, k, ptr, us
<1>5. First(n) = q
  BY <1>1, <1>2 DEF First
<1>6. PageOf(Addr(q + k) + 0) = q + k
  BY <1>1, PageOfAt, Parts
<1>7. End(n) = q + k
  <2>1. Addr(q + k) \in Int
    BY <1>1, Monotone
  <2> QED BY <1>1, <1>2, <1>6, <2>1 DEF End
<1>8. Shape(n)
  BY <1>1, <1>2, <1>5, <1>7, Parts DEF Shape
<1>9. Pages(Addr(q - 2), Addr(k + 3)) = (q - 2) .. ((q - 2) + (k + 3) - 1)
  BY <1>1, PagesAligned
<1>10. \A a \in Int : a \in Bytes(Addr(q - 2), Addr(k + 3)) <=> PageOf(a) \in (q - 2) .. ((q - 2) + (k + 3) - 1)
  BY <1>1, BytesAligned
<1>11. (q - 2) + (k + 3) - 1 = End(n) /\ End(n) - First(n) = k /\ PageOf(base) = First(n) - 2
  BY <1>1, <1>4, <1>5, <1>7 DEF q
<1>12. base + PageSize * 2 = Addr(q) /\ Addr(q) \in Int
  <2>1. Addr(q - 2) = Addr(q) - Addr(2) /\ Addr(q) \in Int
    BY <1>1, Linear
  <2> QED BY <1>1, <2>1, FewPages
<1>13. base + PageSize * 2 + us = Addr(q + k)
  <2>1. Addr(q + k) = Addr(q) + Addr(k)
    BY <1>1, Linear
  <2> QED BY <1>1, <1>12, <2>1
<1>14. base + PageSize * 2 + CanaryOffset(size) = n.ptr - CanarySize
  BY <1>1, <1>2, <1>4, Parts
<1>15. Pages(base, TotalSize(us)) = Own(n)
  BY <1>1, <1>5, <1>9, <1>11 DEF Own
<1>16. \A p \in Own(n) : prot[p] = "unmapped"
  BY <1>15 DEF Mappable, us
<1>17. \A x \in Int : Pages(Addr(x), PageSize) = {x}
  <2> SUFFICES ASSUME NEW x \in Int PROVE Pages(Addr(x), PageSize) = {x}
    OBVIOUS
  <2>1. Pages(Addr(x), Addr(1)) = x .. (x + 1 - 1)
    BY PagesAligned
  <2> QED BY <2>1, FewPages
<1>18. base + PageSize = Addr(q - 1) /\ q - 1 \in Int /\ q - 2 \in Int /\ q + k \in Int
  <2>1. Addr((q - 2) + 1) = Addr(q - 2) + Addr(1) /\ (q - 2) + 1 = q - 1
    BY <1>1, Linear
  <2> QED BY <1>1, <2>1, FewPages
<1>19. /\ Pages(base, PageSize) = {q - 2} /\ Pages(base + PageSize, PageSize) = {q - 1}
       /\ Pages(base + PageSize * 2 + us, PageSize) = {q + k}
  BY <1>1, <1>13, <1>17, <1>18
<1>20. SizePages(base) = {q - 2} /\ GuardBefore(base) = {q - 1} /\ GuardAfter(base, size) = {q + k}
  BY <1>19 DEF SizePages, GuardBefore, GuardAfter, us
<1> QED BY <1>1, <1>2, <1>3, <1>5, <1>7, <1>8, <1>10, <1>11, <1>12, <1>13, <1>14, <1>15, <1>16,
           <1>20 DEF Own, n, ptr, us

(* One of the pages a block needs protected is, or has been refused.       *)
Grants(base, size, refused) ==
    /\ page_size = PageSize /\ base \in Bases /\ size \in Word /\ ~ Rejected(size)
    /\ refused \in SUBSET {"before", "after", "size"}
    /\ Mappable(base, TotalSize(UnprotectedSize(size)))
    /\ \E before \in Changed(GuardBefore(base)), after \in Changed(GuardAfter(base, size)),
          sized \in Changed(SizePages(base)) :
          /\ refused = Refused("before", GuardBefore(base), before)
                       \cup Refused("after", GuardAfter(base, size), after)
                       \cup Refused("size", SizePages(base), sized)
          /\ prot' = Given(Given(Given(prot, Pages(base, TotalSize(UnprotectedSize(size))), "rw"),
                                 before \cup after, "none"), sized, "read")
    /\ mem' = Contents(base, size)
    /\ live' = live \cup {NewBlock(base, size, refused)}
    /\ protect' = protect /\ drawn' = drawn /\ missed' = missed /\ end' = "running"
    /\ page_size' = page_size

(* What _sodium_malloc() does, before it is known to go well.              *)
Attempts(base, size, before, after, sized) ==
    LET ptr     == base + page_size * 2 + CanaryOffset(size) + CanarySize
        total   == TotalSize(UnprotectedSize(size))
        refused == Refused("before", GuardBefore(base), before)
                   \cup Refused("after", GuardAfter(base, size), after)
                   \cup Refused("size", SizePages(base), sized)
    IN  /\ Mappable(base, total)
        /\ end' = IF BadPtr(ptr) THEN "misuse"
                  ELSE IF UnprotectedPtr(ptr) # base + page_size * 2 THEN "assert"
                  ELSE IF ~ Fits(base, size) THEN "crash" ELSE "running"
        /\ prot' = Given(Given(Given(prot, Pages(base, total), "rw"),
                               before \cup after, "none"), sized, "read")
        /\ mem' = Contents(base, size)
        /\ live' = live \cup {Block(ptr, size, refused)}

LEMMA MallocGrants ==
    ASSUME Typed, Settled', NEW size \in Word, Malloc(size, size)
    PROVE  /\ \E base \in Bases : \E refused : Grants(base, size, refused)
           /\ end = "running" /\ made' \in 0 .. MaxBlocks
<1>0. PICK base \in Bases :
         \E before \in Changed(GuardBefore(base)), after \in Changed(GuardAfter(base, size)),
            sized \in Changed(SizePages(base)) : Attempts(base, size, before, after, sized)
  BY ZenonT(60) DEF Malloc, Attempts
<1>1. PICK before \in Changed(GuardBefore(base)), after \in Changed(GuardAfter(base, size)),
           sized \in Changed(SizePages(base)) : Attempts(base, size, before, after, sized)
  BY <1>0
<1>2. /\ ~ Rejected(size) /\ protect' = protect /\ drawn' = drawn /\ missed' = missed
      /\ page_size' = page_size
  BY DEF Malloc
<1>s. page_size = PageSize
  <2>1. live' # {}
    BY <1>1 DEF Attempts
  <2> QED BY <1>2, <2>1 DEF Settled
<1> DEFINE ptr == PtrAt(base, size)
           q == PageOf(base) + 2
           refused == Refused("before", GuardBefore(base), before)
                      \cup Refused("after", GuardAfter(base, size), after)
                      \cup Refused("size", SizePages(base), sized)
<1>3. /\ q \in Nat /\ q >= 3 /\ base = Addr(q - 2) /\ UnprotectedPtr(ptr) = Addr(q)
      /\ CanaryOffset(size) + CanarySize + size = UnprotectedSize(size)
      /\ UnprotectedSize(size) \in Int
  <2>1. Mappable(base, TotalSize(UnprotectedSize(size)))
    BY <1>1 DEF Attempts
  <2>2. UnprotectedSize(size) \in Int
    BY <1>2, <1>s, Rounded
  <2> QED BY <1>2, <1>s, <2>1, <2>2, Placed
<1> HIDE DEF q
<1>4. base + PageSize * 2 = Addr(q) /\ Addr(q) \in Int /\ PageSize * 2 < Addr(q)
  <2>1. Addr(q - 2) = Addr(q) - Addr(2) /\ Addr(q) \in Int /\ Addr(2) < Addr(q) /\ Addr(2) \in Int
    BY <1>3, Linear, Monotone
  <2> QED BY <1>3, <2>1, FewPages
<1>5. ~ BadPtr(ptr) /\ UnprotectedPtr(ptr) = base + PageSize * 2 /\ Fits(base, size)
  <2>1. ~ BadPtr(ptr)
    BY <1>3, <1>4, <1>s, Parts DEF BadPtr
  <2>2. Fits(base, size)
    BY <1>3 DEF Fits
  <2> QED BY <1>3, <1>4, <2>1, <2>2
<1>6. end' = "running" /\ live' = live \cup {NewBlock(base, size, refused)}
  BY <1>1, <1>5, <1>s DEF PtrAt, NewBlock, Attempts
<1>7. made' \in 0 .. MaxBlocks /\ end = "running"
  BY MaxBlocksAssumption DEF Malloc, Typed
<1>8. refused \in SUBSET {"before", "after", "size"}
  BY DEF Refused
<1>9. Grants(base, size, refused)
  BY <1>1, <1>2, <1>s, <1>6, <1>8 DEF Grants, Attempts
<1> QED BY <1>7, <1>9

(* sodium_allocarray() asks for the product of its arguments.              *)
LEMMA ArrayIsMalloc ==
    ASSUME NEW count \in Sizes, NEW size \in Sizes, AllocArray(count, size)
    PROVE  count * size \in Word /\ Malloc(count * size, count * size)
<1>1. count \in Nat /\ size \in Nat /\ count < WordMod
  BY SizesAssumption, Parts
<1>2. count * size \in Nat /\ count * size < WordMod
  <2>1. CASE count = 0
    <3>1. count * size = 0
      BY <1>1, <2>1
    <3> QED BY <3>1, Parts
  <2>2. CASE count > 0
    <3> DEFINE d == SizeMax \div count
    <3>1. size < d
      BY <2>2 DEF AllocArray
    <3>2. d \in Int /\ count * d <= SizeMax
      <4>1. SizeMax \in Int /\ count \in Nat \ {0}
        BY <1>1, <2>2, Parts
      <4>2. SizeMax = count * (SizeMax \div count) + (SizeMax % count)
            /\ SizeMax % count \in 0 .. (count - 1) /\ SizeMax \div count \in Int
        BY <4>1
      <4>3. count * (SizeMax \div count) \in Int
        BY <4>1, <4>2
      <4> QED BY <4>1, <4>2, <4>3
    <3> HIDE DEF d
    <3>3. count * size <= count * d
      BY <1>1, <3>1, <3>2
    <3>4. count * size \in Nat /\ count * d \in Int
      BY <1>1, <3>2
    <3> QED BY <3>2, <3>3, <3>4, Parts
  <2> QED BY <1>1, <2>1, <2>2
<1>3. (count * size) % WordMod = count * size
  BY <1>2, SmallMod
<1> QED BY <1>2, <1>3, Parts DEF AllocArray, Word

LEMMA GivenFacts ==
    ASSUME NEW f \in [Page -> {"unmapped"} \cup Modes], NEW pages, NEW m \in {"unmapped"} \cup Modes
    PROVE  /\ Given(f, pages, m) \in [Page -> {"unmapped"} \cup Modes]
           /\ \A p \in Page : Given(f, pages, m)[p] = IF p \in pages THEN m ELSE f[p]
BY DEF Given

(* What the pages are then.                                                *)
LEMMA GrantPages ==
    ASSUME Typed, NEW base, NEW size, NEW refused, Grants(base, size, refused),
           NEW n, n = NewBlock(base, size, refused)
    PROVE  /\ prot' \in [Page -> {"unmapped"} \cup Modes]
           /\ \A p \in Page : p \notin Own(n) => prot'[p] = prot[p]
           /\ Guarded(n)'
<1>0. base \in Bases /\ size \in Word
  BY DEF Grants
<1>1. /\ n \in Blocks /\ Shape(n) /\ n.mode = "rw" /\ n.refused = refused
      /\ Pages(base, TotalSize(UnprotectedSize(size))) = Own(n)
      /\ SizePages(base) = {First(n) - 2} /\ GuardBefore(base) = {First(n) - 1}
      /\ GuardAfter(base, size) = {End(n)}
  BY <1>0, NewShape DEF Grants, Typed
<1>2. /\ First(n) \in Nat /\ End(n) \in Nat /\ First(n) >= 3 /\ First(n) < End(n)
      /\ Own(n) \in SUBSET Page
  BY <1>1, ShapeFacts
<1>3. PICK before \in Changed({First(n) - 1}), after \in Changed({End(n)}),
           sized \in Changed({First(n) - 2}) :
         /\ refused = Refused("before", {First(n) - 1}, before)
                      \cup Refused("after", {End(n)}, after)
                      \cup Refused("size", {First(n) - 2}, sized)
         /\ prot' = Given(Given(Given(prot, Own(n), "rw"), before \cup after, "none"), sized, "read")
  BY <1>1 DEF Grants
<1>4. /\ before \subseteq {First(n) - 1} /\ after \subseteq {End(n)} /\ sized \subseteq {First(n) - 2}
      /\ ~ protect => before = {} /\ after = {} /\ sized = {}
      /\ protect /\ "before" \notin refused => before = {First(n) - 1}
      /\ protect /\ "after" \notin refused => after = {End(n)}
      /\ protect /\ "size" \notin refused => sized = {First(n) - 2}
  BY <1>3 DEF Changed, Refused
<1>5. /\ prot' \in [Page -> {"unmapped"} \cup Modes]
      /\ \A p \in Page : prot'[p] = IF p \in sized THEN "read"
                                   ELSE IF p \in before \cup after THEN "none"
                                   ELSE IF p \in Own(n) THEN "rw" ELSE prot[p]
  <2> DEFINE f == Given(prot, Own(n), "rw")
             g == Given(f, before \cup after, "none")
  <2>1. "rw" \in Modes /\ "none" \in Modes /\ "read" \in Modes
        /\ prot \in [Page -> {"unmapped"} \cup Modes]
    BY DEF Modes, Typed
  <2>2. /\ f \in [Page -> {"unmapped"} \cup Modes]
        /\ \A p \in Page : f[p] = IF p \in Own(n) THEN "rw" ELSE prot[p]
    BY <2>1, GivenFacts
  <2> HIDE DEF f
  <2>3. /\ g \in [Page -> {"unmapped"} \cup Modes]
        /\ \A p \in Page : g[p] = IF p \in before \cup after THEN "none" ELSE f[p]
    BY <2>1, <2>2, GivenFacts
  <2> HIDE DEF g
  <2>4. /\ prot' \in [Page -> {"unmapped"} \cup Modes]
        /\ \A p \in Page : prot'[p] = IF p \in sized THEN "read" ELSE g[p]
    <3>1. prot' = Given(g, sized, "read")
      BY <1>3 DEF f, g
    <3> QED BY <2>1, <2>3, <3>1, GivenFacts
  <2> QED BY <2>2, <2>3, <2>4
<1>6. before \cup after \cup sized \subseteq Own(n)
  <2>1. {First(n) - 2, First(n) - 1, End(n)} \subseteq Own(n)
    BY <1>2 DEF Own
  <2> QED BY ONLY <1>4, <2>1
<1>7. \A p \in Own(n) : prot'[p] = IF p \in sized THEN "read"
                                  ELSE IF p \in before \cup after THEN "none" ELSE "rw"
  <2> SUFFICES ASSUME NEW p \in Own(n)
               PROVE  prot'[p] = IF p \in sized THEN "read"
                                 ELSE IF p \in before \cup after THEN "none" ELSE "rw"
    OBVIOUS
  <2>1. p \in Page
    BY <1>2
  <2> QED BY ONLY <2>1, <1>5, p \in Own(n)
<1>8. Guarded(n)'
  <2>1. protect' = protect
    BY DEF Grants
  <2>2. First(n) - 2 \in Own(n) /\ First(n) - 1 \in Own(n) /\ End(n) \in Own(n)
        /\ First(n) .. (End(n) - 1) \subseteq Own(n)
    BY <1>2 DEF Own
  <2>3. /\ prot'[First(n) - 2] = IF First(n) - 2 \in sized THEN "read" ELSE "rw"
        /\ prot'[First(n) - 1] = IF First(n) - 1 \in before THEN "none" ELSE "rw"
        /\ prot'[End(n)] = IF End(n) \in after THEN "none" ELSE "rw"
        /\ \A p \in First(n) .. (End(n) - 1) : prot'[p] = "rw"
    BY <1>2, <1>4, <1>7, <2>2
  <2>4. CASE protect
    BY <1>1, <1>4, <2>1, <2>3, <2>4 DEF Guarded
  <2>5. CASE ~ protect
    BY <1>4, <1>7, <2>1, <2>5 DEF Guarded
  <2> QED BY <2>4, <2>5
<1> QED BY <1>5, <1>6, <1>8

(* The other blocks are not touched.                                       *)
LEMMA GrantLeaves ==
    ASSUME Typed, Laid, NEW base, NEW size, NEW refused, Grants(base, size, refused), NEW b \in live
    PROVE  /\ \A p \in Own(b) : p \notin Own(NewBlock(base, size, refused)) /\ prot'[p] = prot[p]
           /\ \A a \in Word : PageOf(a) \in Own(b) => mem'[a] = mem[a]
<1> DEFINE n == NewBlock(base, size, refused)
<1>0. base \in Bases /\ size \in Word
  BY DEF Grants
<1>1. /\ Pages(base, TotalSize(UnprotectedSize(size))) = Own(n)
      /\ \A a \in Int : a \in Bytes(base, TotalSize(UnprotectedSize(size))) <=> PageOf(a) \in Own(n)
      /\ \A p \in Own(n) : prot[p] = "unmapped"
  BY <1>0, NewShape DEF Grants, Typed
<1>2. b \in Blocks /\ Shape(b) /\ Guarded(b) /\ Own(b) \in SUBSET Page
  BY LiveFacts, ShapeFacts
<1>3. \A p \in Own(b) : p \notin Own(n)
  BY <1>1, <1>2, OwnIsMapped DEF Modes
<1> HIDE DEF n
<1>4. \A p \in Own(b) : prot'[p] = prot[p]
  BY <1>2, <1>3, GrantPages DEF n
<1>5. \A a \in Word : PageOf(a) \in Own(b) => mem'[a] = mem[a]
  <2>1. Word \subseteq Int
    BY Parts DEF Word
  <2> QED BY <1>1, <1>3, <2>1 DEF Grants, Contents
<1> QED BY <1>3, <1>4, <1>5 DEF n

LEMMA GrantTypes ==
    ASSUME Typed, NEW base, NEW size, NEW refused, Grants(base, size, refused), made' \in 0 .. MaxBlocks
    PROVE  Typed'
<1> DEFINE n == NewBlock(base, size, refused)
           us == UnprotectedSize(size)
<1>0. base \in Bases /\ size \in Word
  BY DEF Grants
<1>1. n \in Blocks /\ us \in Nat
  <2>1. n \in Blocks
    BY <1>0, NewShape DEF Grants, Typed
  <2>2. Frames(size) \in Nat /\ us = Addr(Frames(size)) /\ us \in Int /\ CanarySize + size <= us
    BY <1>0, Rounded DEF Grants
  <2>3. size \in Nat
    BY <1>0, Parts DEF Word
  <2> QED BY <2>1, <2>2, <2>3, Parts
<1>2. prot' \in [Page -> {"unmapped"} \cup Modes]
  BY GrantPages
<1>3. mem' \in [Word -> Kinds \X Nat]
  <2>1. SizeWord(us) \in Kinds \X Nat
    BY <1>1 DEF SizeWord, Kinds
  <2>2. Garbage \in Kinds \X Nat /\ Zero \in Kinds \X Nat
    BY DEF Garbage, Zero, Kinds
  <2>3. \A x, c \in Int : x \in Bytes(c, CanarySize) => CanaryByte(x - c) \in Kinds \X Nat
    BY <2>2, Parts DEF Bytes, CanaryByte, Kinds
  <2>4. base + PageSize * 2 + CanaryOffset(size) \in Int /\ base + PageSize * 2 + us \in Int
    <3>1. CanaryOffset(size) \in Int
      BY <1>0, Placed DEF Grants
    <3> QED BY <1>0, <1>1, <3>1, Parts, BasesAssumption
  <2>5. Word \subseteq Int
    BY Parts DEF Word
  <2> DEFINE canary == base + PageSize * 2 + CanaryOffset(size)
             tail == base + PageSize * 2 + us
  <2>6. \A a \in Word : mem[a] \in Kinds \X Nat
    BY DEF Typed
  <2>7. mem' = [a \in Word |->
           IF a \notin Bytes(base, TotalSize(us)) THEN mem[a]
           ELSE IF a = base THEN SizeWord(us)
           ELSE IF a \in Bytes(canary, CanarySize) THEN CanaryByte(a - canary)
           ELSE IF a \in Bytes(canary + CanarySize, size) THEN Garbage
           ELSE IF ~ protect /\ a \in Bytes(tail, CanarySize) THEN CanaryByte(a - tail)
           ELSE Zero]
    BY DEF Grants, Contents
  <2> HIDE DEF canary, tail, us
  <2>8. canary \in Int /\ tail \in Int
    BY <2>4 DEF canary, tail
  <2> QED BY <2>1, <2>2, <2>3, <2>5, <2>6, <2>7, <2>8
<1>4. live' \subseteq Blocks
  BY <1>1 DEF Grants, Typed
<1> QED BY <1>2, <1>3, <1>4 DEF Grants, Typed

(* The new block is laid out as it should.                                 *)
LEMMA GrantIsLaid ==
    ASSUME Typed, NEW base, NEW size, NEW refused, Grants(base, size, refused), NEW n, n = NewBlock(base, size, refused)
    PROVE  HeaderKept(n)' /\ Guarded(n)'
<1> DEFINE us == UnprotectedSize(size)
<1>0. base \in Bases /\ size \in Word
  BY DEF Grants
<1>1. /\ n \in Blocks /\ Shape(n) /\ n.mode = "rw"
      /\ base = Addr(First(n) - 2) /\ PageOf(base) = First(n) - 2
      /\ us = Addr(End(n) - First(n))
      /\ base + PageSize * 2 + us = Addr(End(n))
      /\ Pages(base, TotalSize(us)) = Own(n)
      /\ \A a \in Int : a \in Bytes(base, TotalSize(us)) <=> PageOf(a) \in Own(n)
  BY <1>0, NewShape DEF Grants, Typed
<1>2. /\ First(n) \in Nat /\ End(n) \in Nat /\ First(n) >= 3 /\ First(n) < End(n)
      /\ Own(n) \in SUBSET Page
  BY <1>1, ShapeFacts
<1>3. Addr(First(n) - 2) \in Word /\ PageOf(Addr(End(n))) = End(n) /\ Addr(First(n) - 2) \in Int
  <2>1. PageOf(Addr(End(n)) + 0) = End(n) /\ Addr(End(n)) \in Int
    BY <1>2, PageOfAt, Monotone, Parts
  <2>2. Addr(First(n) - 2) \in Word
    BY <1>1, BlockBytes
  <2> QED BY <2>1, <2>2, Parts DEF Word
<1>4. HeaderKept(n)'
  <2>1. base \in Word /\ base \in Bytes(base, TotalSize(us))
    BY <1>1, <1>2, <1>3 DEF Own
  <2>2. mem'[base] = SizeWord(us)
    BY <2>1 DEF Grants, Contents
  <2> QED BY <1>1, <2>2 DEF HeaderKept
<1>6. Guarded(n)'
  BY GrantPages
<1> QED BY <1>4, <1>6

LEMMA GrantLaid ==
    ASSUME Typed, Laid, NEW base, NEW size, NEW refused, Grants(base, size, refused)
    PROVE  Laid'
<1>n. PICK n : n = NewBlock(base, size, refused)
  OBVIOUS
<1>0. base \in Bases /\ size \in Word
  BY DEF Grants
<1>1. /\ n \in Blocks /\ Shape(n)
      /\ Pages(base, TotalSize(UnprotectedSize(size))) = Own(n)
  BY <1>0, <1>n, NewShape DEF Grants, Typed
<1>2. HeaderKept(n)' /\ Guarded(n)'
  BY <1>n, GrantIsLaid
<1>3. live' = live \cup {n} /\ protect' = protect
  BY <1>n DEF Grants
<1>4. \A b \in live : Shape(b) /\ HeaderKept(b)' /\ Guarded(b)'
  <2> SUFFICES ASSUME NEW b \in live PROVE Shape(b) /\ HeaderKept(b)' /\ Guarded(b)'
    OBVIOUS
  <2>1. b \in Blocks /\ Shape(b) /\ HeaderKept(b) /\ Guarded(b)
    BY LiveFacts
  <2> QED BY <1>3, <2>1, GrantLeaves, Keeps
<1>5. \A b \in live : Own(b) \cap Own(n) = {}
  BY <1>n, GrantLeaves
<1>6. \A p \in Page : prot'[p] # "unmapped" => p \in Own(n) \/ prot[p] # "unmapped"
  BY <1>n, GrantPages
<1>7. \A b, c \in live' : b # c => Own(b) \cap Own(c) = {}
  BY <1>3, <1>5 DEF Laid
<1>8. \A b \in live' : Shape(b) /\ HeaderKept(b)' /\ Guarded(b)'
  BY <1>1, <1>2, <1>3, <1>4
<1>9. \A p \in Page : prot'[p] # "unmapped" => \E b \in live' : p \in Own(b)
  BY <1>3, <1>6 DEF Laid
<1> QED BY <1>7, <1>8, <1>9 DEF Laid

(* The canaries of the new block are the library's, if it has drawn them.  *)
LEMMA GrantCanary ==
    ASSUME Typed, NEW base, NEW size, NEW refused, Grants(base, size, refused), NEW n, n = NewBlock(base, size, refused), drawn
    PROVE  CanaryKept(n)'
<1> DEFINE us == UnprotectedSize(size)
           canary == base + PageSize * 2 + CanaryOffset(size)
           tail == base + PageSize * 2 + us
<1>0. base \in Bases /\ size \in Word
  BY DEF Grants
<1>1. /\ n \in Blocks /\ Shape(n) /\ n.want = size
      /\ PageOf(base) = First(n) - 2
      /\ tail = Addr(End(n)) /\ canary = n.ptr - CanarySize
      /\ \A a \in Int : a \in Bytes(base, TotalSize(us)) <=> PageOf(a) \in Own(n)
  BY <1>0, NewShape DEF Grants, Typed
<1>2. /\ First(n) \in Nat /\ End(n) \in Nat /\ First(n) >= 3 /\ First(n) < End(n)
      /\ n.ptr \in Int /\ size \in Nat /\ n.ptr + size = Addr(End(n)) /\ Addr(End(n)) \in Int
  BY <1>1, ShapeFacts
<1>3. mem' = [a \in Word |->
           IF a \notin Bytes(base, TotalSize(us)) THEN mem[a]
           ELSE IF a = base THEN SizeWord(us)
           ELSE IF a \in Bytes(canary, CanarySize) THEN CanaryByte(a - canary)
           ELSE IF a \in Bytes(canary + CanarySize, size) THEN Garbage
           ELSE IF ~ protect /\ a \in Bytes(tail, CanarySize) THEN CanaryByte(a - tail)
           ELSE Zero]
  BY DEF Grants, Contents
<1>4. protect' = protect /\ Word \subseteq Int
  BY Parts DEF Grants, Word
<1> HIDE DEF us, canary, tail
<1>5. ASSUME NEW i \in 0 .. (CanarySize - 1)
      PROVE  mem'[canary + i] = <<"canary", i>>
  <2>1. canary + i \in Word /\ PageOf(canary + i) \in First(n) .. (End(n) - 1)
    BY <1>1, BlockBytes
  <2>2. canary + i # base /\ canary + i \in Bytes(base, TotalSize(us))
    BY <1>1, <1>2, <1>4, <2>1 DEF Own
  <2>3. canary + i \in Bytes(canary, CanarySize) /\ (canary + i) - canary = i
    BY <1>1, <1>2, Parts DEF Bytes
  <2> QED BY <1>3, <2>1, <2>2, <2>3 DEF CanaryByte
<1>6. ASSUME NEW i \in 0 .. (CanarySize - 1), ~ protect
      PROVE  mem'[tail + i] = <<"canary", i>>
  <2>1. tail + i \in Word /\ PageOf(tail + i) = End(n)
    BY <1>1, BlockBytes
  <2>2. tail + i # base /\ tail + i \in Bytes(base, TotalSize(us))
    BY <1>1, <1>2, <1>4, <2>1 DEF Own
  <2>3. /\ tail + i \notin Bytes(canary, CanarySize)
        /\ tail + i \notin Bytes(canary + CanarySize, size)
        /\ tail + i \in Bytes(tail, CanarySize) /\ (tail + i) - tail = i
    BY <1>1, <1>2, Parts DEF Bytes
  <2> QED BY <1>3, <1>6, <2>1, <2>2, <2>3 DEF CanaryByte
<1> QED BY <1>1, <1>4, <1>5, <1>6 DEF CanaryKept

LEMMA GrantWritten ==
    ASSUME Typed, Laid, Written, NEW base, NEW size, NEW refused, Grants(base, size, refused)
    PROVE  Written'
<1>n. PICK n : n = NewBlock(base, size, refused)
  OBVIOUS
<1>0. base \in Bases /\ size \in Word
  BY DEF Grants
<1>1. n.early = ~ drawn
  BY <1>n DEF NewBlock, Block
<1>2. live' = live \cup {n} /\ protect' = protect /\ drawn' = drawn
  BY <1>n DEF Grants
<1>3. \A b \in live : ~ b.early => drawn /\ CanaryKept(b)'
  <2> SUFFICES ASSUME NEW b \in live, ~ b.early PROVE drawn /\ CanaryKept(b)'
    OBVIOUS
  <2>1. b \in Blocks /\ Shape(b) /\ drawn /\ CanaryKept(b)
    BY LiveFacts DEF Written
  <2> QED BY <1>2, <2>1, GrantLeaves, Keeps
<1>4. ~ n.early => drawn /\ CanaryKept(n)'
  BY <1>1, <1>n, GrantCanary DEF Typed
<1>5. ASSUME NEW a \in Word, mem'[a] = User
      PROVE  mem[a] = User
  BY <1>5 DEF Grants, Contents, User, SizeWord, CanaryByte, Zero, Garbage
<1>6. \A b \in live : Reach(b)' = Reach(b)
  BY DEF Reach
<1>7. \A b \in live' : ~ b.early => drawn' /\ CanaryKept(b)'
  BY <1>2, <1>3, <1>4
<1>8. \A a \in Word : mem'[a] = User => \E b \in live' : a \in Reach(b)'
  BY <1>2, <1>5, <1>6 DEF Written
<1> QED BY <1>7, <1>8 DEF Written

LEMMA MallocStep ==
    ASSUME HeapInv, Settled', NEW size \in Word, Malloc(size, size)
    PROVE  HeapInv'
<1>1. Typed /\ Laid /\ Written /\ Quiet
  BY DEF HeapInv
<1>2. made' \in 0 .. MaxBlocks
  BY <1>1, MallocGrants
<1>3. PICK base \in Bases : \E refused : Grants(base, size, refused)
  BY <1>1, MallocGrants
<1>r. PICK refused : Grants(base, size, refused)
  BY <1>3
<1>4. Typed'
  BY <1>1, <1>2, <1>r, GrantTypes
<1>5. Laid'
  BY <1>1, <1>r, GrantLaid
<1>6. Written'
  BY <1>1, <1>r, GrantWritten
<1>7. Quiet'
  BY <1>1, <1>r DEF Grants, Quiet
<1> QED BY <1>4, <1>5, <1>6, <1>7 DEF HeapInv

-----------------------------------------------------------------------------
(* The application writes.                                                 *)

(* What Write() can hit is in the block or is the first byte after it.     *)
LEMMA Target ==
    ASSUME Typed, Laid, NEW b \in live, NEW offset \in {-1, 0, b.want}
    PROVE  LET a == (b.ptr + offset) % WordMod
           IN  /\ a \in Word /\ Addr(First(b)) <= a /\ a <= Addr(End(b))
               /\ PageOf(a) \in First(b) .. End(b)
               /\ offset < b.want => a \in Reach(b)
               /\ ~ (offset < b.want) => a = Addr(End(b))
<1> DEFINE a == b.ptr + offset
<1>1. b \in Blocks /\ Shape(b)
  BY LiveFacts
<1>2. /\ b.ptr \in Int /\ b.want \in Nat /\ b.ptr + b.want = Addr(End(b))
      /\ Addr(First(b)) \in Int /\ Addr(End(b)) \in Int /\ Addr(First(b)) <= b.ptr - CanarySize
  BY <1>1, ShapeFacts
<1>3. /\ a \in Int /\ Addr(First(b)) <= a /\ a <= Addr(End(b))
      /\ offset < b.want => a < Addr(End(b))
      /\ ~ (offset < b.want) => a = Addr(End(b))
  BY <1>2, Parts
<1> HIDE DEF a
<1>4. a \in Word /\ PageOf(a) \in First(b) .. End(b)
  BY <1>1, <1>3, BlockBytes
<1>5. a % WordMod = a
  BY <1>3, <1>4, SmallMod, Parts DEF Word
<1>6. offset < b.want => a \in Reach(b)
  <2>1. PICK lo \in Int, hi \in Int : lo = Addr(First(b)) /\ hi = Addr(End(b))
    BY <1>2
  <2>2. Reach(b) = lo .. (hi - 1)
    BY <2>1 DEF Reach
  <2>3. a \in Int /\ lo <= a /\ (offset < b.want => a < hi)
    BY <1>3, <2>1
  <2> QED BY <2>1, <2>2, <2>3
<1> QED BY <1>3, <1>4, <1>5, <1>6 DEF a

LEMMA WriteStep ==
    ASSUME HeapInv, NEW b \in live, NEW offset \in {-1, 0, b.want}, Write(b, offset)
    PROVE  HeapInv'
<1>0. Typed /\ Laid /\ Written /\ Quiet
  BY DEF HeapInv
<1>n. /\ protect' = protect /\ drawn' = drawn /\ prot' = prot /\ live' = live /\ made' = made
      /\ missed' = missed /\ page_size' = page_size
  BY DEF Write
<1>1. PICK a : a = (b.ptr + offset) % WordMod
  OBVIOUS
<1>v. PICK v : v = IF offset < b.want THEN User ELSE Beyond
  OBVIOUS
<1>2. /\ a \in Word /\ Addr(First(b)) <= a /\ a <= Addr(End(b)) /\ PageOf(a) \in First(b) .. End(b)
      /\ v \in {User, Beyond} /\ (v = User => a \in Reach(b)) /\ (v = Beyond <=> a = Addr(End(b)))
  <2>1. /\ offset < b.want => a \in Reach(b)
        /\ ~ (offset < b.want) => a = Addr(End(b))
        /\ a \in Word /\ Addr(First(b)) <= a /\ a <= Addr(End(b)) /\ PageOf(a) \in First(b) .. End(b)
    BY <1>0, <1>1, Target
  <2>2. a \in Reach(b) => a # Addr(End(b))
    <3>1. b \in Blocks /\ Shape(b)
      BY <1>0, LiveFacts
    <3>2. Addr(First(b)) \in Int /\ Addr(End(b)) \in Int
      BY <3>1, ShapeFacts
    <3> QED BY <3>2 DEF Reach
  <2> QED BY <1>v, <2>1, <2>2 DEF User, Beyond
<1>3. CASE prot[PageOf(a)] # "rw"
  <2>1. mem' = mem /\ end' = "fault"
    BY <1>1, <1>3 DEF Write
  <2>2. Typed'
    BY <1>0, <1>n, <2>1 DEF Typed
  <2>3. Laid'
    BY <1>0, <1>n, <2>1 DEF Laid, HeaderKept, Guarded
  <2>4. Written'
    BY <1>0, <1>n, <2>1 DEF Written, CanaryKept, Reach
  <2>5. Quiet'
    BY <1>0, <1>n, <2>1 DEF Quiet
  <2> QED BY <2>2, <2>3, <2>4, <2>5 DEF HeapInv
<1>4. CASE prot[PageOf(a)] = "rw"
  <2>1. mem' = [mem EXCEPT ![a] = v] /\ end' = end /\ end = "running"
    BY <1>1, <1>v, <1>4 DEF Write
  <2>2. mem' \in [Word -> Kinds \X Nat] /\ mem'[a] = v
        /\ \A x \in Word : x # a => mem'[x] = mem[x]
    BY <1>0, <1>2, <2>1 DEF Typed, User, Beyond, Kinds
  <2>3. Typed'
    BY <1>0, <1>n, <2>2 DEF Typed
  <2>4. \A c \in live : /\ c \in Blocks /\ Shape(c) /\ HeaderKept(c) /\ Guarded(c)
                        /\ c # b => \A p \in Own(c) : p \notin Own(b)
    BY <1>0, LiveFacts
  <2>5. b \in Blocks /\ Shape(b) /\ First(b) \in Nat /\ End(b) \in Nat /\ PageOf(a) \in Own(b)
    BY <1>2, <2>4, ShapeFacts DEF Own
  <2>6. \A c \in live : HeaderKept(c)' /\ Guarded(c)'
    <3> SUFFICES ASSUME NEW c \in live PROVE HeaderKept(c)' /\ Guarded(c)'
      OBVIOUS
    <3>1. /\ Addr(First(c) - 2) \in Word /\ PageOf(Addr(First(c) - 2)) = First(c) - 2
          /\ First(c) \in Nat /\ End(c) \in Nat /\ First(c) < End(c)
      BY <2>4, BlockBytes, ShapeFacts
    <3>2. Addr(First(c) - 2) # a
      <4>1. CASE c = b
        BY <1>2, <3>1, <4>1
      <4>2. CASE c # b
        <5>1. First(c) - 2 \in Own(c)
          BY <3>1 DEF Own
        <5> QED BY <2>4, <2>5, <3>1, <4>2, <5>1
      <4> QED BY <4>1, <4>2
    <3>3. HeaderKept(c)'
      BY <2>2, <2>4, <3>1, <3>2 DEF HeaderKept
    <3> QED BY <1>n, <2>4, <3>3 DEF Guarded
  <2>7. Laid'
    BY <1>0, <1>n, <2>6 DEF Laid
  <2>8. \A c \in live : CanaryKept(c) => CanaryKept(c)'
    <3> SUFFICES ASSUME NEW c \in live, CanaryKept(c) PROVE CanaryKept(c)'
      OBVIOUS
    <3>1. CASE c # b
      BY <1>n, <2>2, <2>4, <2>5, <3>1, Keeps
    <3>2. CASE c = b
      <4>1. \A i \in 0 .. (CanarySize - 1) :
               /\ (b.ptr - CanarySize) + i \in Word
               /\ Addr(End(b)) + i \in Word /\ (i # 0 => Addr(End(b)) + i # a)
        <5>1. Addr(End(b)) \in Int /\ a \in Int
          BY <1>2, <2>5, ShapeFacts, Parts DEF Word
        <5> QED BY <1>2, <2>5, <5>1, BlockBytes, Parts
      <4>3. \A i \in 0 .. (CanarySize - 1) : (b.ptr - CanarySize) + i = a => v = User
        <5>1. \A i \in 0 .. (CanarySize - 1) :
                 PageOf((b.ptr - CanarySize) + i) \in First(b) .. (End(b) - 1)
          BY <2>5, BlockBytes
        <5>2. PageOf(Addr(End(b)) + 0) = End(b) /\ Addr(End(b)) + 0 = Addr(End(b))
          BY <2>5, BlockBytes, ShapeFacts, Parts
        <5> QED BY <1>2, <2>5, <5>1, <5>2
      <4>2. \A i \in 0 .. (CanarySize - 1) :
               /\ mem'[(b.ptr - CanarySize) + i] \in {mem[(b.ptr - CanarySize) + i], User}
               /\ mem'[Addr(End(b)) + i] \in {mem[Addr(End(b)) + i]} \cup (IF i = 0 THEN {Beyond} ELSE {})
        <5>1. 0 \in 0 .. (CanarySize - 1) /\ Addr(End(b)) + 0 = Addr(End(b))
          BY <2>5, ShapeFacts, Parts
        <5>2. \A i \in 0 .. (CanarySize - 1) : Addr(End(b)) + i = a => i = 0 /\ a = Addr(End(b))
          BY <4>1, <5>1
        <5>3. \A i \in 0 .. (CanarySize - 1) :
                 mem'[(b.ptr - CanarySize) + i] \in {mem[(b.ptr - CanarySize) + i], User}
          BY <2>2, <4>1, <4>3
        <5>4. \A i \in 0 .. (CanarySize - 1) :
                 mem'[Addr(End(b)) + i] \in {mem[Addr(End(b)) + i]} \cup (IF i = 0 THEN {Beyond} ELSE {})
          BY <1>2, <2>2, <4>1, <5>2
        <5> QED BY <5>3, <5>4
      <4> QED BY <1>n, <3>2, <4>2 DEF CanaryKept
    <3> QED BY <3>1, <3>2
  <2>9. Written'
    <3>1. \A c \in live : Reach(c)' = Reach(c)
      BY <1>n DEF Reach
    <3>2. \A x \in Word : mem'[x] = User => \E c \in live : x \in Reach(c)
      BY <1>0, <1>2, <1>4, <2>2 DEF Written
    <3>3. \A c \in live : ~ c.early => drawn /\ CanaryKept(c)
      BY <1>0 DEF Written
    <3> QED BY <1>n, <2>8, <3>1, <3>2, <3>3 DEF Written
  <2>10. Quiet'
    BY <1>0, <1>n, <2>1 DEF Quiet
  <2> QED BY <2>3, <2>7, <2>9, <2>10 DEF HeapInv
<1> QED BY <1>3, <1>4

-----------------------------------------------------------------------------
(* sodium_mprotect_*().                                                    *)

(* A block that is the same but for its protection, or for what it has     *)
(* been refused.                                                           *)
LEMMA Swapped ==
    ASSUME Typed, Laid, Written, NEW b \in live, NEW n \in Blocks,
           n.ptr = b.ptr, n.want = b.want, n.early = b.early, n.page = b.page,
           live' = (live \ {b}) \cup {n},
           protect' = protect, drawn' = drawn, mem' = mem,
           \A p \in Page : prot'[p] # "unmapped" => prot[p] # "unmapped",
           \A c \in live : c # b => Guarded(c)', Guarded(n)'
    PROVE  Laid' /\ Written'
<1>1. \A c \in live : /\ c \in Blocks /\ Shape(c) /\ HeaderKept(c) /\ Guarded(c)
                      /\ c # b => \A p \in Own(c) : p \notin Own(b)
  BY LiveFacts
<1>2. First(n) = First(b) /\ End(n) = End(b) /\ Own(n) = Own(b)
  BY DEF First, End, Own
<1>3. Shape(n) /\ HeaderKept(n)
  BY <1>1, <1>2 DEF Shape, HeaderKept
<1>4. Laid'
  <2>1. \A c \in live' : Shape(c) /\ HeaderKept(c)' /\ Guarded(c)'
    BY <1>1, <1>3 DEF HeaderKept
  <2>2. ASSUME NEW c \in live', NEW d \in live', c # d
        PROVE  Own(c) \cap Own(d) = {}
    <3>1. CASE c \in live /\ d \in live
      BY <2>2, <3>1 DEF Laid
    <3>2. CASE c = n /\ d # b
      BY <1>1, <1>2, <2>2, <3>2
    <3>3. CASE d = n /\ c # b
      BY <1>1, <1>2, <2>2, <3>3
    <3> QED BY <2>2, <3>1, <3>2, <3>3
  <2>3. \A p \in Page : prot'[p] # "unmapped" => \E c \in live' : p \in Own(c)
    <3>1. \A p \in Page : prot'[p] # "unmapped" => \E c \in live : p \in Own(c)
      BY DEF Laid
    <3> QED BY <1>2, <3>1
  <2> QED BY <2>1, <2>2, <2>3 DEF Laid
<1>5. Written'
  <2>1. \A c \in live : /\ ~ c.early => drawn /\ CanaryKept(c)
                        /\ CanaryKept(c) => CanaryKept(c)'
    BY DEF Written, CanaryKept
  <2>2. CanaryKept(b)' => CanaryKept(n)'
    BY <1>2 DEF CanaryKept
  <2>3. Reach(n) = Reach(b)
    BY <1>2 DEF Reach
  <2>4. \A c \in live' : ~ c.early => drawn' /\ CanaryKept(c)'
    BY <2>1, <2>2
  <2>5. \A a \in Word : mem'[a] = User => \E c \in live' : a \in Reach(c)
    <3>1. \A a \in Word : mem[a] = User => \E c \in live : a \in Reach(c)
      BY DEF Written
    <3> QED BY <2>3, <3>1
  <2> QED BY <2>4, <2>5 DEF Written
<1> QED BY <1>4, <1>5

LEMMA ProtectStep ==
    ASSUME HeapInv, Settled, NEW b \in live, NEW mode \in Modes, Protect(b, mode)
    PROVE  HeapInv'
<1>0. Typed /\ Laid /\ Written /\ Quiet /\ page_size = PageSize
  BY DEF HeapInv, Settled
<1>n. /\ protect /\ protect' = protect /\ drawn' = drawn /\ mem' = mem /\ made' = made
      /\ missed' = missed /\ end' = end /\ end = "running" /\ page_size' = page_size
  BY DEF Protect
<1>2. \A c \in live : /\ c \in Blocks /\ Shape(c) /\ HeaderKept(c) /\ Guarded(c)
                      /\ c # b => \A p \in Own(c) : p \notin Own(b)
  BY <1>0, LiveFacts
<1>6. /\ First(b) \in Nat /\ End(b) \in Nat /\ First(b) >= 3 /\ First(b) < End(b)
      /\ Own(b) \in SUBSET Page
  BY <1>2, ShapeFacts
<1> DEFINE full == First(b) .. (End(b) - 1)
<1>7. Pages(UnprotectedPtr(b.ptr), Header(b.ptr)) = full
  BY <1>0, <1>2, Regions
<1> HIDE DEF full
<1>1. PICK done \in Changed(full) :
         /\ prot' = Given(prot, done, mode)
         /\ live' = (live \ {b}) \cup {[b EXCEPT !.mode = IF done = full THEN mode ELSE @]}
  BY <1>7 DEF Protect, Protected
<1>g. PICK got : got = IF done = full THEN mode ELSE b.mode
  OBVIOUS
<1>m. got \in Modes
  BY <1>2, <1>g DEF Blocks, Modes
<1>3. PICK n : n = [b EXCEPT !.mode = got]
  OBVIOUS
<1>4. /\ n \in Blocks /\ n.ptr = b.ptr /\ n.want = b.want /\ n.early = b.early /\ n.mode = got
      /\ n.page = b.page /\ n.refused = b.refused
  BY <1>2, <1>3, <1>m DEF Blocks, Modes
<1>5. First(n) = First(b) /\ End(n) = End(b)
  BY <1>4 DEF First, End
<1>8. /\ prot' = [p \in Page |-> IF p \in full THEN got ELSE prot[p]]
      /\ live' = (live \ {b}) \cup {n}
  <2>1. live' = (live \ {b}) \cup {n}
    BY <1>1, <1>g, <1>3
  <2>2. prot \in [Page -> {"unmapped"} \cup Modes] /\ done \in {full, {}}
    BY <1>0, <1>n, <1>1 DEF Typed, Changed
  <2>3. CASE done = full
    <3>1. got = mode
      BY <1>g, <2>3
    <3> QED BY <1>1, <2>1, <2>3, <3>1 DEF Given
  <2>4. CASE done = {} /\ done # full
    <3>1. prot' = [p \in Page |-> prot[p]] /\ got = b.mode
      BY <1>1, <1>g, <2>4 DEF Given
    <3>2. \A p \in full : prot[p] = b.mode
      BY <1>2, <1>n DEF Guarded, full
    <3>3. [p \in Page |-> prot[p]] = [p \in Page |-> IF p \in full THEN got ELSE prot[p]]
      BY <3>1, <3>2
    <3> QED BY <2>1, <3>1, <3>3
  <2> QED BY <2>1, <2>2, <2>3, <2>4
<1>s. full \subseteq Own(b) /\ full \subseteq Page
  BY <1>6 DEF full, Own
<1>9. Typed'
  BY <1>0, <1>n, <1>4, <1>8, <1>m DEF Typed, Modes
<1>10. \A c \in live : c # b => Guarded(c)'
  <2> SUFFICES ASSUME NEW c \in live, c # b PROVE Guarded(c)'
    OBVIOUS
  <2>1. Own(c) \in SUBSET Page
    BY <1>2, ShapeFacts
  <2>2. \A p \in Own(c) : prot'[p] = prot[p]
    BY <1>2, <1>8, <1>s, <2>1
  <2> QED BY <1>n, <1>2, <2>2, Keeps
<1>11. Guarded(n)'
  <2>1. /\ prot'[First(b) - 2] = prot[First(b) - 2] /\ prot'[First(b) - 1] = prot[First(b) - 1]
        /\ prot'[End(b)] = prot[End(b)] /\ \A p \in First(b) .. (End(b) - 1) : prot'[p] = got
    BY <1>6, <1>8, <1>s DEF Own, full
  <2> QED BY <1>n, <1>2, <1>4, <1>5, <2>1 DEF Guarded
<1>12. \A p \in Page : prot'[p] # "unmapped" => prot[p] # "unmapped"
  <2>1. \A p \in full : prot[p] = b.mode /\ b.mode # "unmapped"
    BY <1>2, <1>n DEF Guarded, full, Blocks
  <2> QED BY <1>8, <2>1
<1>13. Laid' /\ Written'
  BY <1>0, <1>n, <1>4, <1>8, <1>10, <1>11, <1>12, Swapped
<1>14. Quiet'
  BY <1>0, <1>n DEF Quiet
<1> QED BY <1>9, <1>13, <1>14 DEF HeapInv

-----------------------------------------------------------------------------
(* sodium_free().                                                          *)

(* What the canary bytes of a block can be, and where the code looks.      *)
LEMMA CanaryFacts ==
    ASSUME Typed, Laid, page_size = PageSize, NEW b \in live
    PROVE  /\ \A i \in 0 .. (CanarySize - 1) : CanaryByte(i) \notin {User, Beyond}
           /\ UnprotectedPtr(b.ptr) + Header(b.ptr) = Addr(End(b)) /\ Addr(End(b)) \in Int
           /\ b.ptr + b.want = Addr(End(b)) /\ b.ptr - CanarySize \in Int
           /\ \A a \in Int : a \in Bytes(b.ptr - CanarySize, CanarySize) =>
                 \E i \in 0 .. (CanarySize - 1) : a = (b.ptr - CanarySize) + i
           /\ \A i \in 0 .. (CanarySize - 1) :
                 (b.ptr - CanarySize) + i \in Bytes(b.ptr - CanarySize, CanarySize)
<1>1. b \in Blocks /\ Shape(b) /\ HeaderKept(b)
  BY LiveFacts
<1>2. /\ b.ptr + b.want = Addr(End(b)) /\ b.ptr - CanarySize \in Int /\ Addr(End(b)) \in Int
  BY <1>1, ShapeFacts, Parts
<1>3. UnprotectedPtr(b.ptr) + Header(b.ptr) = Addr(End(b))
  BY <1>1, Regions
<1>4. ASSUME NEW c \in Int
      PROVE  /\ \A a \in Int : a \in Bytes(c, CanarySize) => a - c \in 0 .. (CanarySize - 1) /\ a = c + (a - c)
             /\ \A i \in 0 .. (CanarySize - 1) : c + i \in Bytes(c, CanarySize)
  BY Parts DEF Bytes
<1>5. \A i \in 0 .. (CanarySize - 1) : CanaryByte(i) \notin {User, Beyond}
  BY DEF CanaryByte, User, Beyond, Zero
<1> QED BY <1>2, <1>3, <1>4, <1>5

(* A block that passes was not written around.                             *)
LEMMA UnbrokenMeans ==
    ASSUME Typed, Laid, page_size = PageSize, NEW b \in live, Unbroken(b)
    PROVE  ~ Overwritten(b)
<1> DEFINE c == b.ptr - CanarySize
<1>1. \A i \in 0 .. (CanarySize - 1) : mem[c + i] = CanaryByte(i) /\ CanaryByte(i) # User
  BY CanaryFacts DEF Unbroken, Intact
<1>2. ~ protect => mem[b.ptr + b.want] # Beyond
  <2>1. ~ protect => mem[Addr(End(b)) + 0] = CanaryByte(0)
    BY CanaryFacts, Parts DEF Unbroken, Intact
  <2>2. Addr(End(b)) + 0 = b.ptr + b.want /\ CanaryByte(0) # Beyond
    BY CanaryFacts, Parts
  <2> QED BY <2>1, <2>2
<1>3. \A a \in Bytes(c, CanarySize) : mem[a] # User
  <2>1. Bytes(c, CanarySize) \subseteq Int
    BY CanaryFacts, Parts DEF Bytes
  <2> QED BY <1>1, <2>1, CanaryFacts
<1> QED BY <1>2, <1>3 DEF Overwritten

(* One that does not pass was written around, or is from before the        *)
(* canary was drawn.                                                       *)
LEMMA BrokenMeans ==
    ASSUME Typed, Laid, Written, page_size = PageSize, NEW b \in live, ~ Unbroken(b)
    PROVE  b.early \/ Overwritten(b)
<1> SUFFICES ASSUME ~ b.early PROVE Overwritten(b)
  OBVIOUS
<1> DEFINE c == b.ptr - CanarySize
<1>1. CanaryKept(b) /\ \A i \in 0 .. (CanarySize - 1) : CanaryByte(i) = <<"canary", i>>
  BY DEF Written, CanaryByte
<1>2. CASE ~ Intact(c)
  <2>1. PICK i \in 0 .. (CanarySize - 1) : mem[c + i] # CanaryByte(i)
    BY <1>2 DEF Intact
  <2>2. mem[c + i] = User
    BY <1>1, <2>1 DEF CanaryKept
  <2>3. c + i \in Bytes(c, CanarySize)
    BY CanaryFacts
  <2> QED BY <2>2, <2>3 DEF Overwritten
<1>3. CASE ~ protect /\ ~ Intact(UnprotectedPtr(b.ptr) + Header(b.ptr))
  <2>1. PICK i \in 0 .. (CanarySize - 1) : mem[Addr(End(b)) + i] # CanaryByte(i)
    BY <1>3, CanaryFacts DEF Intact
  <2>2. i = 0 /\ mem[Addr(End(b)) + i] = Beyond
    BY <1>1, <1>3, <2>1 DEF CanaryKept
  <2>3. Addr(End(b)) + 0 = b.ptr + b.want
    BY CanaryFacts
  <2>4. mem[b.ptr + b.want] = Beyond
    BY <2>2, <2>3
  <2> QED BY <1>3, <2>4 DEF Overwritten
<1> QED BY <1>2, <1>3 DEF Unbroken

(* The size word is where it is looked for, and can be read.               *)
LEMMA AlwaysFound ==
    ASSUME Typed, Laid, page_size = PageSize, NEW b \in live
    PROVE  Found(b)
<1>1. b \in Blocks /\ Shape(b) /\ HeaderKept(b) /\ Guarded(b)
  BY LiveFacts
<1>2. /\ First(b) \in Nat /\ First(b) >= 3 /\ End(b) \in Nat /\ First(b) < End(b)
      /\ UnprotectedPtr(b.ptr) = Addr(First(b)) /\ Base(b.ptr) = Addr(First(b) - 2)
  BY <1>1, ShapeFacts, Regions
<1>3. ~ BadPtr(b.ptr)
  <2>1. Addr(2) < Addr(First(b)) /\ Addr(First(b)) \in Int
    BY <1>2, Monotone
  <2> QED BY <1>2, <2>1, FewPages DEF BadPtr
<1>4. Pages(Base(b.ptr), 1) = {First(b) - 2}
  <2>1. Addr(First(b) - 2) \in Int
    BY <1>2, Monotone
  <2>2. Bytes(Base(b.ptr), 1) = {Addr(First(b) - 2)}
    BY <1>2, <2>1 DEF Bytes
  <2>3. PageOf(Addr(First(b) - 2)) = First(b) - 2
    BY <1>1, BlockBytes
  <2> QED BY <2>2, <2>3 DEF Pages
<1>5. prot[First(b) - 2] \in {"read", "rw"}
  BY <1>1, <1>2 DEF Guarded, Own
<1> QED BY <1>3, <1>4, <1>5 DEF Found, Readable

(* Line 696 makes the comparison and the wiping possible.                  *)
LEMMA OpenedWhole ==
    ASSUME Typed, Laid, page_size = PageSize, NEW b \in live, NEW done,
           done = FreePages(b) \/ ~ protect
    PROVE  Compares(b, done) /\ Wipes(b, done)
<1>1. b \in Blocks /\ Shape(b) /\ HeaderKept(b) /\ Guarded(b)
  BY LiveFacts
<1>2. /\ First(b) \in Nat /\ First(b) >= 3 /\ End(b) \in Nat /\ First(b) < End(b)
      /\ Own(b) \in SUBSET Page /\ FreePages(b) = Own(b)
      /\ Pages(UnprotectedPtr(b.ptr), Header(b.ptr)) = First(b) .. (End(b) - 1)
  BY <1>1, ShapeFacts, Regions
<1>3. \A p \in Own(b) : Opened(b, done)[p] = "rw"
  <2>1. CASE done = FreePages(b)
    BY <1>2, <2>1 DEF Opened, Given
  <2>2. CASE ~ protect
    BY <1>1, <1>2, <2>2 DEF Opened, Given, Guarded
  <2> QED BY <2>1, <2>2
<1>4. First(b) .. (End(b) - 1) \subseteq Own(b)
  BY <1>2 DEF Own
<1>5. Pages(b.ptr - CanarySize, CanarySize) \subseteq First(b) .. (End(b) - 1)
  <2>1. \A a \in Bytes(b.ptr - CanarySize, CanarySize) :
           \E i \in 0 .. (CanarySize - 1) : a = (b.ptr - CanarySize) + i
    <3>1. Bytes(b.ptr - CanarySize, CanarySize) \subseteq Int
      BY CanaryFacts, Parts DEF Bytes
    <3> QED BY <3>1, CanaryFacts
  <2>2. \A i \in 0 .. (CanarySize - 1) :
           PageOf((b.ptr - CanarySize) + i) \in First(b) .. (End(b) - 1)
    BY <1>1, BlockBytes
  <2> QED BY <2>1, <2>2 DEF Pages
<1>6. Compares(b, done)
  BY <1>3, <1>4, <1>5 DEF Compares, Readable
<1>7. Wipes(b, done)
  BY <1>2, <1>3, <1>4 DEF Wipes, Writable
<1> QED BY <1>6, <1>7

(* Nothing else makes sodium_free() fault.                                 *)
LEMMA FreeFaultsStep ==
    ASSUME HeapInv, Settled, NEW b \in live, FreeFaults(b)
    PROVE  HeapInv'
<1>0. Typed /\ Laid /\ Written /\ Quiet /\ page_size = PageSize
  BY DEF HeapInv, Settled
<1>n. /\ protect' = protect /\ drawn' = drawn /\ prot' = prot /\ mem' = mem /\ made' = made
      /\ missed' = missed /\ end' = "crash" /\ page_size' = page_size
  BY DEF FreeFaults
<1>1. PICK done : /\ ~ Compares(b, done) \/ ~ Wipes(b, done)
                  /\ live' = (live \ {b}) \cup
                       {[b EXCEPT !.refused = @ \cup Refused("free", FreePages(b), done)]}
  BY DEF FreeFaults
<1>2. protect /\ done # FreePages(b)
  BY <1>0, <1>1, OpenedWhole
<1>3. PICK n : n = [b EXCEPT !.refused = @ \cup {"free"}]
  OBVIOUS
<1>4. live' = (live \ {b}) \cup {n}
  BY <1>1, <1>2, <1>3 DEF Refused
<1>5. \A c \in live : c \in Blocks /\ Guarded(c)
  BY <1>0, LiveFacts
<1>6. /\ n \in Blocks /\ n.ptr = b.ptr /\ n.want = b.want /\ n.early = b.early
      /\ n.mode = b.mode /\ n.page = b.page /\ n.refused = b.refused \cup {"free"}
  BY <1>3, <1>5 DEF Blocks
<1>7. First(n) = First(b) /\ End(n) = End(b)
  BY <1>6 DEF First, End
<1>8. Guarded(n)' /\ \A c \in live : Guarded(c)'
  BY <1>n, <1>2, <1>5, <1>6, <1>7 DEF Guarded
<1>9. Laid' /\ Written'
  BY <1>0, <1>n, <1>4, <1>6, <1>8, Swapped
<1>10. Typed'
  BY <1>0, <1>n, <1>4, <1>6 DEF Typed
<1>11. Quiet'
  BY <1>0, <1>n, <1>4, <1>6 DEF Quiet
<1> QED BY <1>9, <1>10, <1>11 DEF HeapInv

LEMMA FreeDetectsStep ==
    ASSUME HeapInv, Settled, NEW b \in live, FreeDetects(b)
    PROVE  HeapInv'
<1>0. Typed /\ Laid /\ Written /\ Quiet /\ page_size = PageSize
  BY DEF HeapInv, Settled
<1>1. /\ protect' = protect /\ page_size' = page_size /\ drawn' = drawn /\ prot' = prot /\ mem' = mem /\ live' = live
      /\ made' = made /\ missed' = missed /\ end' = "caught" /\ ~ Unbroken(b)
  BY DEF FreeDetects
<1>2. Typed' /\ Laid' /\ Written'
  BY <1>0, <1>1 DEF Typed, Laid, Written, HeaderKept, Guarded, CanaryKept, Reach
<1>3. b.early \/ Overwritten(b)
  BY <1>0, <1>1, BrokenMeans
<1>4. Overwritten(b) => Overwritten(b)'
  BY <1>1 DEF Overwritten
<1>5. Quiet'
  BY <1>0, <1>1, <1>3, <1>4 DEF Quiet
<1> QED BY <1>2, <1>5 DEF HeapInv

LEMMA FreeStep ==
    ASSUME HeapInv, Settled, NEW b \in live, Free(b)
    PROVE  HeapInv'
<1>0. Typed /\ Laid /\ Written /\ Quiet /\ page_size = PageSize
  BY DEF HeapInv, Settled
<1>n. /\ protect' = protect /\ drawn' = drawn /\ made' = made /\ end' = end /\ end = "running"
      /\ live' = live \ {b} /\ Unbroken(b) /\ page_size' = page_size
  BY DEF Free
<1>1. ~ Overwritten(b)
  BY <1>0, <1>n, UnbrokenMeans
<1>2. \A c \in live : /\ c \in Blocks /\ Shape(c) /\ HeaderKept(c) /\ Guarded(c)
                      /\ c # b => \A p \in Own(c) : p \notin Own(b)
  BY <1>0, LiveFacts
<1>3. /\ First(b) \in Nat /\ End(b) \in Nat /\ First(b) >= 3 /\ First(b) < End(b)
  BY <1>2, ShapeFacts
<1>4. /\ FreePages(b) = Own(b)
      /\ \A a \in Int : a \in Bytes(UnprotectedPtr(b.ptr), Header(b.ptr))
                           <=> PageOf(a) \in First(b) .. (End(b) - 1)
  BY <1>0, <1>2, Regions
<1>5. prot' = [p \in Page |-> IF p \in Own(b) THEN "unmapped" ELSE prot[p]]
  BY <1>4 DEF Free, Unmapped, Given
<1>6. mem' \in [Word -> Kinds \X Nat]
      /\ \A a \in Word : mem'[a] = IF PageOf(a) \in First(b) .. (End(b) - 1) THEN Zero ELSE mem[a]
  <2>1. Word \subseteq Int
    BY Parts DEF Word
  <2>2. mem' = [a \in Word |-> IF a \in Bytes(UnprotectedPtr(b.ptr), Header(b.ptr))
                               THEN Zero ELSE mem[a]]
    BY DEF Free, Wipe
  <2>3. Zero \in Kinds \X Nat
    BY DEF Zero, Kinds
  <2> QED BY <1>0, <1>4, <2>1, <2>2, <2>3 DEF Typed
<1>7. Typed'
  BY <1>0, <1>n, <1>5, <1>6 DEF Typed
<1>8. ASSUME NEW c \in live, c # b
      PROVE  HeaderKept(c)' /\ Guarded(c)' /\ (CanaryKept(c) => CanaryKept(c)')
  <2>1. Own(c) \in SUBSET Page /\ Own(c) \cap Own(b) = {}
    BY <1>2, <1>8, ShapeFacts
  <2>2. \A p \in Own(c) : prot'[p] = prot[p]
    BY <1>5, <2>1
  <2>3. \A a \in Word : PageOf(a) \in Own(c) => mem'[a] = mem[a]
    <3>1. First(b) .. (End(b) - 1) \subseteq Own(b)
      BY <1>3 DEF Own
    <3> QED BY <1>6, <2>1, <3>1
  <2> QED BY <1>2, <1>n, <2>2, <2>3, Keeps
<1>9. Laid'
  <2>1. \A c \in live' : Shape(c) /\ HeaderKept(c)' /\ Guarded(c)'
    BY <1>n, <1>2, <1>8
  <2>2. \A c, d \in live' : c # d => Own(c) \cap Own(d) = {}
    BY <1>0, <1>n DEF Laid
  <2>3. \A p \in Page : prot'[p] # "unmapped" => \E c \in live' : p \in Own(c)
    BY <1>0, <1>n, <1>5 DEF Laid
  <2> QED BY <2>1, <2>2, <2>3 DEF Laid
<1>10. Written'
  <2>1. \A c \in live' : ~ c.early => drawn' /\ CanaryKept(c)'
    BY <1>0, <1>n, <1>8 DEF Written
  <2>2. ASSUME NEW a \in Word, mem'[a] = User
        PROVE  \E c \in live' : a \in Reach(c)'
    <3>1. mem[a] = User /\ PageOf(a) \notin First(b) .. (End(b) - 1)
      BY <1>6, <2>2 DEF User, Zero
    <3>2. PICK c \in live : a \in Reach(c)
      BY <1>0, <3>1 DEF Written
    <3>3. c # b
      <4>1. ASSUME c = b PROVE FALSE
        <5>1. PageOf(a) \in First(b) .. (End(b) - 1)
          BY <1>0, <1>2, <3>2, <4>1, ReachFacts
        <5> QED BY <3>1, <5>1
      <4> QED BY <4>1
    <3>4. Reach(c)' = Reach(c)
      BY DEF Reach
    <3> QED BY <1>n, <3>2, <3>3, <3>4
  <2> QED BY <2>1, <2>2 DEF Written
<1>11. Quiet'
  BY <1>0, <1>n, <1>1 DEF Quiet, Free
<1> QED BY <1>7, <1>9, <1>10, <1>11 DEF HeapInv

-----------------------------------------------------------------------------
(* The invariant and the theorems.                                         *)

LEMMA HeapInitially == Init => HeapInv
<1> SUFFICES ASSUME Init PROVE HeapInv
  OBVIOUS
<1>1. Typed
  <2>1. protect \in BOOLEAN /\ page_size \in DefaultSizes \cup {PageSize}
    BY ProtectionAssumption DEF Init
  <2>2. Zero \in Kinds \X Nat
    BY DEF Zero, Kinds
  <2>3. mem \in [Word -> Kinds \X Nat] /\ made \in 0 .. MaxBlocks
    BY <2>2, MaxBlocksAssumption DEF Init
  <2>4. prot \in [Page -> {"unmapped"} \cup Modes]
    BY DEF Init
  <2> QED BY <2>1, <2>3, <2>4 DEF Init, Typed
<1>2. Laid
  BY DEF Init, Laid
<1>3. Written
  BY DEF Init, Written, Zero, User
<1>4. Quiet
  BY DEF Init, Quiet
<1> QED BY <1>1, <1>2, <1>3, <1>4 DEF HeapInv

LEMMA AllocInitStep ==
    ASSUME HeapInv, AllocInit
    PROVE  HeapInv'
<1>0. Typed /\ Laid /\ Written /\ Quiet
  BY DEF HeapInv
<1>1. /\ protect' = protect /\ drawn' = TRUE /\ prot' = prot /\ mem' = mem /\ live' = live
      /\ made' = made /\ missed' = missed /\ end' = end /\ end = "running"
      /\ page_size' \in {PageSize, page_size}
  BY DEF AllocInit
<1>2. Typed' /\ Laid'
  BY <1>0, <1>1 DEF Typed, Laid, HeaderKept, Guarded
<1>3. Written'
  BY <1>0, <1>1 DEF Written, CanaryKept, Reach
<1>4. Quiet'
  BY <1>0, <1>1 DEF Quiet
<1> QED BY <1>2, <1>3, <1>4 DEF HeapInv

LEMMA SameHeap ==
    ASSUME HeapInv, UNCHANGED vars
    PROVE  HeapInv'
<1>0. Typed /\ Laid /\ Written /\ Quiet
  BY DEF HeapInv
<1>1. /\ protect' = protect /\ drawn' = drawn /\ prot' = prot /\ mem' = mem /\ live' = live
      /\ made' = made /\ missed' = missed /\ end' = end /\ page_size' = page_size
  BY DEF vars
<1>2. Typed' /\ Laid' /\ Written'
  BY <1>0, <1>1 DEF Typed, Laid, Written, HeaderKept, Guarded, CanaryKept, Reach
<1>3. \A b \in live : Overwritten(b) => Overwritten(b)'
  BY <1>1 DEF Overwritten
<1>4. Quiet'
  BY <1>0, <1>1, <1>3 DEF Quiet
<1> QED BY <1>2, <1>4 DEF HeapInv

LEMMA HeapStep == HeapInv /\ Settled /\ Settled' /\ [Next]_vars => HeapInv'
<1> SUFFICES ASSUME HeapInv, Settled, Settled', [Next]_vars PROVE HeapInv'
  OBVIOUS
<1>1. CASE UNCHANGED vars
  BY <1>1, SameHeap
<1>2. CASE AllocInit
  BY <1>2, AllocInitStep
<1>3. ASSUME NEW size \in Sizes, Malloc(size, size)
      PROVE  HeapInv'
  <2>1. size \in Word
    BY SizesAssumption DEF Word, SizeMax
  <2> QED BY <1>3, <2>1, MallocStep
<1>4. ASSUME NEW size \in Sizes, MallocFails(size)
      PROVE  HeapInv'
  BY <1>4, SameHeap DEF MallocFails
<1>5. ASSUME NEW count \in Sizes, NEW size \in Sizes, AllocArray(count, size)
      PROVE  HeapInv'
  BY <1>5, ArrayIsMalloc, MallocStep
<1>6. ASSUME NEW b \in live, NEW offset \in {-1, 0, b.want}, Write(b, offset)
      PROVE  HeapInv'
  BY <1>6, WriteStep
<1>7. ASSUME NEW b \in live, NEW mode \in {"none", "read", "rw"}, Protect(b, mode)
      PROVE  HeapInv'
  BY <1>7, ProtectStep DEF Modes
<1>10. ASSUME NEW b \in live, NotFound(b)
       PROVE  HeapInv'
  <2>1. Found(b)
    BY AlwaysFound DEF HeapInv, Settled
  <2> QED BY <1>10, <2>1 DEF NotFound
<1>11. ASSUME NEW b \in live, FreeFaults(b)
       PROVE  HeapInv'
  BY <1>11, FreeFaultsStep
<1>8. ASSUME NEW b \in live, FreeDetects(b)
      PROVE  HeapInv'
  BY <1>8, FreeDetectsStep
<1>9. ASSUME NEW b \in live, Free(b)
      PROVE  HeapInv'
  BY <1>9, FreeStep
<1> QED BY <1>1, <1>2, <1>3, <1>4, <1>5, <1>6, <1>7, <1>8, <1>9, <1>10, <1>11
    DEF Next

LEMMA HeapInvariant == Spec /\ []Settled => []HeapInv
BY HeapInitially, HeapStep, PTL DEF Spec

(* Start, Tail and Region are First, End and Own in bytes.                 *)
LEMMA Measured ==
    ASSUME Typed, NEW b \in Blocks, Shape(b)
    PROVE  /\ Start(b) = Addr(First(b)) /\ Tail(b) = Addr(End(b))
           /\ Pages(Tail(b), b.page) = {End(b)}
           /\ Pages(Start(b) - b.page, b.page) = {First(b) - 1}
           /\ Pages(Start(b) - b.page * 2, b.page) = {First(b) - 2}
           /\ Region(b) = Own(b)
<1>1. /\ First(b) \in Nat /\ End(b) \in Nat /\ First(b) >= 3 /\ First(b) < End(b)
      /\ b.ptr \in Int /\ b.want \in Nat /\ b.ptr + b.want = Addr(End(b))
      /\ Addr(First(b)) \in Int /\ Addr(End(b)) \in Int /\ b.page = PageSize
      /\ Addr(First(b)) - PageSize * 2 = Addr(First(b) - 2)
  BY ShapeFacts
<1> DEFINE c == b.ptr - CanarySize
<1>2. Start(b) = Addr(First(b)) /\ Tail(b) = Addr(End(b))
  <2>1. c \in Int /\ First(b) = PageOf(c)
    BY <1>1, Parts DEF First
  <2>2. Addr(PageOf(c)) \in Int /\ c = Addr(PageOf(c)) + (c % PageSize) /\ c % PageSize \in Int
    BY <2>1, Located, DivMod
  <2> HIDE DEF c
  <2>3. c - (c % PageSize) = Addr(PageOf(c))
    BY <2>1, <2>2
  <2> QED BY <1>1, <2>1, <2>3 DEF Start, Tail, RoundDown, c
<1>3. \A x \in Int : Pages(Addr(x), PageSize) = {x}
  <2> SUFFICES ASSUME NEW x \in Int PROVE Pages(Addr(x), PageSize) = {x}
    OBVIOUS
  <2>1. Pages(Addr(x), Addr(1)) = x .. (x + 1 - 1)
    BY PagesAligned
  <2> QED BY <2>1, FewPages
<1>4. /\ Pages(Tail(b), b.page) = {End(b)}
      /\ Pages(Start(b) - b.page * 2, b.page) = {First(b) - 2}
  BY <1>1, <1>2, <1>3
<1>5. Pages(Start(b) - b.page, b.page) = {First(b) - 1}
  <2>1. Addr(First(b) - 1) = Addr(First(b)) - Addr(1) /\ First(b) - 1 \in Int
    <3>1. First(b) \in Int /\ 1 \in Int
      BY <1>1
    <3>2. Addr(First(b) - 1) = Addr(First(b)) - Addr(1)
      BY <3>1, Linear
    <3> QED BY <3>1, <3>2
  <2>2. Start(b) - b.page = Addr(First(b) - 1)
    <3>1. Start(b) = Addr(First(b)) /\ b.page = PageSize /\ Addr(1) = PageSize
      BY <1>1, <1>2, FewPages
    <3> QED BY <2>1, <3>1
  <2>3. Pages(Addr(First(b) - 1), PageSize) = {First(b) - 1}
    BY <1>3, <2>1
  <2>4. b.page = PageSize
    BY <1>1
  <2> QED BY <2>2, <2>3, <2>4
<1>6. Region(b) = Own(b)
  <2> DEFINE f == First(b) - 2
             k == End(b) - First(b) + 3
  <2>1. f \in Int /\ k \in Nat /\ f + k = End(b) + 1 /\ Addr(f) = Addr(First(b)) - PageSize * 2
    BY <1>1
  <2>2. Addr(f + k) = Addr(f) + Addr(k) /\ Addr(f) \in Int /\ Addr(k) \in Int
    BY <2>1, Linear
  <2>3. Addr(End(b) + 1) = Addr(End(b)) + PageSize
    BY <1>1, Linear, FewPages
  <2>4. Pages(Addr(f), Addr(k)) = f .. (f + k - 1)
    BY <2>1, PagesAligned
  <2> HIDE DEF f, k
  <2>5. Addr(k) = Addr(End(b)) + PageSize - Addr(f)
    BY <1>1, <2>1, <2>2, <2>3, Parts
  <2>6. Region(b) = Pages(Addr(f), Addr(k))
    BY <1>1, <1>2, <2>1, <2>5 DEF Region
  <2>7. f .. (f + k - 1) = Own(b)
    <3>1. f = First(b) - 2
      BY DEF f
    <3>2. f + k - 1 = End(b)
      BY ONLY <1>1, <2>1
    <3> QED BY ONLY <3>1, <3>2 DEF Own
  <2> QED BY <2>4, <2>6, <2>7
<1> QED BY <1>2, <1>4, <1>5, <1>6

(* The pages around and under a live block are protected as they should,   *)
(* for every size sodium_malloc() takes, also the largest.                 *)
LEMMA GuardsAreThere ==
    ASSUME Typed, Laid, NEW b \in live, protect
    PROVE  /\ "after" \notin b.refused => \A p \in Pages(Tail(b), b.page) : prot[p] = "none"
           /\ "before" \notin b.refused =>
                 \A p \in Pages(Start(b) - b.page, b.page) : prot[p] = "none"
           /\ "size" \notin b.refused =>
                 \A p \in Pages(Start(b) - b.page * 2, b.page) : prot[p] = "read"
           /\ \A p \in Pages(b.ptr, b.want) : prot[p] = b.mode
<1>1. b \in Blocks /\ Shape(b) /\ Guarded(b)
  BY LiveFacts
<1>2. /\ First(b) \in Nat /\ End(b) \in Nat /\ First(b) < End(b)
      /\ b.ptr \in Int /\ b.want \in Nat /\ b.ptr + b.want = Addr(End(b))
      /\ Addr(First(b)) \in Int /\ Addr(End(b)) \in Int /\ Addr(First(b)) <= b.ptr - CanarySize
  BY <1>1, ShapeFacts
<1>3. /\ Pages(Tail(b), b.page) = {End(b)}
      /\ Pages(Start(b) - b.page, b.page) = {First(b) - 1}
      /\ Pages(Start(b) - b.page * 2, b.page) = {First(b) - 2}
  BY <1>1, Measured
<1>5. ASSUME NEW a \in Bytes(b.ptr, b.want)
      PROVE  PageOf(a) \in First(b) .. (End(b) - 1)
  <2>1. a \in Int /\ Addr(First(b)) <= a /\ a < Addr(End(b))
    BY <1>2, Parts DEF Bytes
  <2> QED BY <1>1, <1>2, <2>1, BlockBytes
<1>6. \A p \in Pages(b.ptr, b.want) : prot[p] = b.mode
  BY <1>1, <1>5 DEF Pages, Guarded
<1> QED BY <1>1, <1>3, <1>6 DEF Guarded

(* A guard is missing only where the kernel has refused that very guard,   *)
(* and the user's bytes have the protection asked for last and not         *)
(* refused: for every page and canary size, requests near SIZE_MAX, any    *)
(* order of the calls and any refusals, of an application that allocates   *)
(* when page_size is settled.                                              *)
THEOREM Guards == Spec /\ []Settled => []BlocksAreGuarded
<1>1. HeapInv => BlocksAreGuarded
  BY GuardsAreThere DEF HeapInv, BlocksAreGuarded
<1> QED BY <1>1, HeapInvariant, PTL

(* sodium_free() unmaps what sodium_malloc() mapped, no more and no less:  *)
(* the size it reads back is never the neighbour's nor the application's.  *)
THEOREM Leakless == Spec /\ []Settled => []NothingLeaks
<1>1. HeapInv => NothingLeaks
  <2> SUFFICES ASSUME HeapInv
               PROVE  /\ {p \in Page : prot[p] # "unmapped"} = UNION {Region(b) : b \in live}
                      /\ \A b, c \in live : b # c => Region(b) \cap Region(c) = {}
    BY DEF NothingLeaks
  <2>1. Typed /\ Laid
    BY DEF HeapInv
  <2>2. ASSUME NEW b \in live
        PROVE  Region(b) = Own(b) /\ Own(b) \in SUBSET Page /\ \A p \in Own(b) : prot[p] # "unmapped"
    <3>1. b \in Blocks /\ Shape(b) /\ Guarded(b)
      BY <2>1, LiveFacts
    <3> QED BY <2>1, <3>1, Measured, ShapeFacts, OwnIsMapped DEF Modes
  <2>3. \A p \in Page : prot[p] # "unmapped" => \E b \in live : p \in Own(b)
    BY <2>1 DEF Laid
  <2>4. \A b, c \in live : b # c => Own(b) \cap Own(c) = {}
    BY <2>1 DEF Laid
  <2> QED BY <2>2, <2>3, <2>4
<1> QED BY <1>1, HeapInvariant, PTL

(* No block is freed quietly after a write just before it, or, where pages *)
(* cannot be protected, just after it.                                     *)
THEOREM Catching == Spec /\ []Settled => []CanariesCatch
<1>1. HeapInv => CanariesCatch
  BY DEF HeapInv, Quiet, CanariesCatch
<1> QED BY <1>1, HeapInvariant, PTL

(* The library's own arithmetic never makes it abort or fault: it faults   *)
(* only where the kernel has refused to make a block writable again before *)
(* it is wiped, whatever the application had made of it, and raises an     *)
(* alarm only for a block written around or from before sodium_init().     *)
THEOREM Alarms == Spec /\ []Settled => []NoFalseAlarm
<1>1. HeapInv => NoFalseAlarm
  BY DEF HeapInv, Quiet, NoFalseAlarm
<1> QED BY <1>1, HeapInvariant, PTL

(* Pages go back to the kernel without the application's bytes.            *)
THEOREM Wiping == Spec /\ []Settled => []FreedIsWiped
<1>1. HeapInv => FreedIsWiped
  <2> SUFFICES ASSUME HeapInv, NEW a \in Word, mem[a] = User
               PROVE  prot[PageOf(a)] # "unmapped"
    BY DEF FreedIsWiped
  <2>1. Typed /\ Laid /\ Written
    BY DEF HeapInv
  <2>2. PICK b \in live : a \in Reach(b)
    BY <2>1 DEF Written
  <2>3. b \in Blocks /\ Shape(b) /\ Guarded(b)
    BY <2>1, LiveFacts
  <2>4. PageOf(a) \in Own(b)
    BY <2>1, <2>2, <2>3, ReachFacts
  <2> QED BY <2>3, <2>4, OwnIsMapped DEF Modes
<1> QED BY <1>1, HeapInvariant, PTL
=============================================================================
