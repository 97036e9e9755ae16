------------------------------ MODULE PmmProofs ------------------------------
(***************************************************************************)
(* The physical memory manager, proved for every size of page, word,       *)
(* control block and table and for every memory map: its type and safety   *)
(* invariants, that it implements PageAllocator, and that its statistics   *)
(* are exact.  First the bits of a control block, then what the helpers of *)
(* Pmm compute, then one lemma for each operation and each claim.          *)
(***************************************************************************)
EXTENDS Pmm, Arithmetic, FiniteSetTheorems

------------------------------------------------------------------------------
(* Control blocks *)

(* A non-empty set of naturals has a least element, so Min is one of them. *)
LEMMA MinIsLeast ==
  ASSUME NEW S \in SUBSET Nat, S # {}
  PROVE  Min(S) \in S /\ \A y \in S : Min(S) <= y
BY LeastExists DEF Min

(* What the assumptions say of the sizes. *)
LEMMA Constants ==
  /\ PAGE_SIZE \in Nat \ {0}
  /\ WORD_BITS \in Nat \ {0}
  /\ PMM_CTRL_ENTRIES \in Nat \ {0}
  /\ MAX_BLOCK_SIZE_PAGES \in Nat
  /\ MAX_BLOCK_SIZE_PAGES = WORD_BITS * PMM_CTRL_ENTRIES
BY SizeAssumption, TimesNat DEF MAX_BLOCK_SIZE_PAGES

(* Page numbers and bits are in one-to-one correspondence. *)
LEMMA BitAtIndex ==
  ASSUME NEW n \in 0 .. MAX_BLOCK_SIZE_PAGES - 1
  PROVE  BitAt(n) \in Bits /\ PageIndex(BitAt(n)) = n
<1> DEFINE q == n \div WORD_BITS
           r == n % WORD_BITS
<1>1. n \in Nat BY Constants
<1>2. q \in Nat /\ r \in 0 .. WORD_BITS - 1 /\ n = WORD_BITS * q + r
  BY <1>1, Constants, DivMod
<1>3. q < PMM_CTRL_ENTRIES
  <2> SUFFICES ASSUME PMM_CTRL_ENTRIES <= q PROVE FALSE
    BY <1>2, Constants
  <2>1. /\ WORD_BITS * q \in Int
        /\ WORD_BITS * PMM_CTRL_ENTRIES <= WORD_BITS * q
    BY <1>2, Constants, TimesMonotonic
  <2> QED BY <2>1, <1>2, Constants
<1> QED BY <1>2, <1>3, Constants DEF BitAt, Bits, Words, PageIndex

(* And the other way round: every bit is that of its page. *)
LEMMA IndexBitAt ==
  ASSUME NEW c \in Bits
  PROVE  PageIndex(c) \in 0 .. MAX_BLOCK_SIZE_PAGES - 1 /\ BitAt(PageIndex(c)) = c
<1>1. /\ c = <<c[1], c[2]>>
      /\ c[1] \in 0 .. PMM_CTRL_ENTRIES - 1
      /\ c[2] \in 0 .. WORD_BITS - 1
  BY DEF Bits, Words
<1>2. WORD_BITS * c[1] \in Nat BY <1>1, Constants, TimesNat
<1>3. WORD_BITS * c[1] + WORD_BITS <= WORD_BITS * PMM_CTRL_ENTRIES
  BY <1>1, Constants, UnitsApart
<1>4. PageIndex(c) \in 0 .. MAX_BLOCK_SIZE_PAGES - 1
  BY <1>1, <1>2, <1>3, Constants DEF PageIndex
<1>5. /\ (WORD_BITS * c[1] + c[2]) \div WORD_BITS = c[1]
      /\ (WORD_BITS * c[1] + c[2]) % WORD_BITS = c[2]
  BY <1>1, Constants, DivModUnique
<1> QED BY <1>1, <1>4, <1>5 DEF BitAt, PageIndex

(* A block of so many pages has so many bits. *)
LEMMA PageBitsCount ==
  ASSUME NEW pages \in 0 .. MAX_BLOCK_SIZE_PAGES
  PROVE  /\ IsFiniteSet(PageBits(pages))
         /\ Cardinality(PageBits(pages)) = pages
<1> DEFINE S == 0 .. pages - 1
           f == [n \in S |-> BitAt(n)]
<1>1. IsFiniteSet(S) /\ Cardinality(S) = pages
  BY FS_Interval, Constants
<1>2. \A n \in S : /\ BitAt(n) \in PageBits(pages)
                   /\ PageIndex(BitAt(n)) = n
  BY BitAtIndex, Constants DEF PageBits
<1>3. f \in [S -> PageBits(pages)] BY <1>2
<1>4. \A m, n \in S : f[m] = f[n] => m = n
  <2> TAKE m, n \in S
  <2> HAVE f[m] = f[n]
  <2> QED BY <1>2
<1>5. \A c \in PageBits(pages) : \E n \in S : f[n] = c
  <2> TAKE c \in PageBits(pages)
  <2>1. c \in Bits /\ PageIndex(c) < pages BY DEF PageBits
  <2>2. PageIndex(c) \in S /\ BitAt(PageIndex(c)) = c
    BY <2>1, IndexBitAt, Constants
  <2> QED BY <2>2
<1>6. f \in Bijection(S, PageBits(pages))
  BY <1>3, <1>4, <1>5 DEF Bijection, Injection, Surjection, IsInjective
<1>7. ExistsBijection(S, PageBits(pages)) BY <1>6 DEF ExistsBijection
<1> QED BY <1>1, <1>7, FS_Bijection

(* pmm_ctrl_initialise sets exactly the bits of the first `pages` pages.   *)
LEMMA CtrlInitialiseBits ==
  ASSUME NEW pages \in Nat
  PROVE  CtrlInitialise(pages) = PageBits(pages)
<1> DEFINE q == pages \div WORD_BITS
           r == pages % WORD_BITS
<1>1. q \in Nat /\ r \in 0 .. WORD_BITS - 1 /\ pages = WORD_BITS * q + r
  BY Constants, DivMod
<1>2. ASSUME NEW c \in Bits
      PROVE  (c[1] < q \/ (c[1] = q /\ c[2] < r)) <=> PageIndex(c) < pages
  <2>1. c[1] \in Nat /\ c[2] \in 0 .. WORD_BITS - 1
    BY Constants DEF Bits, Words
  <2>2. WORD_BITS * c[1] \in Nat /\ WORD_BITS * q \in Nat
    BY <2>1, <1>1, Constants, TimesNat
  <2>3. CASE c[1] < q
    BY <2>1, <2>2, <2>3, <1>1, Constants, UnitsApart DEF PageIndex
  <2>4. CASE c[1] = q
    BY <2>1, <2>2, <2>4, <1>1, Constants DEF PageIndex
  <2>5. CASE q < c[1]
    BY <2>1, <2>2, <2>5, <1>1, Constants, UnitsApart DEF PageIndex
  <2> QED BY <2>1, <2>3, <2>4, <2>5, <1>1
<1> QED BY <1>2 DEF CtrlInitialise, PageBits

(* pmm_ctrl_alloc finds a bit that is set. *)
LEMMA LowestBitIsSet ==
  ASSUME NEW ctrl \in SUBSET Bits, ctrl # {}
  PROVE  LowestBit(ctrl) \in ctrl
<1> DEFINE A == {c[1] : c \in ctrl}
           B == {c[2] : c \in {d \in ctrl : d[1] = Min(A)}}
<1>1. A \in SUBSET Nat /\ A # {} BY Constants DEF Bits, Words
<1>2. Min(A) \in A BY <1>1, MinIsLeast
<1>3. B \in SUBSET Nat /\ B # {}
  <2>1. \A c \in Bits : c[2] \in Nat BY Constants DEF Bits
  <2>2. PICK d \in ctrl : d[1] = Min(A) BY <1>2
  <2>3. d[2] \in B BY <2>2
  <2>4. B \in SUBSET Nat BY <2>1
  <2> QED BY <2>3, <2>4
<1>4. Min(B) \in B BY <1>3, MinIsLeast
<1>5. PICK c \in ctrl : c[1] = Min(A) /\ c[2] = Min(B) BY <1>4
<1>6. c = <<c[1], c[2]>> BY DEF Bits
<1> QED BY <1>5, <1>6 DEF LowestBit

------------------------------------------------------------------------------
(* Blocks that pmm_add sets up *)

(* The n-th part of a region is inside the region, and the parts before it *)
(* end where it starts or earlier.                                         *)
LEMMA ChunkBounds ==
  ASSUME NEW r \in MemoryMap, NEW n \in Nat, IsChunk(r, n)
  PROVE  /\ ChunkStart(r, n) \in Nat /\ ChunkSize(r, n) \in Nat
         /\ r.base <= ChunkStart(r, n)
         /\ ChunkStart(r, n) + ChunkSize(r, n) <= RegionEnd(r)
         /\ PAGE_SIZE <= ChunkSize(r, n)
         /\ ChunkSize(r, n) <= MAX_BLOCK_SIZE_BYTES
         /\ \A m \in Nat : n < m =>
              ChunkStart(r, n) + ChunkSize(r, n) <= ChunkStart(r, m)
<1> DEFINE M == MAX_BLOCK_SIZE_BYTES
           len == RoundDown(r.length)
<1>1. M \in Nat /\ M = PAGE_SIZE * MAX_BLOCK_SIZE_PAGES
  BY Constants, TimesNat DEF MAX_BLOCK_SIZE_BYTES
<1>2. r.base \in Nat /\ r.length \in Nat BY MapAssumption
<1>3. len \in Nat /\ len <= r.length
  <2>1. \A l \in Nat : RoundDown(l) \in Nat /\ RoundDown(l) <= l
    BY Constants, DivBounds DEF RoundDown
  <2> QED BY <2>1, <1>2
<1>4. n * M \in Nat BY <1>1, TimesNat
<1>5. PAGE_SIZE <= MIN_BLOCK_SIZE_BYTES /\ MIN_BLOCK_SIZE_BYTES \in Nat
  <2>1. MIN_BLOCK_SIZE_PAGES \in Nat /\ 1 <= MIN_BLOCK_SIZE_PAGES
    BY SizeAssumption, Constants
  <2>2. PAGE_SIZE * 1 <= PAGE_SIZE * MIN_BLOCK_SIZE_PAGES
    BY <2>1, Constants, TimesMonotonic
  <2>3. PAGE_SIZE * MIN_BLOCK_SIZE_PAGES \in Nat BY <2>1, Constants, TimesNat
  <2> QED BY <2>1, <2>2, <2>3, Constants DEF MIN_BLOCK_SIZE_BYTES
<1>6. \A m \in Nat : n < m => n * M + M <= m * M
  <2> TAKE m \in Nat
  <2> HAVE n < m
  <2>1. M * n + M <= M * m BY <1>1, UnitsApart
  <2> QED BY <2>1, <1>1
<1>7. \A m \in Nat : m * M \in Nat BY <1>1, TimesNat
<1> HIDE DEF M, len
<1>8. /\ n * M < len
      /\ ChunkSize(r, n) >= MIN_BLOCK_SIZE_BYTES
      /\ ChunkSize(r, n) = IF len - n * M > M THEN M ELSE len - n * M
      /\ \A m \in Nat : ChunkStart(r, m) = r.base + m * M
      /\ RegionEnd(r) = r.base + r.length
  BY DEF IsChunk, ChunkSize, Remaining, ChunkStart, RegionEnd, M, len
<1>9. ChunkSize(r, n) \in Nat /\ ChunkSize(r, n) <= M
      /\ n * M + ChunkSize(r, n) <= len
  BY <1>1, <1>3, <1>4, <1>8
<1>10. \A m \in Nat : n < m =>
         ChunkStart(r, n) + ChunkSize(r, n) <= ChunkStart(r, m)
  <2> TAKE m \in Nat
  <2> HAVE n < m
  <2>1. n * M + M <= m * M /\ m * M \in Nat BY <1>6, <1>7
  <2> QED BY <2>1, <1>1, <1>2, <1>4, <1>8, <1>9
<1>11. /\ ChunkStart(r, n) \in Nat
       /\ r.base <= ChunkStart(r, n)
       /\ ChunkStart(r, n) + ChunkSize(r, n) <= RegionEnd(r)
  BY <1>2, <1>3, <1>4, <1>8, <1>9
<1>12. PAGE_SIZE <= ChunkSize(r, n) BY <1>5, <1>8, <1>9, Constants
<1> QED BY <1>9, <1>10, <1>11, <1>12 DEF M

(* What pmm_setup_entry makes of such a part: a block with every page free *)
(* that lies, its control block included, within the part.                 *)
LEMMA SetupEntryBlock ==
  ASSUME NEW start \in Nat, NEW size \in Nat,
         PAGE_SIZE <= size, size <= MAX_BLOCK_SIZE_BYTES
  PROVE  LET e == SetupEntry(start, size)
         IN  /\ e \in PmmCtrlPtr
             /\ e.active
             /\ e.physical_start >= PAGE_SIZE
             /\ e.free_pages = e.max_pages
             /\ e.ctrl = PageBits(e.max_pages)
             /\ BlockStart(e) = start
             /\ BlockEnd(e) <= start + size
<1> DEFINE pages == (size - PAGE_SIZE) \div PAGE_SIZE
           e == SetupEntry(start, size)
<1>1. /\ pages \in Nat
      /\ PAGE_SIZE * pages \in Nat
      /\ PAGE_SIZE * pages <= size - PAGE_SIZE
  <2>1. size - PAGE_SIZE \in Nat BY Constants
  <2> QED BY <2>1, Constants, DivBounds
<1>2. pages \in 0 .. MAX_BLOCK_SIZE_PAGES
  <2> SUFFICES ASSUME MAX_BLOCK_SIZE_PAGES < pages PROVE FALSE
    BY <1>1, Constants
  <2>1. PAGE_SIZE * MAX_BLOCK_SIZE_PAGES + PAGE_SIZE <= PAGE_SIZE * pages
    BY <1>1, Constants, UnitsApart
  <2>2. PAGE_SIZE * MAX_BLOCK_SIZE_PAGES = MAX_BLOCK_SIZE_BYTES
    BY Constants DEF MAX_BLOCK_SIZE_BYTES
  <2>3. PAGE_SIZE * MAX_BLOCK_SIZE_PAGES \in Nat BY Constants, TimesNat
  <2> QED BY <2>1, <2>2, <2>3, <1>1, Constants
<1>3. CtrlInitialise(pages) = PageBits(pages) BY <1>1, CtrlInitialiseBits
<1>4. e = [active |-> TRUE, physical_start |-> start + PAGE_SIZE,
           max_pages |-> pages, free_pages |-> pages, ctrl |-> PageBits(pages)]
  BY <1>3 DEF SetupEntry
<1>5. PageBits(pages) \in SUBSET Bits BY DEF PageBits
<1> HIDE DEF pages, e
<1>6. e \in PmmCtrlPtr BY <1>2, <1>4, <1>5, Constants DEF PmmCtrlPtr
<1>7. BlockStart(e) = start /\ BlockEnd(e) <= start + size
  BY <1>1, <1>4, Constants DEF BlockStart, BlockEnd
<1> QED BY <1>4, <1>6, <1>7, Constants DEF e

------------------------------------------------------------------------------
(* The inductive invariant *)

(* Each conjunct needs the others: a new block is apart from the old ones  *)
(* because those lie in regions added before; the count of a block stays   *)
(* within its type because the bits are of its own pages.                  *)
IInv == TypeOK /\ FreeCountMatchesBits /\ BlocksDisjoint /\ BlocksAreUsable

(* Control pointers are numbered, so the first of some is their Min. *)
LEMMA SlotsAreNat == Slots \subseteq Nat
BY SizeAssumption DEF Slots

(* What the invariant says of one block. *)
LEMMA BlockFacts ==
  ASSUME IInv, NEW i \in Active
  PROVE  /\ i \in Slots
         /\ entry[i] \in PmmCtrlPtr
         /\ entry[i].physical_start \in Nat
         /\ entry[i].physical_start >= PAGE_SIZE
         /\ entry[i].max_pages \in 0 .. MAX_BLOCK_SIZE_PAGES
         /\ entry[i].max_pages \in Nat
         /\ IsFiniteSet(PageBits(entry[i].max_pages))
         /\ IsFiniteSet(entry[i].ctrl)
         /\ entry[i].ctrl \subseteq PageBits(entry[i].max_pages)
         /\ entry[i].free_pages = Cardinality(entry[i].ctrl)
<1>1. i \in Slots /\ entry[i] \in PmmCtrlPtr
  BY DEF IInv, TypeOK, Active
<1>2. /\ entry[i].physical_start \in Nat
      /\ entry[i].max_pages \in 0 .. MAX_BLOCK_SIZE_PAGES
      /\ entry[i].max_pages \in Nat
  BY <1>1, Constants DEF PmmCtrlPtr
<1>3. entry[i].physical_start >= PAGE_SIZE BY DEF IInv, BlocksAreUsable
<1>4. /\ entry[i].ctrl \subseteq PageBits(entry[i].max_pages)
      /\ entry[i].free_pages = Cardinality(entry[i].ctrl)
  BY DEF IInv, FreeCountMatchesBits
<1>5. IsFiniteSet(PageBits(entry[i].max_pages)) BY <1>2, PageBitsCount
<1>6. IsFiniteSet(entry[i].ctrl) BY <1>4, <1>5, FS_Subset
<1> QED BY <1>1, <1>2, <1>3, <1>4, <1>5, <1>6

(* An operation that only sets or clears bits keeps every block in place.  *)
SameBlocks ==
  /\ entry' \in [Slots -> PmmCtrlPtr]
  /\ todo' = todo
  /\ \A i \in Slots : /\ entry'[i].active = entry[i].active
                      /\ entry'[i].physical_start = entry[i].physical_start
                      /\ entry'[i].max_pages = entry[i].max_pages

(* Then the blocks stay disjoint and usable. *)
LEMMA SameBlocksKeepPlaces ==
  ASSUME IInv, SameBlocks
  PROVE  BlocksDisjoint' /\ BlocksAreUsable' /\ Active' = Active
<1>1. Active' = Active BY DEF SameBlocks, Active
<1>2. \A i \in Active : /\ i \in Slots
                        /\ BlockStart(entry'[i]) = BlockStart(entry[i])
                        /\ BlockEnd(entry'[i]) = BlockEnd(entry[i])
  BY DEF SameBlocks, Active, BlockStart, BlockEnd
<1>3. BlocksDisjoint' BY <1>1, <1>2 DEF IInv, BlocksDisjoint
<1>4. BlocksAreUsable'
  <2>1. SUFFICES ASSUME NEW i \in Active
                 PROVE  \E r \in MemoryMap \ todo :
                          /\ entry'[i].physical_start >= PAGE_SIZE
                          /\ r.base <= BlockStart(entry'[i])
                          /\ BlockEnd(entry'[i]) <= RegionEnd(r)
    BY <1>1 DEF BlocksAreUsable, SameBlocks
  <2>2. entry'[i].physical_start = entry[i].physical_start
    BY <1>2 DEF SameBlocks
  <2> QED BY <1>2, <2>2 DEF IInv, BlocksAreUsable
<1> QED BY <1>1, <1>3, <1>4

(* pmm_new, and the start: no blocks. *)
LEMMA NoBlocks ==
  ASSUME NEW e \in {[i \in Slots |-> Unused]}
  PROVE  e \in [Slots -> PmmCtrlPtr] /\ \A i \in Slots : ~ e[i].active
<1>1. Unused \in PmmCtrlPtr BY Constants DEF Unused, PmmCtrlPtr
<1>2. ~ Unused.active BY DEF Unused
<1> QED BY <1>1, <1>2

(* At boot nothing is managed. *)
LEMMA InitIInv == ASSUME Init PROVE IInv
<1>1. entry \in [Slots -> PmmCtrlPtr] /\ Active = {}
  BY NoBlocks DEF Init, Active
<1> QED BY <1>1 DEF Init, IInv, TypeOK, FreeCountMatchesBits, BlocksDisjoint,
                    BlocksAreUsable

(* pmm_new: every block is forgotten. *)
LEMMA NewKeepsIInv == ASSUME IInv, PmmNew PROVE IInv'
<1>1. entry' \in [Slots -> PmmCtrlPtr] /\ Active' = {}
  BY NoBlocks DEF PmmNew, Active
<1>2. todo' \subseteq MemoryMap /\ ret' \in Nat /\ halted' \in BOOLEAN
  BY DEF PmmNew, IInv, TypeOK
<1> QED BY <1>1, <1>2 DEF IInv, TypeOK, FreeCountMatchesBits, BlocksDisjoint,
                          BlocksAreUsable

(* Two inactive entries are found by different calls of the recursion. *)
LEMMA InactiveBeforeOrder ==
  ASSUME NEW i \in Slots
  PROVE  /\ InactiveBefore(i) \in Nat
         /\ \A j \in Slots : i < j /\ ~ entry[i].active =>
              InactiveBefore(i) < InactiveBefore(j)
<1> DEFINE S(k) == {j \in 0 .. k - 1 : ~ entry[j].active}
<1>1. \A k \in Slots : IsFiniteSet(S(k))
  <2> TAKE k \in Slots
  <2>1. IsFiniteSet(0 .. k - 1) BY SlotsAreNat, FS_Interval
  <2> QED BY <2>1, FS_Subset
<1>2. \A k \in Slots : Cardinality(S(k)) \in Nat
  BY <1>1, FS_CardinalityType
<1>3. \A j \in Slots : i < j /\ ~ entry[i].active =>
        Cardinality(S(i)) < Cardinality(S(j))
  <2> TAKE j \in Slots
  <2> HAVE i < j /\ ~ entry[i].active
  <2>1. S(i) \cup {i} \subseteq S(j) /\ i \notin S(i) BY SlotsAreNat
  <2>2. Cardinality(S(i) \cup {i}) = Cardinality(S(i)) + 1
    BY <1>1, <2>1, FS_AddElement
  <2>3. Cardinality(S(i) \cup {i}) <= Cardinality(S(j))
    BY <1>1, <2>1, FS_Subset
  <2> QED BY <1>2, <2>2, <2>3
<1> QED BY <1>2, <1>3 DEF InactiveBefore

(* The entries pmm_add fills. *)
Filled(r) == {i \in Slots : ~ entry[i].active /\ IsChunk(r, InactiveBefore(i))}

(* What an entry is after pmm_add: filled with a block of r, or as before. *)
LEMMA AddFills ==
  ASSUME IInv, NEW r \in todo, PmmAdd(r)
  PROVE  /\ \A i \in Slots \ Filled(r) : entry'[i] = entry[i]
         /\ \A i \in Filled(r) :
              LET n == InactiveBefore(i)
                  e == entry'[i]
              IN  /\ e \in PmmCtrlPtr
                  /\ e.active
                  /\ e.physical_start >= PAGE_SIZE
                  /\ e.free_pages = e.max_pages
                  /\ e.ctrl = PageBits(e.max_pages)
                  /\ r.base <= BlockStart(e)
                  /\ BlockEnd(e) <= RegionEnd(r)
                  /\ BlockStart(e) = ChunkStart(r, n)
                  /\ BlockEnd(e) <= ChunkStart(r, n) + ChunkSize(r, n)
                  /\ ChunkStart(r, n) \in Nat /\ ChunkSize(r, n) \in Nat
<1>1. r \in MemoryMap /\ RegionEnd(r) \in Nat
  BY MapAssumption DEF IInv, TypeOK, RegionEnd
<1>2. \A i \in Slots \ Filled(r) : entry'[i] = entry[i] BY DEF PmmAdd, Filled
<1>3. ASSUME NEW i \in Filled(r)
      PROVE  LET n == InactiveBefore(i)
                 e == entry'[i]
             IN  /\ e \in PmmCtrlPtr
                 /\ e.active
                 /\ e.physical_start >= PAGE_SIZE
                 /\ e.free_pages = e.max_pages
                 /\ e.ctrl = PageBits(e.max_pages)
                 /\ r.base <= BlockStart(e)
                 /\ BlockEnd(e) <= RegionEnd(r)
                 /\ BlockStart(e) = ChunkStart(r, n)
                 /\ BlockEnd(e) <= ChunkStart(r, n) + ChunkSize(r, n)
                 /\ ChunkStart(r, n) \in Nat /\ ChunkSize(r, n) \in Nat
  <2> DEFINE n == InactiveBefore(i)
             start == ChunkStart(r, n)
             size == ChunkSize(r, n)
             e == entry'[i]
  <2>1. i \in Slots /\ ~ entry[i].active /\ IsChunk(r, n) BY DEF Filled
  <2>2. n \in Nat BY <2>1, InactiveBeforeOrder
  <2>3. e = SetupEntry(start, size) BY <2>1 DEF PmmAdd
  <2> HIDE DEF n
  <2>4. /\ start \in Nat /\ size \in Nat
        /\ r.base <= start
        /\ start + size <= RegionEnd(r)
        /\ PAGE_SIZE <= size /\ size <= MAX_BLOCK_SIZE_BYTES
    BY <1>1, <2>1, <2>2, ChunkBounds
  <2> HIDE DEF start, size, e
  <2>5. /\ e \in PmmCtrlPtr
        /\ e.active
        /\ e.physical_start >= PAGE_SIZE
        /\ e.free_pages = e.max_pages
        /\ e.ctrl = PageBits(e.max_pages)
        /\ BlockStart(e) = start
        /\ BlockEnd(e) <= start + size
    BY <2>3, <2>4, SetupEntryBlock
  <2>6. e.physical_start \in Nat /\ e.max_pages \in Nat
    BY <2>5, Constants DEF PmmCtrlPtr
  <2>7. BlockEnd(e) \in Nat BY <2>6, Constants, TimesNat DEF BlockEnd
  <2>8. BlockEnd(e) <= RegionEnd(r) BY <1>1, <2>4, <2>5, <2>7
  <2> QED BY <2>4, <2>5, <2>8 DEF e, n, start, size
<1> QED BY <1>2, <1>3

(* pmm_add keeps the invariant. *)
LEMMA AddKeepsIInv ==
  ASSUME IInv, NEW r \in todo, PmmAdd(r)
  PROVE  IInv'
<1>1. \A i \in Slots \ Filled(r) : entry'[i] = entry[i] BY AddFills
<1>2. \A i \in Filled(r) : /\ i \in Slots
                           /\ entry'[i] \in PmmCtrlPtr
                           /\ entry'[i].active
                           /\ ~ entry[i].active
  BY AddFills DEF Filled
<1>3. Active' = Active \cup Filled(r)
  BY <1>1, <1>2 DEF Active
<1>4. \A i \in Active : entry'[i] = entry[i] /\ i \in Slots
  BY <1>1 DEF Active, Filled
<1>5. todo' = todo \ {r} /\ r \in MemoryMap BY DEF PmmAdd, IInv, TypeOK
<1>6. TypeOK'
  <2>1. entry' \in [Slots -> PmmCtrlPtr]
    <3>1. entry' = [i \in Slots |-> entry'[i]] BY DEF PmmAdd
    <3>2. \A i \in Slots : entry'[i] \in PmmCtrlPtr
      BY <1>1, <1>2 DEF IInv, TypeOK
    <3> QED BY <3>1, <3>2
  <2>2. todo' \subseteq MemoryMap BY <1>5 DEF IInv, TypeOK
  <2>3. ret' = ret /\ halted' = halted BY DEF PmmAdd
  <2> QED BY <2>1, <2>2, <2>3 DEF IInv, TypeOK
<1>7. FreeCountMatchesBits'
  <2> SUFFICES ASSUME NEW i \in Active'
               PROVE  /\ entry'[i].free_pages = Cardinality(entry'[i].ctrl)
                      /\ entry'[i].ctrl \subseteq PageBits(entry'[i].max_pages)
    BY DEF FreeCountMatchesBits
  <2>1. CASE i \in Active
    BY <2>1, <1>4 DEF IInv, FreeCountMatchesBits
  <2>2. CASE i \in Filled(r)
    <3>1. /\ entry'[i] \in PmmCtrlPtr
          /\ entry'[i].free_pages = entry'[i].max_pages
          /\ entry'[i].ctrl = PageBits(entry'[i].max_pages)
      BY <2>2, AddFills
    <3>2. entry'[i].max_pages \in 0 .. MAX_BLOCK_SIZE_PAGES
      BY <3>1 DEF PmmCtrlPtr
    <3> QED BY <3>1, <3>2, PageBitsCount
  <2> QED BY <1>3, <2>1, <2>2
<1>8. BlocksDisjoint'
  <2> DEFINE Apart(i, j) == \/ BlockEnd(entry'[i]) <= BlockStart(entry'[j])
                            \/ BlockEnd(entry'[j]) <= BlockStart(entry'[i])
  <2>1. ASSUME NEW i \in Active, NEW j \in Active, i # j PROVE Apart(i, j)
    BY <2>1, <1>4 DEF IInv, BlocksDisjoint
  <2>2. ASSUME NEW i \in Active, NEW j \in Filled(r) PROVE Apart(i, j)
    <3>1. PICK s \in MemoryMap \ todo :
            /\ s.base <= BlockStart(entry[i])
            /\ BlockEnd(entry[i]) <= RegionEnd(s)
      BY DEF IInv, BlocksAreUsable
    <3>2. RegionEnd(r) <= s.base \/ RegionEnd(s) <= r.base
      BY <1>5, MapAssumption
    <3>3. /\ r.base <= BlockStart(entry'[j])
          /\ BlockEnd(entry'[j]) <= RegionEnd(r)
          /\ entry'[j] \in PmmCtrlPtr
          /\ entry'[j].physical_start \in Nat /\ entry'[j].max_pages \in Nat
      BY AddFills, Constants DEF PmmCtrlPtr
    <3>4. /\ s.base \in Nat /\ r.base \in Nat
          /\ RegionEnd(r) \in Nat /\ RegionEnd(s) \in Nat
      BY <1>5, MapAssumption DEF RegionEnd
    <3>5. \A e \in {entry[i], entry'[j]} :
            BlockStart(e) \in Int /\ BlockEnd(e) \in Int
      BY <3>3, BlockFacts, Constants, TimesNat DEF BlockStart, BlockEnd
    <3> QED BY <3>1, <3>2, <3>3, <3>4, <3>5, <1>4
  <2>3. ASSUME NEW i \in Filled(r), NEW j \in Filled(r), i < j PROVE Apart(i, j)
    <3> DEFINE m == InactiveBefore(i)
               n == InactiveBefore(j)
    <3>1. m \in Nat /\ n \in Nat /\ m < n /\ IsChunk(r, m)
      BY <2>3, InactiveBeforeOrder DEF Filled
    <3>2. ChunkStart(r, m) + ChunkSize(r, m) <= ChunkStart(r, n)
      BY <1>5, <3>1, ChunkBounds
    <3>3. /\ BlockEnd(entry'[i]) <= ChunkStart(r, m) + ChunkSize(r, m)
          /\ BlockStart(entry'[j]) = ChunkStart(r, n)
          /\ ChunkStart(r, m) \in Nat /\ ChunkSize(r, m) \in Nat
          /\ ChunkStart(r, n) \in Nat
          /\ entry'[i].physical_start \in Nat /\ entry'[i].max_pages \in Nat
      BY AddFills, Constants DEF PmmCtrlPtr
    <3>4. BlockEnd(entry'[i]) \in Int
      BY <3>3, Constants, TimesNat DEF BlockEnd
    <3> QED BY <3>2, <3>3, <3>4
  <2>4. \A i, j \in Filled(r) : i # j => Apart(i, j)
    <3> TAKE i, j \in Filled(r)
    <3> HAVE i # j
    <3>1. i < j \/ j < i BY SlotsAreNat DEF Filled
    <3> QED BY <3>1, <2>3
  <2> HIDE DEF Apart
  <2>5. \A i, j : Apart(i, j) => Apart(j, i) BY DEF Apart
  <2>6. \A i, j \in Active' : i = j \/ Apart(i, j)
    BY <1>3, <2>1, <2>2, <2>4, <2>5
  <2> QED BY <2>6 DEF BlocksDisjoint, Apart
<1>9. BlocksAreUsable'
  <2> SUFFICES ASSUME NEW i \in Active'
               PROVE  \E s \in MemoryMap \ todo' :
                        /\ entry'[i].physical_start >= PAGE_SIZE
                        /\ s.base <= BlockStart(entry'[i])
                        /\ BlockEnd(entry'[i]) <= RegionEnd(s)
    BY DEF BlocksAreUsable
  <2>1. CASE i \in Active
    BY <2>1, <1>4, <1>5 DEF IInv, BlocksAreUsable
  <2>2. CASE i \in Filled(r)
    BY <2>2, <1>5, AddFills
  <2> QED BY <1>3, <2>1, <2>2
<1> QED BY <1>6, <1>7, <1>8, <1>9 DEF IInv

(* A step that changes the bits of one block and keeps its count right.    *)
LEMMA OneBlockKeepsIInv ==
  ASSUME IInv, NEW i \in Active, NEW ctrl \in SUBSET PageBits(entry[i].max_pages),
         NEW free_pages \in Nat, free_pages = Cardinality(ctrl),
         entry' = [entry EXCEPT ![i].ctrl = ctrl, ![i].free_pages = free_pages],
         todo' = todo, ret' \in Nat, halted' \in BOOLEAN
  PROVE  IInv' /\ SameBlocks
<1>1. /\ i \in Slots /\ entry[i] \in PmmCtrlPtr
      /\ IsFiniteSet(PageBits(entry[i].max_pages))
      /\ entry[i].max_pages \in 0 .. MAX_BLOCK_SIZE_PAGES
  BY BlockFacts
<1>2. entry'[i] = [entry[i] EXCEPT !.ctrl = ctrl, !.free_pages = free_pages]
  BY <1>1 DEF IInv, TypeOK
<1>3. \A j \in Slots : j # i => entry'[j] = entry[j]
  BY DEF IInv, TypeOK
<1>4. free_pages \in 0 .. MAX_BLOCK_SIZE_PAGES
  <2>1. Cardinality(ctrl) <= Cardinality(PageBits(entry[i].max_pages))
    BY <1>1, FS_Subset
  <2> QED BY <2>1, <1>1, PageBitsCount, Constants
<1>5. /\ entry'[i] \in PmmCtrlPtr
      /\ entry'[i].active = entry[i].active
      /\ entry'[i].physical_start = entry[i].physical_start
      /\ entry'[i].max_pages = entry[i].max_pages
      /\ entry'[i].ctrl = ctrl
      /\ entry'[i].free_pages = free_pages
  <2>1. ctrl \in SUBSET Bits BY DEF PageBits
  <2>2. ASSUME NEW e \in PmmCtrlPtr, NEW f,
               f = [e EXCEPT !.ctrl = ctrl, !.free_pages = free_pages]
        PROVE  /\ f \in PmmCtrlPtr
               /\ f.active = e.active
               /\ f.physical_start = e.physical_start
               /\ f.max_pages = e.max_pages
               /\ f.ctrl = ctrl
               /\ f.free_pages = free_pages
    <3>1. f \in PmmCtrlPtr BY <1>4, <2>1, <2>2 DEF PmmCtrlPtr
    <3>2. /\ f.active = e.active
          /\ f.physical_start = e.physical_start
          /\ f.max_pages = e.max_pages
      BY <2>2 DEF PmmCtrlPtr
    <3>3. f.ctrl = ctrl /\ f.free_pages = free_pages BY <2>2 DEF PmmCtrlPtr
    <3> QED BY <3>1, <3>2, <3>3
  <2> QED BY <1>1, <1>2, <2>2
<1>6. entry' \in [Slots -> PmmCtrlPtr]
  <2>1. entry' = [j \in Slots |-> entry'[j]] BY <1>1 DEF IInv, TypeOK
  <2>2. \A j \in Slots : entry'[j] \in PmmCtrlPtr
    BY <1>3, <1>5 DEF IInv, TypeOK
  <2> QED BY <2>1, <2>2
<1>7. SameBlocks BY <1>3, <1>5, <1>6 DEF SameBlocks
<1>8. BlocksDisjoint' /\ BlocksAreUsable' /\ Active' = Active
  BY <1>7, SameBlocksKeepPlaces
<1>9. FreeCountMatchesBits'
  <2> SUFFICES ASSUME NEW j \in Active
               PROVE  /\ entry'[j].free_pages = Cardinality(entry'[j].ctrl)
                      /\ entry'[j].ctrl \subseteq PageBits(entry'[j].max_pages)
    BY <1>8 DEF FreeCountMatchesBits
  <2>1. CASE j = i BY <2>1, <1>5
  <2>2. CASE j # i
    BY <2>2, <1>3 DEF Active, IInv, FreeCountMatchesBits
  <2> QED BY <2>1, <2>2
<1>10. TypeOK' BY <1>6 DEF IInv, TypeOK
<1> QED BY <1>7, <1>8, <1>9, <1>10 DEF IInv

(* The bit and the block pmm_allocate_page takes a page from. *)
LEMMA AllocateFacts ==
  ASSUME IInv, PmmAllocatePage, WithSpace # {}
  PROVE  LET i == Min(WithSpace)
             c == LowestBit(entry[i].ctrl)
             ctrl == entry[i].ctrl \ {c}
         IN  /\ i \in Active
             /\ c \in entry[i].ctrl
             /\ c \in PageBits(entry[i].max_pages)
             /\ ctrl \in SUBSET PageBits(entry[i].max_pages)
             /\ entry[i].free_pages - 1 \in Nat
             /\ entry[i].free_pages - 1 = Cardinality(ctrl)
             /\ entry' = [entry EXCEPT ![i].ctrl = ctrl,
                                       ![i].free_pages = entry[i].free_pages - 1]
             /\ ret' = Physical(entry[i], c)
             /\ ret' \in Nat
             /\ halted' = FALSE
             /\ todo' = todo
<1> DEFINE i == Min(WithSpace)
           p == entry[i]
           c == LowestBit(p.ctrl)
           ctrl == p.ctrl \ {c}
<1>1. i \in WithSpace
  <2>1. WithSpace \in SUBSET Nat
    BY SlotsAreNat DEF WithSpace, Active
  <2> QED BY <2>1, MinIsLeast
<1>2. i \in Active /\ p.free_pages > 0 BY <1>1 DEF WithSpace
<1> HIDE DEF i
<1>3. /\ i \in Slots /\ p \in PmmCtrlPtr
      /\ IsFiniteSet(p.ctrl)
      /\ p.ctrl \subseteq PageBits(p.max_pages)
      /\ p.free_pages = Cardinality(p.ctrl)
      /\ p.physical_start \in Nat
  BY <1>2, BlockFacts
<1>4. p.ctrl # {} BY <1>2, <1>3, FS_EmptySet
<1>5. c \in p.ctrl
  <2>1. p.ctrl \in SUBSET Bits BY <1>3 DEF PmmCtrlPtr
  <2> QED BY <2>1, <1>4, LowestBitIsSet
<1>6. p.free_pages - 1 \in Nat /\ p.free_pages - 1 = Cardinality(ctrl)
  <2> HIDE DEF c, p
  <2>1. Cardinality(ctrl) = Cardinality(p.ctrl) - 1
    BY <1>3, <1>5, FS_RemoveElement
  <2>2. p.free_pages \in Nat BY <1>3, FS_CardinalityType
  <2> QED BY <2>1, <2>2, <1>2, <1>3
<1>7. /\ halted' = FALSE
      /\ entry' = [entry EXCEPT ![i].ctrl = @ \ {c}, ![i].free_pages = @ - 1]
      /\ ret' = Physical(p, c)
      /\ todo' = todo
  BY <1>4 DEF PmmAllocatePage, AllocateFrom, i
<1>8. entry' = [entry EXCEPT ![i].ctrl = ctrl, ![i].free_pages = p.free_pages - 1]
  BY <1>3, <1>7 DEF IInv, TypeOK, PmmCtrlPtr
<1>9. ret' \in Nat
  <2>1. PageIndex(c) \in Nat
    BY <1>3, <1>5, IndexBitAt, Constants DEF PageBits
  <2>2. PAGE_SIZE * PageIndex(c) \in Nat BY <2>1, Constants, TimesNat
  <2> QED BY <2>2, <1>3, <1>7 DEF Physical
<1> QED BY <1>2, <1>3, <1>5, <1>6, <1>7, <1>8, <1>9 DEF i

(* pmm_allocate_page keeps the invariant. *)
LEMMA AllocateKeepsIInv == ASSUME IInv, PmmAllocatePage PROVE IInv'
<1>1. CASE WithSpace = {}
  <2>1. UNCHANGED <<entry, todo, halted>> /\ ret' \in Nat
    BY <1>1 DEF PmmAllocatePage
  <2> QED BY <2>1 DEF IInv, TypeOK, FreeCountMatchesBits, BlocksDisjoint,
                      BlocksAreUsable, Active
<1>2. CASE WithSpace # {}
  <2> DEFINE i == Min(WithSpace)
             ctrl == entry[i].ctrl \ {LowestBit(entry[i].ctrl)}
  <2>1. /\ i \in Active
        /\ ctrl \in SUBSET PageBits(entry[i].max_pages)
        /\ entry[i].free_pages - 1 \in Nat
        /\ entry[i].free_pages - 1 = Cardinality(ctrl)
        /\ entry' = [entry EXCEPT ![i].ctrl = ctrl,
                                  ![i].free_pages = entry[i].free_pages - 1]
        /\ todo' = todo /\ ret' \in Nat /\ halted' \in BOOLEAN
    BY <1>2, AllocateFacts
  <2> HIDE DEF i, ctrl
  <2> QED BY <2>1, OneBlockKeepsIInv
<1> QED BY <1>1, <1>2

(* The bit and the block of the page around the address being freed. *)
LEMMA FreeFacts ==
  ASSUME IInv, NEW a \in Address, PmmFreePage(a), Covering(a) # {}
  PROVE  LET i == Min(Covering(a))
             k == (a - entry[i].physical_start) \div PAGE_SIZE
             c == BitAt(k)
         IN  /\ i \in Active
             /\ k \in Nat
             /\ entry[i].physical_start + PAGE_SIZE * k <= a
             /\ a < entry[i].physical_start + PAGE_SIZE * k + PAGE_SIZE
             /\ PageIndex(c) = k
             /\ c \in PageBits(entry[i].max_pages)
             /\ c \in entry[i].ctrl => halted' = TRUE /\ UNCHANGED entry
             /\ c \notin entry[i].ctrl =>
                  LET ctrl == entry[i].ctrl \cup {c}
                  IN  /\ halted' = halted
                      /\ ctrl \in SUBSET PageBits(entry[i].max_pages)
                      /\ entry[i].free_pages + 1 \in Nat
                      /\ entry[i].free_pages + 1 = Cardinality(ctrl)
                      /\ entry' = [entry EXCEPT ![i].ctrl = ctrl,
                                     ![i].free_pages = entry[i].free_pages + 1]
<1> DEFINE i == Min(Covering(a))
           p == entry[i]
           k == (a - p.physical_start) \div PAGE_SIZE
           c == BitAt(k)
           ctrl == p.ctrl \cup {c}
<1>1. i \in Covering(a)
  <2>1. Covering(a) \in SUBSET Nat
    BY SlotsAreNat DEF Covering, Active
  <2> QED BY <2>1, MinIsLeast
<1>2. /\ i \in Active
      /\ a >= p.physical_start
      /\ a < p.physical_start + PAGE_SIZE * p.max_pages
  BY <1>1 DEF Covering
<1>3. UNCHANGED <<todo, ret>>
      /\ IF c \in p.ctrl
         THEN halted' = TRUE /\ UNCHANGED entry
         ELSE /\ entry' = [entry EXCEPT ![i].ctrl = @ \cup {c},
                                        ![i].free_pages = @ + 1]
              /\ UNCHANGED halted
  BY DEF PmmFreePage
<1> HIDE DEF i
<1>4. /\ i \in Slots /\ p \in PmmCtrlPtr
      /\ IsFiniteSet(p.ctrl)
      /\ p.ctrl \subseteq PageBits(p.max_pages)
      /\ p.free_pages = Cardinality(p.ctrl)
      /\ p.physical_start \in Nat
      /\ p.max_pages \in 0 .. MAX_BLOCK_SIZE_PAGES
      /\ p.max_pages \in Nat
  BY <1>2, BlockFacts
<1>5. a \in Nat BY AddressAssumption
<1>6. /\ k \in Nat
      /\ PAGE_SIZE * k \in Nat
      /\ PAGE_SIZE * k <= a - p.physical_start
      /\ a - p.physical_start < PAGE_SIZE * k + PAGE_SIZE
  <2>1. a - p.physical_start \in Nat BY <1>2, <1>4, <1>5
  <2> QED BY <2>1, Constants, DivBounds
<1> HIDE DEF k, p
<1>7. k < p.max_pages
  <2> SUFFICES ASSUME p.max_pages <= k PROVE FALSE BY <1>4, <1>6
  <2>1. PAGE_SIZE * p.max_pages \in Int /\ PAGE_SIZE * p.max_pages <= PAGE_SIZE * k
    BY <1>4, <1>6, Constants, TimesMonotonic
  <2> QED BY <2>1, <1>2, <1>4, <1>5, <1>6
<1>8. c \in PageBits(p.max_pages) /\ PageIndex(c) = k
  <2>1. k \in 0 .. MAX_BLOCK_SIZE_PAGES - 1 BY <1>4, <1>6, <1>7, Constants
  <2> QED BY <2>1, <1>7, BitAtIndex DEF PageBits
<1>9. ASSUME c \notin p.ctrl
      PROVE  /\ p.free_pages + 1 \in Nat
             /\ p.free_pages + 1 = Cardinality(ctrl)
             /\ ctrl \in SUBSET PageBits(p.max_pages)
             /\ entry' = [entry EXCEPT ![i].ctrl = ctrl,
                                       ![i].free_pages = p.free_pages + 1]
  <2>1. p.free_pages \in Nat BY <1>4, FS_CardinalityType
  <2>2. Cardinality(ctrl) = Cardinality(p.ctrl) + 1
    BY <1>4, <1>9, FS_AddElement
  <2>3. entry' = [entry EXCEPT ![i].ctrl = ctrl,
                               ![i].free_pages = p.free_pages + 1]
    BY <1>3, <1>4, <1>9 DEF IInv, TypeOK, PmmCtrlPtr, p
  <2> QED BY <2>1, <2>2, <2>3, <1>4, <1>8
<1>10. /\ p.physical_start + PAGE_SIZE * k <= a
       /\ a < p.physical_start + PAGE_SIZE * k + PAGE_SIZE
  BY <1>4, <1>5, <1>6, Constants
<1> QED BY <1>2, <1>3, <1>6, <1>8, <1>9, <1>10 DEF i, p, k

(* pmm_free_page keeps the invariant. *)
LEMMA FreeKeepsIInv ==
  ASSUME IInv, NEW a \in Address, PmmFreePage(a)
  PROVE  IInv'
<1>1. todo' = todo /\ ret' \in Nat /\ halted' \in BOOLEAN
  BY DEF PmmFreePage, IInv, TypeOK
<1>2. CASE UNCHANGED entry
  BY <1>1, <1>2 DEF IInv, TypeOK, FreeCountMatchesBits, BlocksDisjoint,
                    BlocksAreUsable, Active
<1>3. CASE ~ UNCHANGED entry
  <2> DEFINE i == Min(Covering(a))
             c == BitAt((a - entry[i].physical_start) \div PAGE_SIZE)
             ctrl == entry[i].ctrl \cup {c}
  <2>1. Covering(a) # {} BY <1>3 DEF PmmFreePage
  <2>2. /\ i \in Active
        /\ ctrl \in SUBSET PageBits(entry[i].max_pages)
        /\ entry[i].free_pages + 1 \in Nat
        /\ entry[i].free_pages + 1 = Cardinality(ctrl)
        /\ entry' = [entry EXCEPT ![i].ctrl = ctrl,
                                  ![i].free_pages = entry[i].free_pages + 1]
    BY <1>3, <2>1, FreeFacts
  <2> HIDE DEF i, ctrl
  <2> QED BY <1>1, <2>2, OneBlockKeepsIInv
<1> QED BY <1>2, <1>3

(* The invariant is inductive, so it holds for every size of page, word,   *)
(* control block and table, and for every memory map of the boot protocol. *)
THEOREM Invariance == Spec => []IInv
<1>1. Init => IInv BY InitIInv
<1>2. IInv /\ [Next]_vars => IInv'
  <2> SUFFICES ASSUME IInv, [Next]_vars PROVE IInv' OBVIOUS
  <2>1. CASE PmmNew BY <2>1, NewKeepsIInv
  <2>2. ASSUME NEW r \in todo, PmmAdd(r) PROVE IInv' BY <2>2, AddKeepsIInv
  <2>3. CASE PmmAllocatePage BY <2>3, AllocateKeepsIInv
  <2>4. ASSUME NEW a \in Address, PmmFreePage(a) PROVE IInv'
    BY <2>4, FreeKeepsIInv
  <2>5. CASE UNCHANGED vars
    BY <2>5 DEF vars, IInv, TypeOK, FreeCountMatchesBits, BlocksDisjoint,
                BlocksAreUsable, Active
  <2> QED BY <2>1, <2>2, <2>3, <2>4, <2>5 DEF Next, Halt
<1> QED BY <1>1, <1>2, PTL DEF Spec

(* The types of the state hold for every memory map.                       *)
THEOREM TypeCorrect == Spec => []TypeOK
<1>1. IInv => TypeOK BY DEF IInv
<1> QED BY <1>1, Invariance, PTL

(* free_pages is always the number of bits set: pmm_ctrl_alloc never runs  *)
(* into its "should have space" panic and no free page is overlooked.      *)
THEOREM FreeCountCorrect == Spec => []FreeCountMatchesBits
<1>1. IInv => FreeCountMatchesBits BY DEF IInv
<1> QED BY <1>1, Invariance, PTL

(* No two blocks overlap, however pmm_add splits the regions.              *)
THEOREM BlocksStayDisjoint == Spec => []BlocksDisjoint
<1>1. IInv => BlocksDisjoint BY DEF IInv
<1> QED BY <1>1, Invariance, PTL

(* Nothing outside the usable regions passed to pmm_add is managed.        *)
THEOREM BlocksStayUsable == Spec => []BlocksAreUsable
<1>1. IInv => BlocksAreUsable BY DEF IInv
<1> QED BY <1>1, Invariance, PTL

------------------------------------------------------------------------------
(* The allocator keeps the promise of PageAllocator *)

(* A page of a block lies inside it, and is not page 0. *)
LEMMA PageInBlock ==
  ASSUME NEW e \in PmmCtrlPtr, e.physical_start >= PAGE_SIZE,
         NEW c \in PageBits(e.max_pages)
  PROVE  /\ Physical(e, c) \in Nat
         /\ PageIndex(c) \in Nat
         /\ PAGE_SIZE * PageIndex(c) \in Nat
         /\ Physical(e, c) = e.physical_start + PAGE_SIZE * PageIndex(c)
         /\ Physical(e, c) # 0
         /\ e.physical_start <= Physical(e, c)
         /\ Physical(e, c) + PAGE_SIZE <= BlockEnd(e)
         /\ BlockEnd(e) \in Nat
<1>1. e.physical_start \in Nat /\ e.max_pages \in Nat
  BY Constants DEF PmmCtrlPtr
<1>2. PageIndex(c) \in Nat /\ PageIndex(c) < e.max_pages
  BY IndexBitAt, Constants DEF PageBits
<1>3. /\ PAGE_SIZE * PageIndex(c) \in Nat
      /\ PAGE_SIZE * e.max_pages \in Nat
      /\ PAGE_SIZE * PageIndex(c) + PAGE_SIZE <= PAGE_SIZE * e.max_pages
  BY <1>1, <1>2, Constants, TimesNat, UnitsApart
<1> QED BY <1>1, <1>2, <1>3, Constants DEF Physical, BlockEnd

(* An address lies in at most one page of the pool. *)
LEMMA OnePagePerAddress ==
  ASSUME IInv,
         NEW i \in Active, NEW c \in PageBits(entry[i].max_pages),
         NEW j \in Active, NEW d \in PageBits(entry[j].max_pages),
         NEW a \in Nat,
         Physical(entry[i], c) <= a, a < Physical(entry[i], c) + PAGE_SIZE,
         Physical(entry[j], d) <= a, a < Physical(entry[j], d) + PAGE_SIZE
  PROVE  i = j /\ c = d
<1> DEFINE e == entry[i]
           f == entry[j]
<1>1. /\ e \in PmmCtrlPtr /\ e.physical_start >= PAGE_SIZE
      /\ e.physical_start \in Nat
      /\ f \in PmmCtrlPtr /\ f.physical_start >= PAGE_SIZE
      /\ f.physical_start \in Nat
  BY BlockFacts
<1>2. /\ Physical(e, c) \in Nat
      /\ e.physical_start <= Physical(e, c)
      /\ Physical(e, c) + PAGE_SIZE <= BlockEnd(e)
      /\ BlockEnd(e) \in Nat
      /\ PageIndex(c) \in Nat
      /\ PAGE_SIZE * PageIndex(c) \in Nat
      /\ Physical(e, c) = e.physical_start + PAGE_SIZE * PageIndex(c)
  BY <1>1, PageInBlock
<1>3. /\ Physical(f, d) \in Nat
      /\ f.physical_start <= Physical(f, d)
      /\ Physical(f, d) + PAGE_SIZE <= BlockEnd(f)
      /\ BlockEnd(f) \in Nat
      /\ PageIndex(d) \in Nat
      /\ PAGE_SIZE * PageIndex(d) \in Nat
      /\ Physical(f, d) = f.physical_start + PAGE_SIZE * PageIndex(d)
  BY <1>1, PageInBlock
<1>4. i = j
  <2> SUFFICES ASSUME i # j PROVE FALSE OBVIOUS
  <2>1. BlockEnd(e) <= BlockStart(f) \/ BlockEnd(f) <= BlockStart(e)
    BY DEF IInv, BlocksDisjoint
  <2>2. /\ BlockStart(e) = e.physical_start - PAGE_SIZE
        /\ BlockStart(f) = f.physical_start - PAGE_SIZE
    BY DEF BlockStart
  <2> HIDE DEF e, f
  <2>3. /\ Physical(e, c) <= a /\ a < Physical(e, c) + PAGE_SIZE
        /\ Physical(f, d) <= a /\ a < Physical(f, d) + PAGE_SIZE
    BY DEF e, f
  <2> QED BY <2>1, <2>2, <2>3, <1>1, <1>2, <1>3, Constants
<1>5. PageIndex(c) = PageIndex(d)
  <2>1. ~ (PageIndex(c) < PageIndex(d))
    <3> SUFFICES ASSUME PageIndex(c) < PageIndex(d) PROVE FALSE OBVIOUS
    <3>1. PAGE_SIZE * PageIndex(c) + PAGE_SIZE <= PAGE_SIZE * PageIndex(d)
      BY <1>2, <1>3, Constants, UnitsApart
    <3> QED BY <3>1, <1>1, <1>2, <1>3, <1>4, Constants
  <2>2. ~ (PageIndex(d) < PageIndex(c))
    <3> SUFFICES ASSUME PageIndex(d) < PageIndex(c) PROVE FALSE OBVIOUS
    <3>1. PAGE_SIZE * PageIndex(d) + PAGE_SIZE <= PAGE_SIZE * PageIndex(c)
      BY <1>2, <1>3, Constants, UnitsApart
    <3> QED BY <3>1, <1>1, <1>2, <1>3, <1>4, Constants
  <2> QED BY <2>1, <2>2, <1>2, <1>3
<1>6. c \in Bits /\ d \in Bits BY DEF PageBits
<1> QED BY <1>4, <1>5, <1>6, IndexBitAt

(* Pool and Held, by membership. *)
LEMMA InPool ==
  ASSUME NEW q
  PROVE  /\ q \in Pool <=> \E i \in Active : q \in Pages(entry[i])
         /\ q \in Held <=> \E i \in Active : q \in HeldPages(entry[i])
         /\ q \in Held => q \in Pool
BY DEF Pool, Held, Pages, HeldPages

(* Changing the bits of one block changes the held pages of that block.    *)
LEMMA OneBlockPages ==
  ASSUME NEW i \in Active, Active' = Active,
         entry'[i].physical_start = entry[i].physical_start,
         entry'[i].max_pages = entry[i].max_pages,
         \A j \in Active : j # i => entry'[j] = entry[j]
  PROVE  /\ Pool' = Pool
         /\ \A q : q \in Held' <=>
              \/ q \in HeldPages(entry'[i])
              \/ \E j \in Active : j # i /\ q \in HeldPages(entry[j])
<1>1. Pages(entry'[i]) = Pages(entry[i]) BY DEF Pages, Physical
<1>2. ASSUME NEW q PROVE q \in Pool' <=> q \in Pool
  <2>1. q \in Pool' <=> \E j \in Active' : q \in Pages(entry'[j]) BY DEF Pool
  <2> QED BY <1>1, <2>1, InPool
<1>3. ASSUME NEW q
      PROVE  q \in Held' <=>
               \/ q \in HeldPages(entry'[i])
               \/ \E j \in Active : j # i /\ q \in HeldPages(entry[j])
  <2>1. q \in Held' <=> \E j \in Active' : q \in HeldPages(entry'[j]) BY DEF Held
  <2> QED BY <2>1
<1> QED BY <1>2, <1>3

(* The same, with the hypotheses the operations give. *)
LEMMA SetBitsPages ==
  ASSUME IInv, NEW i \in Active, NEW ctrl, NEW free_pages,
         entry' = [entry EXCEPT ![i].ctrl = ctrl, ![i].free_pages = free_pages],
         SameBlocks
  PROVE  /\ Pool' = Pool
         /\ entry'[i].ctrl = ctrl
         /\ HeldPages(entry'[i]) = {Physical(entry[i], c) :
                                      c \in PageBits(entry[i].max_pages) \ ctrl}
         /\ \A q : q \in Held' <=>
              \/ q \in HeldPages(entry'[i])
              \/ \E j \in Active : j # i /\ q \in HeldPages(entry[j])
<1>1. Active' = Active BY SameBlocksKeepPlaces
<1>2. /\ entry'[i].physical_start = entry[i].physical_start
      /\ entry'[i].max_pages = entry[i].max_pages
  BY DEF SameBlocks, Active
<1>3. entry'[i].ctrl = ctrl /\ \A j \in Active : j # i => entry'[j] = entry[j]
  <2>1. i \in Slots /\ entry[i] \in PmmCtrlPtr BY BlockFacts
  <2>2. entry'[i] = [entry[i] EXCEPT !.ctrl = ctrl, !.free_pages = free_pages]
    BY <2>1 DEF IInv, TypeOK
  <2>3. entry'[i].ctrl = ctrl BY <2>1, <2>2 DEF PmmCtrlPtr
  <2>4. \A j \in Active : j # i => entry'[j] = entry[j]
    BY DEF IInv, TypeOK, Active
  <2> QED BY <2>3, <2>4
<1>4. HeldPages(entry'[i]) = {Physical(entry[i], c) :
                                c \in PageBits(entry[i].max_pages) \ ctrl}
  BY <1>2, <1>3 DEF HeldPages, Physical
<1> QED BY <1>1, <1>2, <1>3, <1>4, OneBlockPages

(* pmm_new does what New promises. *)
LEMMA NewRefines == ASSUME IInv, PmmNew PROVE Promise!New
<1>1. Active' = {} BY NoBlocks DEF PmmNew, Active
<1>2. Pool' = {} /\ Held' = {} BY <1>1 DEF Pool, Held
<1> QED BY <1>2 DEF PmmNew, Promise!New

(* pmm_add does what Add promises. *)
LEMMA AddRefines ==
  ASSUME IInv, NEW r \in todo, PmmAdd(r)
  PROVE  Promise!Add
<1>1. \A i \in Active : i \in Active' /\ entry'[i] = entry[i]
  BY AddFills DEF Active, Filled
<1>2. \A i \in Active' : i \in Active \/ i \in Filled(r)
  BY AddFills DEF Active, Filled
<1>3. ASSUME NEW i \in Filled(r)
      PROVE  0 \notin Pages(entry'[i]) /\ HeldPages(entry'[i]) = {}
  <2>1. /\ entry'[i] \in PmmCtrlPtr
        /\ entry'[i].physical_start >= PAGE_SIZE
        /\ entry'[i].ctrl = PageBits(entry'[i].max_pages)
    BY AddFills
  <2> QED BY <2>1, PageInBlock DEF Pages, HeldPages
<1>4. ASSUME NEW i \in Active PROVE 0 \notin Pages(entry[i])
  BY BlockFacts, PageInBlock DEF Pages
<1>5. ASSUME NEW q
      PROVE  /\ q \in Pool' <=> \E i \in Active' : q \in Pages(entry'[i])
             /\ q \in Held' <=> \E i \in Active' : q \in HeldPages(entry'[i])
  BY DEF Pool, Held
<1>6. Pool \subseteq Pool' BY <1>1, <1>5, InPool
<1>7. 0 \notin Pool' BY <1>1, <1>2, <1>3, <1>4, <1>5
<1>8. Held' = Held BY <1>1, <1>2, <1>3, <1>5, InPool
<1> QED BY <1>6, <1>7, <1>8 DEF PmmAdd, Promise!Add

(* pmm_allocate_page does what Allocate promises. *)
LEMMA AllocateRefines == ASSUME IInv, PmmAllocatePage PROVE Promise!Allocate
<1>1. CASE WithSpace = {}
  <2>1. UNCHANGED <<entry, halted>> /\ ret' = 0 /\ ~ halted
    BY <1>1 DEF PmmAllocatePage
  <2>2. Pool' = Pool /\ Held' = Held BY <2>1 DEF Pool, Held, Active
  <2>3. ASSUME NEW i \in Active PROVE HeldPages(entry[i]) = Pages(entry[i])
    <3>1. /\ IsFiniteSet(entry[i].ctrl)
          /\ entry[i].free_pages = Cardinality(entry[i].ctrl)
      BY BlockFacts
    <3>2. ~ (entry[i].free_pages > 0) BY <1>1 DEF WithSpace
    <3>3. Cardinality(entry[i].ctrl) \in Nat BY <3>1, FS_CardinalityType
    <3>4. Cardinality(entry[i].ctrl) = 0 BY <3>1, <3>2, <3>3
    <3>5. entry[i].ctrl = {} BY <3>1, <3>4, FS_EmptySet
    <3> QED BY <3>5 DEF HeldPages, Pages
  <2>4. Held = Pool BY <2>3, InPool
  <2> QED BY <2>1, <2>2, <2>4 DEF Promise!Allocate
<1>2. CASE WithSpace # {}
  <2> DEFINE i == Min(WithSpace)
             c == LowestBit(entry[i].ctrl)
             ctrl == entry[i].ctrl \ {c}
             bits == PageBits(entry[i].max_pages)
             free_pages == entry[i].free_pages - 1
  <2>1. /\ i \in Active
        /\ c \in entry[i].ctrl
        /\ c \in bits
        /\ ctrl \in SUBSET bits
        /\ free_pages \in Nat
        /\ free_pages = Cardinality(ctrl)
        /\ entry' = [entry EXCEPT ![i].ctrl = ctrl, ![i].free_pages = free_pages]
        /\ ret' = Physical(entry[i], c)
        /\ ret' \in Nat /\ halted' = FALSE /\ todo' = todo
    BY <1>2, AllocateFacts
  <2>2. bits \ ctrl = (bits \ entry[i].ctrl) \cup {c} BY <2>1
  <2> HIDE DEF i, c, ctrl, free_pages
  <2>3. SameBlocks BY <2>1, OneBlockKeepsIInv
  <2>4. /\ Pool' = Pool
        /\ HeldPages(entry'[i]) = {Physical(entry[i], d) : d \in bits \ ctrl}
        /\ \A q : q \in Held' <=>
             \/ q \in HeldPages(entry'[i])
             \/ \E j \in Active : j # i /\ q \in HeldPages(entry[j])
    BY <2>1, <2>3, SetBitsPages
  <2>5. HeldPages(entry'[i]) = HeldPages(entry[i]) \cup {ret'}
    BY <2>1, <2>2, <2>4 DEF HeldPages
  <2>6. Held' = Held \cup {ret'} BY <2>1, <2>4, <2>5, InPool
  <2>7. ret' \in Pages(entry[i]) BY <2>1 DEF Pages
  <2>8. ret' \notin Held
    <3> SUFFICES ASSUME NEW j \in Active,
                        NEW d \in PageBits(entry[j].max_pages) \ entry[j].ctrl,
                        ret' = Physical(entry[j], d)
                 PROVE  FALSE
      BY InPool DEF HeldPages
    <3>1. /\ Physical(entry[j], d) <= ret'
          /\ ret' < Physical(entry[j], d) + PAGE_SIZE
          /\ Physical(entry[i], c) <= ret'
          /\ ret' < Physical(entry[i], c) + PAGE_SIZE
      BY <2>1, Constants
    <3>2. d \in PageBits(entry[j].max_pages) OBVIOUS
    <3>3. j = i /\ d = c BY <2>1, <3>1, <3>2, OnePagePerAddress
    <3> QED BY <3>3, <2>1
  <2>9. ret' \in Pool BY <2>1, <2>7, InPool
  <2>10. halted = FALSE BY DEF PmmAllocatePage, IInv, TypeOK
  <2> QED BY <2>1, <2>4, <2>6, <2>8, <2>9, <2>10 DEF Promise!Allocate
<1> QED BY <1>1, <1>2

(* pmm_free_page does what Free promises. *)
LEMMA FreeRefines ==
  ASSUME IInv, NEW a \in Address, PmmFreePage(a)
  PROVE  Promise!Free(a)
<1>1. a \in Nat /\ a # 0 /\ halted = FALSE /\ ret' = ret /\ todo' = todo
  BY AddressAssumption DEF PmmFreePage, IInv, TypeOK
<1>2. ASSUME NEW q
      PROVE  q \in Promise!HeldAround(a) <=>
               q \in Held /\ q <= a /\ a < q + PAGE_SIZE
  BY DEF Promise!HeldAround
<1>3. CASE Covering(a) = {}
  <2>1. halted' = TRUE /\ entry' = entry BY <1>3 DEF PmmFreePage
  <2>2. Pool' = Pool /\ Held' = Held BY <2>1 DEF Pool, Held, Active
  <2>3. Promise!HeldAround(a) = {}
    <3> SUFFICES ASSUME NEW i \in Active,
                        NEW c \in PageBits(entry[i].max_pages),
                        Physical(entry[i], c) <= a,
                        a < Physical(entry[i], c) + PAGE_SIZE
                 PROVE  FALSE
      BY <1>2, InPool DEF HeldPages
    <3>1. /\ Physical(entry[i], c) \in Nat
          /\ entry[i].physical_start <= Physical(entry[i], c)
          /\ Physical(entry[i], c) + PAGE_SIZE <= BlockEnd(entry[i])
          /\ BlockEnd(entry[i]) \in Nat
          /\ entry[i].physical_start \in Nat
      BY BlockFacts, PageInBlock
    <3>2. a >= entry[i].physical_start /\ a < BlockEnd(entry[i])
      BY <1>1, <3>1, Constants
    <3> QED BY <1>3, <3>2 DEF Covering, BlockEnd
  <2> QED BY <1>1, <2>1, <2>2, <2>3 DEF Promise!Free
<1>4. CASE Covering(a) # {}
  <2> DEFINE i == Min(Covering(a))
             k == (a - entry[i].physical_start) \div PAGE_SIZE
             c == BitAt(k)
             bits == PageBits(entry[i].max_pages)
             ctrl == entry[i].ctrl \cup {c}
             free_pages == entry[i].free_pages + 1
             page == Physical(entry[i], c)
  <2>1. /\ i \in Active
        /\ k \in Nat
        /\ entry[i].physical_start + PAGE_SIZE * k <= a
        /\ a < entry[i].physical_start + PAGE_SIZE * k + PAGE_SIZE
        /\ PageIndex(c) = k
        /\ c \in bits
    BY <1>4, FreeFacts
  <2>2. c \in entry[i].ctrl => halted' = TRUE /\ UNCHANGED entry
    BY <1>4, FreeFacts
  <2>3. c \notin entry[i].ctrl =>
          /\ halted' = halted
          /\ ctrl \in SUBSET bits
          /\ free_pages \in Nat
          /\ free_pages = Cardinality(ctrl)
          /\ entry' = [entry EXCEPT ![i].ctrl = ctrl, ![i].free_pages = free_pages]
    BY <1>4, FreeFacts
  <2>4. page <= a /\ a < page + PAGE_SIZE BY <2>1 DEF Physical
  <2> HIDE DEF i, c, k, ctrl, free_pages
  <2>5. ASSUME NEW j \in Active, NEW d \in PageBits(entry[j].max_pages),
               Physical(entry[j], d) <= a, a < Physical(entry[j], d) + PAGE_SIZE
        PROVE  j = i /\ d = c
    BY <1>1, <2>1, <2>4, <2>5, OnePagePerAddress
  <2>6. CASE c \in entry[i].ctrl
    <3>1. halted' = TRUE /\ entry' = entry BY <2>2, <2>6
    <3>2. Pool' = Pool /\ Held' = Held BY <3>1 DEF Pool, Held, Active
    <3>3. Promise!HeldAround(a) = {}
      <4> SUFFICES ASSUME NEW j \in Active,
                          NEW d \in PageBits(entry[j].max_pages) \ entry[j].ctrl,
                          Physical(entry[j], d) <= a,
                          a < Physical(entry[j], d) + PAGE_SIZE
                   PROVE  FALSE
        BY <1>2, InPool DEF HeldPages
      <4>1. d \in PageBits(entry[j].max_pages) OBVIOUS
      <4>2. j = i /\ d = c BY <4>1, <2>5
      <4> QED BY <4>2, <2>6
    <3> QED BY <1>1, <3>1, <3>2, <3>3 DEF Promise!Free
  <2>7. CASE c \notin entry[i].ctrl
    <3>1. /\ halted' = halted
          /\ ctrl \in SUBSET bits
          /\ free_pages \in Nat
          /\ free_pages = Cardinality(ctrl)
          /\ entry' = [entry EXCEPT ![i].ctrl = ctrl, ![i].free_pages = free_pages]
          /\ ret' \in Nat /\ halted' \in BOOLEAN
      BY <1>1, <2>3, <2>7 DEF IInv, TypeOK
    <3>2. SameBlocks BY <1>1, <2>1, <3>1, OneBlockKeepsIInv
    <3>3. /\ Pool' = Pool
          /\ HeldPages(entry'[i]) = {Physical(entry[i], d) : d \in bits \ ctrl}
          /\ \A q : q \in Held' <=>
               \/ q \in HeldPages(entry'[i])
               \/ \E j \in Active : j # i /\ q \in HeldPages(entry[j])
      BY <2>1, <3>1, <3>2, SetBitsPages
    <3>4. page \in HeldPages(entry[i]) BY <2>1, <2>7 DEF HeldPages
    <3>5. Promise!HeldAround(a) = {page}
      <4>1. page \in Promise!HeldAround(a) BY <1>2, <2>1, <2>4, <3>4, InPool
      <4>2. ASSUME NEW j \in Active,
                   NEW d \in PageBits(entry[j].max_pages) \ entry[j].ctrl,
                   Physical(entry[j], d) <= a,
                   a < Physical(entry[j], d) + PAGE_SIZE
            PROVE  Physical(entry[j], d) = page
        <5>1. d \in PageBits(entry[j].max_pages) OBVIOUS
        <5> QED BY <5>1, <4>2, <2>5
      <4>3. \A q \in Promise!HeldAround(a) : q = page
        BY <1>2, <4>2, InPool DEF HeldPages
      <4> QED BY <4>1, <4>3
    <3>6. HeldPages(entry'[i]) = HeldPages(entry[i]) \ {page}
      <4>1. ASSUME NEW d \in bits, Physical(entry[i], d) = page PROVE d = c
        <5>1. Physical(entry[i], d) <= a /\ a < Physical(entry[i], d) + PAGE_SIZE
          BY <2>4, <4>1
        <5> QED BY <5>1, <2>1, <2>5
      <4>2. bits \ ctrl = (bits \ entry[i].ctrl) \ {c} BY DEF ctrl
      <4>3. HeldPages(entry[i]) = {Physical(entry[i], d) : d \in bits \ entry[i].ctrl}
        BY DEF HeldPages
      <4> QED BY <2>1, <3>3, <4>1, <4>2, <4>3
    <3>7. \A j \in Active : j # i => page \notin HeldPages(entry[j])
      <4> SUFFICES ASSUME NEW j \in Active, j # i,
                          NEW d \in PageBits(entry[j].max_pages),
                          Physical(entry[j], d) = page
                   PROVE  FALSE
        BY DEF HeldPages
      <4>1. j = i BY <2>4, <2>5
      <4> QED BY <4>1
    <3>8. Held' = Held \ {page} BY <2>1, <3>3, <3>6, <3>7, InPool
    <3> QED BY <1>1, <3>1, <3>3, <3>5, <3>8 DEF Promise!Free
  <2> QED BY <2>6, <2>7
<1> QED BY <1>3, <1>4

(* pmm.c implements the page allocator that pmm.h promises: no page is     *)
(* handed out twice, 0 is returned only when every page is out, freeing    *)
(* gives back exactly the page around the address, and the wrong free      *)
(* stops the kernel.                                                       *)
THEOREM Refinement == Spec => ImplementsPageAllocator
<1>1. Init => Promise!Init
  <2> SUFFICES ASSUME Init PROVE Promise!Init OBVIOUS
  <2>1. Active = {} BY NoBlocks DEF Init, Active
  <2>2. Pool = {} /\ Held = {} BY <2>1 DEF Pool, Held
  <2> QED BY <2>2 DEF Init, Promise!Init
<1>2. IInv /\ [Next]_vars => [Promise!Next]_(Promise!vars)
  <2> SUFFICES ASSUME IInv, [Next]_vars
               PROVE  Promise!Next \/ UNCHANGED Promise!vars
    OBVIOUS
  <2>1. CASE PmmNew BY <2>1, NewRefines DEF Promise!Next
  <2>2. ASSUME NEW r \in todo, PmmAdd(r) PROVE Promise!Next
    BY <2>2, AddRefines DEF Promise!Next
  <2>3. CASE PmmAllocatePage BY <2>3, AllocateRefines DEF Promise!Next
  <2>4. ASSUME NEW a \in Address, PmmFreePage(a) PROVE Promise!Next
    BY <2>4, FreeRefines DEF Promise!Next
  <2>5. CASE UNCHANGED vars
    BY <2>5 DEF vars, Promise!vars, Pool, Held, Active
  <2> QED BY <2>1, <2>2, <2>3, <2>4, <2>5 DEF Next, Halt
<1> QED BY <1>1, <1>2, Invariance, PTL DEF Spec, Promise!Spec, ImplementsPageAllocator

------------------------------------------------------------------------------
(* The statistics *)

(* One turn of the loop of pmm_count_pages. *)
Turn(i, stat) ==
  IF ~entry[i].active THEN stat
  ELSE [total    |-> stat.total + 1 + entry[i].max_pages,
        overhead |-> stat.overhead + 1,
        used     |-> stat.used + (entry[i].max_pages - entry[i].free_pages),
        free     |-> stat.free + entry[i].free_pages]

(* Counted is the recursion it is written as. *)
LEMMA CountedIs ==
  ASSUME TypeOK
  PROVE  /\ Counted[0] = [total |-> 1, overhead |-> 1, used |-> 0, free |-> 0]
         /\ \A n \in 0 .. PMM_ENTRIES - 1 : Counted[n + 1] = Turn(n, Counted[n])
<1> DEFINE X == [total : Int, overhead : Int, used : Int, free : Int]
           none == [total |-> 1, overhead |-> 1, used |-> 0, free |-> 0]
           step == [p \in Nat \X X |-> IF p[1] \in Slots THEN Turn(p[1], p[2]) ELSE p[2]]
           Eq(c) == c = [n \in 0 .. PMM_ENTRIES |->
                           IF n = 0 THEN none ELSE Turn(n - 1, c[n - 1])]
<1>1. PMM_ENTRIES \in Nat /\ Slots = 0 .. PMM_ENTRIES - 1 BY SizeAssumption DEF Slots
<1>2. none \in X OBVIOUS
<1>3. \A i \in Slots : \A stat \in X : Turn(i, stat) \in X
  <2> SUFFICES ASSUME NEW i \in Slots, NEW stat \in X PROVE Turn(i, stat) \in X
    OBVIOUS
  <2>1. entry[i].max_pages \in Int /\ entry[i].free_pages \in Int
    BY Constants DEF TypeOK, PmmCtrlPtr
  <2> QED BY <2>1 DEF Turn
<1>4. step \in [Nat \X X -> X]
  <2> HIDE DEF X
  <2> QED BY <1>3
<1>5. \E c : Eq(c)
  <2> HIDE DEF X, none, step
  <2>1. PICK g \in [0 .. PMM_ENTRIES -> X] : Follows(g, PMM_ENTRIES, none, step)
    BY <1>1, <1>2, <1>4, Recursion
  <2>2. \A n \in 0 .. PMM_ENTRIES : g[n] = IF n = 0 THEN none ELSE Turn(n - 1, g[n - 1])
    <3> SUFFICES ASSUME NEW n \in 0 .. PMM_ENTRIES, n # 0 PROVE g[n] = Turn(n - 1, g[n - 1])
      BY <2>1 DEF Follows
    <3>1. n - 1 \in 0 .. PMM_ENTRIES - 1 /\ n - 1 \in Nat /\ n - 1 \in Slots
          /\ (n - 1) + 1 = n /\ n - 1 \in 0 .. PMM_ENTRIES
      BY <1>1
    <3>2. g[n] = step[<<n - 1, g[n - 1]>>]
      <4>1. g[(n - 1) + 1] = step[<<n - 1, g[n - 1]>>] BY <2>1, <3>1 DEF Follows
      <4> QED BY <3>1, <4>1
    <3>3. g[n - 1] \in X BY <2>1, <3>1
    <3>4. <<n - 1, g[n - 1]>> \in Nat \X X BY <3>1, <3>3
    <3>5. step[<<n - 1, g[n - 1]>>] = Turn(n - 1, g[n - 1]) BY <3>1, <3>4 DEF step
    <3> QED BY <3>2, <3>5
  <2>3. Eq(g) BY <2>1, <2>2
  <2> QED BY <2>3
<1>6. Counted = CHOOSE c : Eq(c) BY DEF Counted, Turn
<1>7. Eq(Counted)
  <2> HIDE DEF Eq
  <2> QED BY <1>5, <1>6
<1>8. 0 \in 0 .. PMM_ENTRIES BY <1>1
<1>9. Counted[0] = none BY <1>7, <1>8
<1>10. ASSUME NEW n \in 0 .. PMM_ENTRIES - 1 PROVE Counted[n + 1] = Turn(n, Counted[n])
  <2>1. n + 1 \in 0 .. PMM_ENTRIES /\ n + 1 # 0 /\ (n + 1) - 1 = n BY <1>1
  <2> HIDE DEF none
  <2> QED BY <1>7, <2>1
<1> QED BY <1>9, <1>10

(* The pages of a block that are free, and those of each kind below a slot. *)
FreePages(e) == {Physical(e, c) : c \in e.ctrl}
Below(n) == {i \in Active : i < n}
To(Q, n) == UNION {Q[i] : i \in Below(n)}

(* Bits and the pages they stand for are as many. *)
LEMMA BitsCount ==
  ASSUME IInv, NEW i \in Active, NEW C \in SUBSET PageBits(entry[i].max_pages)
  PROVE  LET T == {Physical(entry[i], c) : c \in C}
         IN  IsFiniteSet(T) /\ Cardinality(T) = Cardinality(C)
<1> DEFINE e == entry[i]
           T == {Physical(e, c) : c \in C}
           f == [c \in C |-> Physical(e, c)]
<1>1. IsFiniteSet(C) BY BlockFacts, FS_Subset
<1>2. ASSUME NEW c \in C, NEW d \in C, Physical(e, c) = Physical(e, d) PROVE c = d
  <2>1. e \in PmmCtrlPtr /\ e.physical_start >= PAGE_SIZE BY BlockFacts
  <2>2. Physical(e, c) \in Nat BY <2>1, PageInBlock
  <2>3. Physical(e, c) < Physical(e, c) + PAGE_SIZE BY <2>2, Constants
  <2> DEFINE a == Physical(e, c)
  <2>4. /\ a \in Nat /\ Physical(e, c) <= a /\ a < Physical(e, c) + PAGE_SIZE
        /\ Physical(e, d) <= a /\ a < Physical(e, d) + PAGE_SIZE
    BY <1>2, <2>2, <2>3
  <2> HIDE DEF a
  <2> QED BY <2>4, OnePagePerAddress
<1>3. f \in Bijection(C, T)
  <2>1. f \in [C -> T] OBVIOUS
  <2>2. \A c, d \in C : f[c] = f[d] => c = d BY <1>2
  <2>3. \A t \in T : \E c \in C : f[c] = t OBVIOUS
  <2> HIDE DEF f, T
  <2> QED BY <2>1, <2>2, <2>3 DEF Bijection, Injection, IsInjective, Surjection
<1>4. ExistsBijection(C, T) BY <1>3 DEF ExistsBijection
<1> HIDE DEF T
<1>5. IsFiniteSet(T) /\ Cardinality(T) = Cardinality(C) BY <1>1, <1>4, FS_Bijection
<1> QED BY <1>5 DEF T

LEMMA BlockCounts ==
  ASSUME IInv, NEW i \in Active
  PROVE  /\ IsFiniteSet(Pages(entry[i])) /\ Cardinality(Pages(entry[i])) = entry[i].max_pages
         /\ IsFiniteSet(FreePages(entry[i]))
         /\ Cardinality(FreePages(entry[i])) = entry[i].free_pages
         /\ IsFiniteSet(HeldPages(entry[i]))
         /\ Cardinality(HeldPages(entry[i])) = entry[i].max_pages - entry[i].free_pages
<1> DEFINE B == PageBits(entry[i].max_pages)
           U == entry[i].ctrl
<1>1. /\ IsFiniteSet(B) /\ IsFiniteSet(U) /\ U \subseteq B
      /\ entry[i].max_pages \in 0 .. MAX_BLOCK_SIZE_PAGES
      /\ entry[i].free_pages = Cardinality(U)
  BY BlockFacts
<1>2. Cardinality(B) = entry[i].max_pages BY <1>1, PageBitsCount
<1>3. Cardinality(B \ U) = Cardinality(B) - Cardinality(U)
  <2> HIDE DEF B, U
  <2>1. IsFiniteSet(B \ U) BY <1>1, FS_Subset
  <2>2. (B \ U) \cup U = B /\ (B \ U) \cap U = {} BY <1>1
  <2>3. Cardinality(B) = Cardinality(B \ U) + Cardinality(U) - Cardinality({})
    BY <1>1, <2>1, <2>2, FS_Union
  <2>4. Cardinality(B \ U) \in Nat /\ Cardinality(U) \in Nat
    BY <1>1, <2>1, FS_CardinalityType
  <2> QED BY <2>3, <2>4, FS_EmptySet
<1>4. B \in SUBSET B /\ U \in SUBSET B /\ B \ U \in SUBSET B BY <1>1
<1>5. IsFiniteSet(Pages(entry[i])) /\ Cardinality(Pages(entry[i])) = Cardinality(B)
  BY <1>4, BitsCount DEF Pages
<1>6. IsFiniteSet(FreePages(entry[i])) /\ Cardinality(FreePages(entry[i])) = Cardinality(U)
  BY <1>4, BitsCount DEF FreePages
<1>7. /\ IsFiniteSet(HeldPages(entry[i]))
      /\ Cardinality(HeldPages(entry[i])) = Cardinality(B \ U)
  BY <1>4, BitsCount DEF HeldPages
<1> QED BY <1>1, <1>2, <1>3, <1>5, <1>6, <1>7

(* No page belongs to two blocks, and none is both free and handed out.    *)
LEMMA PagesApart ==
  ASSUME IInv
  PROVE  /\ \A i, j \in Active : i # j => Pages(entry[i]) \cap Pages(entry[j]) = {}
         /\ \A i \in Active : /\ HeldPages(entry[i]) = Pages(entry[i]) \ FreePages(entry[i])
                              /\ FreePages(entry[i]) \subseteq Pages(entry[i])
<1>1. ASSUME NEW i \in Active, NEW c \in PageBits(entry[i].max_pages),
             NEW j \in Active, NEW d \in PageBits(entry[j].max_pages),
             Physical(entry[i], c) = Physical(entry[j], d)
      PROVE  i = j /\ c = d
  <2>1. entry[i] \in PmmCtrlPtr /\ entry[i].physical_start >= PAGE_SIZE BY BlockFacts
  <2>2. PICK a \in Nat : a = Physical(entry[i], c) BY <2>1, PageInBlock
  <2>3. /\ Physical(entry[i], c) <= a /\ a < Physical(entry[i], c) + PAGE_SIZE
        /\ Physical(entry[j], d) <= a /\ a < Physical(entry[j], d) + PAGE_SIZE
    BY <1>1, <2>2, Constants
  <2> QED BY <2>3, OnePagePerAddress
<1>2. \A i \in Active : entry[i].ctrl \subseteq PageBits(entry[i].max_pages)
  BY BlockFacts
<1>3. ASSUME NEW i \in Active, NEW j \in Active, i # j
      PROVE  Pages(entry[i]) \cap Pages(entry[j]) = {}
  BY <1>1, <1>3 DEF Pages
<1>4. ASSUME NEW i \in Active
      PROVE  HeldPages(entry[i]) = Pages(entry[i]) \ FreePages(entry[i])
  BY <1>1, <1>2 DEF Pages, HeldPages, FreePages
<1>5. \A i \in Active : FreePages(entry[i]) \subseteq Pages(entry[i])
  BY <1>2 DEF Pages, FreePages
<1> QED BY <1>3, <1>4, <1>5

(* What the next slot adds to pages of some kind. *)
LEMMA NextBlock ==
  ASSUME IInv, NEW n \in Nat, NEW Q, \A i \in Active : Q[i] \subseteq Pages(entry[i]),
         IsFiniteSet(To(Q, n))
  PROVE  /\ n \notin Active => To(Q, n + 1) = To(Q, n)
         /\ n \in Active =>
              /\ IsFiniteSet(To(Q, n + 1))
              /\ Cardinality(To(Q, n + 1)) = Cardinality(To(Q, n)) + Cardinality(Q[n])
<1>1. \A i \in Active : i \in Nat BY SlotsAreNat DEF Active
<1>2. \A i \in Active : i < n + 1 <=> i < n \/ i = n BY <1>1
<1>3. n \notin Active => Below(n + 1) = Below(n) BY <1>2 DEF Below
<1>4. n \in Active => Below(n + 1) = Below(n) \cup {n} BY <1>2 DEF Below
<1>5. CASE n \notin Active BY <1>3, <1>5 DEF To
<1>6. CASE n \in Active
  <2>1. To(Q, n + 1) = To(Q, n) \cup Q[n] BY <1>4, <1>6 DEF To
  <2>2. To(Q, n) \cap Q[n] = {}
    <3>1. \A i \in Below(n) : i \in Active /\ i # n BY <1>1 DEF Below
    <3>2. \A i \in Below(n) : Pages(entry[i]) \cap Pages(entry[n]) = {}
      BY <1>6, <3>1, PagesApart
    <3>3. \A i \in Below(n) : Q[i] \cap Q[n] = {} BY <1>6, <3>1, <3>2
    <3> QED BY <3>3 DEF To
  <2>3. IsFiniteSet(Q[n])
    <3>1. IsFiniteSet(Pages(entry[n])) BY <1>6, BlockCounts
    <3> QED BY <1>6, <3>1, FS_Subset
  <2>4. /\ IsFiniteSet(To(Q, n) \cup Q[n])
        /\ Cardinality(To(Q, n) \cup Q[n]) =
             Cardinality(To(Q, n)) + Cardinality(Q[n]) - Cardinality(To(Q, n) \cap Q[n])
    BY <2>3, FS_Union
  <2>5. Cardinality(To(Q, n)) \in Nat /\ Cardinality(Q[n]) \in Nat
    BY <2>3, FS_CardinalityType
  <2>6. Cardinality(To(Q, n) \cap Q[n]) = 0 BY <2>2, FS_EmptySet
  <2>7. Cardinality(To(Q, n) \cup Q[n]) = Cardinality(To(Q, n)) + Cardinality(Q[n])
    BY <2>4, <2>5, <2>6
  <2> QED BY <1>6, <2>1, <2>4, <2>7
<1> QED BY <1>5, <1>6

(* After n turns the statistics are those of the blocks below n. *)
LEMMA CountedSoFar ==
  ASSUME IInv
  PROVE  LET P == [i \in Active |-> Pages(entry[i])]
             H == [i \in Active |-> HeldPages(entry[i])]
             F == [i \in Active |-> FreePages(entry[i])]
             stat == Counted[PMM_ENTRIES]
         IN  /\ stat.used = Cardinality(To(H, PMM_ENTRIES))
             /\ stat.free = Cardinality(To(F, PMM_ENTRIES))
             /\ stat.total = stat.overhead + Cardinality(To(P, PMM_ENTRIES))
<1> DEFINE P == [i \in Active |-> Pages(entry[i])]
           H == [i \in Active |-> HeldPages(entry[i])]
           F == [i \in Active |-> FreePages(entry[i])]
           Is(n) == /\ IsFiniteSet(To(P, n)) /\ IsFiniteSet(To(H, n)) /\ IsFiniteSet(To(F, n))
                    /\ Counted[n].overhead \in Nat
                    /\ Counted[n].used = Cardinality(To(H, n))
                    /\ Counted[n].free = Cardinality(To(F, n))
                    /\ Counted[n].total = Counted[n].overhead + Cardinality(To(P, n))
           S == {n \in Nat : n <= PMM_ENTRIES => Is(n)}
<1>1. TypeOK BY DEF IInv
<1>2. PMM_ENTRIES \in Nat /\ Slots = 0 .. PMM_ENTRIES - 1 BY SizeAssumption DEF Slots
<1>3. \A i \in Active : /\ P[i] \subseteq Pages(entry[i]) /\ P[i] = Pages(entry[i])
                        /\ H[i] \subseteq Pages(entry[i]) /\ H[i] = HeldPages(entry[i])
                        /\ F[i] \subseteq Pages(entry[i]) /\ F[i] = FreePages(entry[i])
  BY PagesApart
<1> HIDE DEF P, H, F
<1>4. 0 \in S
  <2>1. Below(0) = {}
    <3>1. \A i \in Active : ~(i < 0) BY SlotsAreNat DEF Active
    <3> QED BY <3>1 DEF Below
  <2>2. To(P, 0) = {} /\ To(H, 0) = {} /\ To(F, 0) = {} BY <2>1 DEF To
  <2>3. Counted[0] = [total |-> 1, overhead |-> 1, used |-> 0, free |-> 0]
    BY <1>1, CountedIs
  <2>4. /\ Counted[0].total = 1 /\ Counted[0].overhead = 1
        /\ Counted[0].used = 0 /\ Counted[0].free = 0
    BY <2>3
  <2>5. Is(0) BY <2>2, <2>4, FS_EmptySet
  <2> QED BY <2>5
<1>5. ASSUME NEW n \in S \cap Nat PROVE n + 1 \in S
  <2> SUFFICES ASSUME n + 1 <= PMM_ENTRIES PROVE Is(n + 1) OBVIOUS
  <2>1. n \in 0 .. PMM_ENTRIES - 1 /\ n \in Slots BY <1>2
  <2>2. Is(n) BY <1>2, <2>1
  <2>3. Counted[n + 1] = Turn(n, Counted[n]) BY <1>1, <2>1, CountedIs
  <2>4. CASE n \notin Active
    <3>1. ~entry[n].active BY <2>1, <2>4 DEF Active
    <3>2. Counted[n + 1] = Counted[n] BY <2>3, <3>1 DEF Turn
    <3>3. To(P, n + 1) = To(P, n) /\ To(H, n + 1) = To(H, n) /\ To(F, n + 1) = To(F, n)
      BY <1>3, <2>2, <2>4, NextBlock
    <3> QED BY <2>2, <3>2, <3>3
  <2>5. CASE n \in Active
    <3>1. entry[n].active BY <2>5 DEF Active
    <3>2. /\ Counted[n + 1].total = Counted[n].total + 1 + entry[n].max_pages
          /\ Counted[n + 1].overhead = Counted[n].overhead + 1
          /\ Counted[n + 1].used =
               Counted[n].used + (entry[n].max_pages - entry[n].free_pages)
          /\ Counted[n + 1].free = Counted[n].free + entry[n].free_pages
      BY <2>3, <3>1 DEF Turn
    <3>3. /\ IsFiniteSet(To(P, n + 1))
          /\ Cardinality(To(P, n + 1)) = Cardinality(To(P, n)) + entry[n].max_pages
      BY <1>3, <2>2, <2>5, NextBlock, BlockCounts
    <3>4. /\ IsFiniteSet(To(H, n + 1))
          /\ Cardinality(To(H, n + 1)) =
               Cardinality(To(H, n)) + (entry[n].max_pages - entry[n].free_pages)
      BY <1>3, <2>2, <2>5, NextBlock, BlockCounts
    <3>5. /\ IsFiniteSet(To(F, n + 1))
          /\ Cardinality(To(F, n + 1)) = Cardinality(To(F, n)) + entry[n].free_pages
      BY <1>3, <2>2, <2>5, NextBlock, BlockCounts
    <3>6. entry[n].max_pages \in Nat /\ Cardinality(To(P, n)) \in Nat
      BY <2>2, <2>5, BlockFacts, FS_CardinalityType
    <3> QED BY <2>2, <3>2, <3>3, <3>4, <3>5, <3>6
  <2> QED BY <2>4, <2>5
<1>6. PMM_ENTRIES \in S
  <2> HIDE DEF S
  <2> QED BY <1>2, <1>4, <1>5, Induction
<1>7. Is(PMM_ENTRIES) BY <1>2, <1>6
<1> QED BY <1>7 DEF P, H, F

LEMMA IInvCounts == IInv => CountPagesExact
<1> SUFFICES ASSUME IInv PROVE CountPagesExact OBVIOUS
<1> DEFINE P == [i \in Active |-> Pages(entry[i])]
           H == [i \in Active |-> HeldPages(entry[i])]
           F == [i \in Active |-> FreePages(entry[i])]
<1>1. PMM_ENTRIES \in Nat /\ Slots = 0 .. PMM_ENTRIES - 1 BY SizeAssumption DEF Slots
<1>2. Below(PMM_ENTRIES) = Active BY <1>1 DEF Below, Active
<1>3. To(P, PMM_ENTRIES) = Pool BY <1>2 DEF To, Pool
<1>4. To(H, PMM_ENTRIES) = Held BY <1>2 DEF To, Held
<1>5. To(F, PMM_ENTRIES) = Pool \ Held
  <2>1. \A q : q \in To(F, PMM_ENTRIES) <=> \E i \in Active : q \in FreePages(entry[i])
    BY <1>2 DEF To
  <2>2. \A q : q \in Pool <=> \E i \in Active : q \in Pages(entry[i]) BY InPool
  <2>3. \A q : q \in Held <=> \E i \in Active : q \in HeldPages(entry[i]) BY InPool
  <2>4. ASSUME NEW i \in Active, NEW j \in Active, NEW q,
               q \in Pages(entry[i]), q \in Pages(entry[j])
        PROVE  i = j
    BY <2>4, PagesApart
  <2>5. \A i \in Active : /\ HeldPages(entry[i]) = Pages(entry[i]) \ FreePages(entry[i])
                          /\ FreePages(entry[i]) \subseteq Pages(entry[i])
    BY PagesApart
  <2>6. ASSUME NEW q PROVE q \in To(F, PMM_ENTRIES) <=> q \in Pool \ Held
    <3>1. ASSUME NEW i \in Active, q \in FreePages(entry[i]) PROVE q \in Pool \ Held
      <4>1. q \in Pages(entry[i]) BY <2>5, <3>1
      <4>2. \A j \in Active : q \in HeldPages(entry[j]) => j = i BY <2>4, <2>5, <4>1
      <4>3. q \notin HeldPages(entry[i]) BY <2>5, <3>1
      <4> QED BY <2>2, <2>3, <4>1, <4>2, <4>3
    <3>2. ASSUME q \in Pool \ Held PROVE \E i \in Active : q \in FreePages(entry[i])
      <4>1. PICK i \in Active : q \in Pages(entry[i]) BY <2>2, <3>2
      <4>2. q \notin HeldPages(entry[i]) BY <2>3, <3>2
      <4> QED BY <2>5, <4>1, <4>2
    <3> QED BY <2>1, <3>1, <3>2
  <2> QED BY <2>6
<1> HIDE DEF P, H, F
<1>6. /\ CountPages.used = Cardinality(To(H, PMM_ENTRIES))
      /\ CountPages.free = Cardinality(To(F, PMM_ENTRIES))
      /\ CountPages.total = CountPages.overhead + Cardinality(To(P, PMM_ENTRIES))
  BY CountedSoFar DEF CountPages, P, H, F
<1> QED BY <1>3, <1>4, <1>5, <1>6 DEF CountPagesExact

(* The statistics of pmm_count_pages are exact: they count the pages that  *)
(* are handed out and those that are left, and nothing twice.              *)
THEOREM CountsAreExact == Spec => []CountPagesExact
BY Invariance, IInvCounts, PTL
==============================================================================
