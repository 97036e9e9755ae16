--------------------------------- MODULE Pmm ---------------------------------
(***************************************************************************)
(* The physical memory manager, src/memory/pmm.c: a fixed table of control *)
(* pointers, each describing one contiguous block of memory whose first    *)
(* page is a control block, a two-level bit set of the free pages after it *)
(* (PMM_CTRL_ENTRIES words of WORD_BITS bits).  Addresses and sizes are in *)
(* bytes, as in the code.  The kernel is single-threaded with interrupts   *)
(* off, so each function is one step.                                      *)
(***************************************************************************)
EXTENDS Naturals, FiniteSets, FiniteSetsExt

CONSTANTS
  PAGE_SIZE,              \* page.h (4096)
  WORD_BITS,              \* bits of a control word (64)
  PMM_CTRL_ENTRIES,       \* words of a control block (512)
  PMM_ENTRIES,            \* control pointers (168)
  MIN_BLOCK_SIZE_PAGES,   \* smallest block worth adding (64)
  MemoryMap,              \* usable regions reported by the bootloader
  Address                 \* the addresses callers pass to pmm_free_page

MAX_BLOCK_SIZE_PAGES == PMM_CTRL_ENTRIES * WORD_BITS
MAX_BLOCK_SIZE_BYTES == MAX_BLOCK_SIZE_PAGES * PAGE_SIZE
MIN_BLOCK_SIZE_BYTES == MIN_BLOCK_SIZE_PAGES * PAGE_SIZE

RegionEnd(r) == r.base + r.length

ASSUME SizeAssumption ==
  /\ PAGE_SIZE \in Nat \ {0}
  /\ WORD_BITS \in Nat \ {0}
  /\ PMM_CTRL_ENTRIES \in Nat \ {0}
  /\ PMM_ENTRIES \in Nat
  /\ MIN_BLOCK_SIZE_PAGES \in 1 .. MAX_BLOCK_SIZE_PAGES

(* pmm_ctrl_ptr counts pages in a uint16_t. *)
ASSUME CountFits == MAX_BLOCK_SIZE_PAGES <= 65536

(* The boot protocol: usable regions are page aligned and do not overlap.  *)
(* So require_page_aligned(start) in pmm_add never fires.                  *)
ASSUME MapAssumption ==
  /\ MemoryMap \subseteq [base : Nat, length : Nat]
  /\ \A r \in MemoryMap : r.base % PAGE_SIZE = 0
  /\ \A r, s \in MemoryMap :
       r = s \/ RegionEnd(r) <= s.base \/ RegionEnd(s) <= r.base

ASSUME AddressAssumption == Address \subseteq Nat

VARIABLES
  entry,     \* pmm->entry: the control pointers, with the blocks they own
  todo,      \* regions of the memory map not passed to pmm_add yet
  ret,       \* what the last pmm_allocate_page returned
  halted     \* panic() was called: the kernel loops in _hcf

vars == <<entry, todo, ret, halted>>

Slots == 0 .. PMM_ENTRIES - 1
Words == 0 .. PMM_CTRL_ENTRIES - 1
Bits  == Words \X (0 .. WORD_BITS - 1)     \* <<word, bit in the word>>

(* struct pmm_ctrl_ptr, ctrl being the set of the bits that are one. *)
PmmCtrlPtr ==
  [active : BOOLEAN, physical_start : Nat,
   max_pages : 0 .. MAX_BLOCK_SIZE_PAGES, free_pages : 0 .. MAX_BLOCK_SIZE_PAGES,
   ctrl : SUBSET Bits]

(* memset to zero by pmm_new. *)
Unused ==
  [active |-> FALSE, physical_start |-> 0,
   max_pages |-> 0, free_pages |-> 0, ctrl |-> {}]

Active == {i \in Slots : entry[i].active}

(* Page number of a bit in its block, and back. *)
PageIndex(c) == WORD_BITS * c[1] + c[2]
BitFromOne(n) == <<n \div WORD_BITS, (n % WORD_BITS) + 1>>     \* mutant of BitAt
BitAt(n) == <<n \div WORD_BITS, n % WORD_BITS>>

(* Physical address of the page a bit of control pointer e stands for. *)
Physical(e, c) == e.physical_start + PAGE_SIZE * PageIndex(c)

(* The bits of the first `pages` pages of a block. *)
PageBits(pages) == {c \in Bits : PageIndex(c) < pages}

------------------------------------------------------------------------------
(* Adding memory *)

CtrlInitialiseWords(pages) ==                \* mutant: extra bits not masked
  {c \in Bits : WORD_BITS * c[1] < pages}

(* Whole words are set first, then the low bits of one more word. *)
CtrlInitialise(pages) ==
  LET full_entries == pages \div WORD_BITS
      extra_bits   == pages % WORD_BITS
  IN  {c \in Bits : \/ c[1] < full_entries
                    \/ c[1] = full_entries /\ c[2] < extra_bits}

(* The first page becomes the control block. *)
SetupEntry(start, size) ==
  LET pages == (size - PAGE_SIZE) \div PAGE_SIZE
  IN  [active |-> TRUE, physical_start |-> start + PAGE_SIZE,
       max_pages |-> pages, free_pages |-> pages,
       ctrl |-> CtrlInitialise(pages)]

(* pmm_add cuts a region into blocks of the maximal size, one for each of  *)
(* its tail calls; the n-th call (from 0) sees this start and size.        *)
RoundUp(size) ==                                     \* mutant of RoundDown
  ((size + PAGE_SIZE - 1) \div PAGE_SIZE) * PAGE_SIZE
RoundDown(size) == (size \div PAGE_SIZE) * PAGE_SIZE
ChunkStartStuck(r, n) == r.base           \* mutant: start passed on unchanged
ChunkStart(r, n) == r.base + n * MAX_BLOCK_SIZE_BYTES
Remaining(r, n) == RoundDown(r.length) - n * MAX_BLOCK_SIZE_BYTES
ChunkSize(r, n) ==
  IF Remaining(r, n) > MAX_BLOCK_SIZE_BYTES
  THEN MAX_BLOCK_SIZE_BYTES ELSE Remaining(r, n)

(* The call is made, and does not drop a tail that is too small. *)
IsChunk(r, n) ==
  /\ n * MAX_BLOCK_SIZE_BYTES < RoundDown(r.length)
  /\ ChunkSize(r, n) >= MIN_BLOCK_SIZE_BYTES

(* The n-th call finds the n-th inactive entry; without one the rest of    *)
(* the region is dropped.                                                  *)
InactiveBefore(i) == Cardinality({j \in 0 .. i - 1 : ~entry[j].active})

PmmAdd(r) ==
  /\ ~halted
  /\ r \in todo
  /\ todo' = todo \ {r}
  /\ entry' = [i \in Slots |->
       LET n == InactiveBefore(i)
       IN  IF ~entry[i].active /\ IsChunk(r, n)
           THEN SetupEntry(ChunkStart(r, n), ChunkSize(r, n))
           ELSE entry[i]]
  /\ UNCHANGED <<ret, halted>>

(* pmm_new clears the control page; print_meminfo then adds every usable   *)
(* region, the boot sequence `todo` stands for.                            *)
PmmNew ==
  /\ ~halted
  /\ entry' = [i \in Slots |-> Unused]
  /\ todo' = MemoryMap
  /\ UNCHANGED <<ret, halted>>

------------------------------------------------------------------------------
(* Allocating and freeing *)

LowestBitFromOne(ctrl) ==                     \* mutant: find first set, not ctz
  LET word == Min({c[1] : c \in ctrl})
  IN  <<word, 1 + Min({c[2] : c \in {d \in ctrl : d[1] = word}})>>

(* The bit of the lowest word that is not zero, and in it the lowest bit   *)
(* set (count trailing zeros).                                             *)
LowestBit(ctrl) ==
  LET word == Min({c[1] : c \in ctrl})
  IN  <<word, Min({c[2] : c \in {d \in ctrl : d[1] = word}})>>

WithSpace == {i \in Active : entry[i].free_pages > 0}

(* pmm_ctrl_alloc panics when the block has no bit set after all. *)
AllocateFrom(i) ==
  LET p == entry[i]
      c == LowestBit(p.ctrl)
  IN  /\ halted' = (p.ctrl = {})
      /\ IF p.ctrl = {}
         THEN UNCHANGED <<entry, ret>>
         ELSE /\ entry' = [entry EXCEPT ![i].ctrl = @ \ {c},
                                        ![i].free_pages = @ - 1]
              /\ ret' = Physical(p, c)

PmmAllocatePage ==
  /\ ~halted
  /\ UNCHANGED todo
  /\ \/ /\ WithSpace # {}
        /\ AllocateFrom(Min(WithSpace))
     \/ /\ WithSpace = {}
        /\ ret' = 0
        /\ UNCHANGED <<entry, halted>>

CoveringClosed(a) ==                             \* mutant of Covering: a <= end
  {i \in Active : /\ a >= entry[i].physical_start
                  /\ a <= entry[i].physical_start + PAGE_SIZE * entry[i].max_pages}

(* The control pointers whose pages cover an address. *)
Covering(a) ==
  {i \in Active : /\ a >= entry[i].physical_start
                  /\ a < entry[i].physical_start + PAGE_SIZE * entry[i].max_pages}

PmmFreePage(a) ==
  /\ ~halted
  /\ a # 0
  /\ UNCHANGED <<todo, ret>>
  /\ \/ /\ Covering(a) = {}           \* "Bad free"
        /\ halted' = TRUE
        /\ UNCHANGED entry
     \/ /\ Covering(a) # {}
        /\ LET i == Min(Covering(a))
               c == BitAt((a - entry[i].physical_start) \div PAGE_SIZE)
           IN  IF c \in entry[i].ctrl  \* "Double free"
               THEN halted' = TRUE /\ UNCHANGED entry
               ELSE /\ entry' = [entry EXCEPT ![i].ctrl = @ \cup {c},
                                              ![i].free_pages = @ + 1]
                    /\ UNCHANGED halted

(* panic never returns: for (;;) _hcf () *)
Halt == halted /\ UNCHANGED vars

Init ==
  /\ entry = [i \in Slots |-> Unused]
  /\ todo = MemoryMap
  /\ ret = 0
  /\ halted = FALSE

Next ==
  \/ PmmNew
  \/ \E r \in todo : PmmAdd(r)
  \/ PmmAllocatePage
  \/ \E a \in Address : PmmFreePage(a)
  \/ Halt

Spec == Init /\ [][Next]_vars

------------------------------------------------------------------------------
(* pmm_count_pages: its statistics after n turns of the loop. *)
Counted[n \in 0 .. PMM_ENTRIES] ==
  IF n = 0
  THEN [total |-> 1, overhead |-> 1, used |-> 0, free |-> 0]
  ELSE LET stat == Counted[n - 1]
           p == entry[n - 1]
       IN  IF ~p.active THEN stat
           ELSE [total    |-> stat.total + 1 + p.max_pages,
                 overhead |-> stat.overhead + 1,
                 used     |-> stat.used + (p.max_pages - p.free_pages),
                 free     |-> stat.free + p.free_pages]

CountPages == Counted[PMM_ENTRIES]

------------------------------------------------------------------------------
(* Properties *)

(* Types of the state. *)
TypeOK ==
  /\ entry \in [Slots -> PmmCtrlPtr]
  /\ todo \subseteq MemoryMap
  /\ ret \in Nat
  /\ halted \in BOOLEAN

(* The cached free_pages of every block is the number of bits set in its   *)
(* control block, and no bit stands for a page the block does not have: so *)
(* pmm_allocate_page never reaches the "should have space" panic of        *)
(* pmm_ctrl_alloc, and never misses a free page.                           *)
FreeCountMatchesBits ==
  \A i \in Active :
    /\ entry[i].free_pages = Cardinality(entry[i].ctrl)
    /\ entry[i].ctrl \subseteq PageBits(entry[i].max_pages)

(* First byte (of the control block) and end of what control pointer e     *)
(* covers.                                                                 *)
BlockStart(e) == e.physical_start - PAGE_SIZE
BlockEnd(e) == e.physical_start + PAGE_SIZE * e.max_pages

(* However regions are split over the table, no two blocks overlap: no     *)
(* page has two bits, and no control block is handed out as a page.        *)
BlocksDisjoint ==
  \A i, j \in Active :
    \/ i = j
    \/ BlockEnd(entry[i]) <= BlockStart(entry[j])
    \/ BlockEnd(entry[j]) <= BlockStart(entry[i])

(* Everything the allocator manages, control blocks included, is memory of *)
(* one usable region that was passed to pmm_add.                           *)
BlocksAreUsable ==
  \A i \in Active : \E r \in MemoryMap \ todo :
    /\ entry[i].physical_start >= PAGE_SIZE
    /\ r.base <= BlockStart(entry[i])
    /\ BlockEnd(entry[i]) <= RegionEnd(r)

(* Pages of a block, and those of them handed out; then of all blocks.     *)
Pages(e) == {Physical(e, c) : c \in PageBits(e.max_pages)}
HeldPages(e) == {Physical(e, c) : c \in PageBits(e.max_pages) \ e.ctrl}
Pool == UNION {Pages(entry[i]) : i \in Active}
Held == UNION {HeldPages(entry[i]) : i \in Active}

(* The statistics printed at boot and after the tests are exact: they      *)
(* count the pages handed out and those left, and nothing twice.           *)
CountPagesExact ==
  /\ CountPages.used = Cardinality(Held)
  /\ CountPages.free = Cardinality(Pool \ Held)
  /\ CountPages.total = CountPages.overhead + Cardinality(Pool)

(* The allocator keeps the promise of pmm.h: see PageAllocator. *)
Promise == INSTANCE PageAllocator WITH pool <- Pool, held <- Held
ImplementsPageAllocator == Promise!Spec
==============================================================================
