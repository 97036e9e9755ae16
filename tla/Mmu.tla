--------------------------------- MODULE Mmu ---------------------------------
(***************************************************************************)
(* The MMU driver, src/drivers/mmu.c: page tables in physical memory, and  *)
(* one recursive walk over them, apply_nodes, with a callback for each     *)
(* entry it meets.  mmu_assign walks twice (make the tables, write the     *)
(* leaves), and so does mmu_remove (clear the leaves, collect the tables). *)
(* Virtual and physical addresses are counted in pages.  The walk is a     *)
(* function of the memory it runs on: nothing else runs during a call.     *)
(***************************************************************************)
EXTENDS Integers, FiniteSetsExt

CONSTANTS
  ENTRIES,         \* MMU_REG_PAGE_MAP_ENTRY_COUNT (512)
  LEVELS,          \* depths of page tables (4)
  VIRTUAL,         \* pages of a uintptr_t (2^52)
  Memory,          \* physical pages there are
  Pool,            \* those the physical allocator manages
  BootMemory,      \* contents of the RAM when the driver starts
  Root,            \* page of the top-level table, in CR3
  Page,            \* physical pages the callers map
  Address, Size,   \* virtual ranges the callers pass, in pages
  Flags,           \* sets of mmu_flags the callers pass
  LastSlot,        \* callers use the last entry of the top-level table
  RemoveUnmapped   \* callers remove ranges that are not mapped

DEPTH_BOTTOM == LEVELS - 1
DEPTH_MEMORY == LEVELS
DEPTH_INVALID == LEVELS + 1

Index == 0 .. ENTRIES - 1

(* Pages under a table with n levels, itself included, and under an entry  *)
(* at a depth; depth_shift_size holds the logarithms.                      *)
Power[n \in 0 .. LEVELS] == IF n = 0 THEN 1 ELSE ENTRIES * Power[n - 1]
Span(depth) == Power[DEPTH_BOTTOM - depth]

(* The canonical addresses, half of them at each end of a uintptr_t.       *)
HALF == Span(0) * (ENTRIES \div 2)
HIGHER_HALF_MIN == VIRTUAL - HALF
Canonical(v) == v < HALF \/ v >= HIGHER_HALF_MIN
SameHalf(v, w) == (v >= HIGHER_HALF_MIN) = (w >= HIGHER_HALF_MIN)

PageTableBits == {"P", "RW", "US", "PWT", "PS", "XD"}
Entry == [page : Nat, bits : SUBSET PageTableBits]
Zero == [page |-> 0, bits |-> {}]
ZeroTable == [i \in Index |-> Zero]

ASSUME LayoutAssumption ==
  /\ ENTRIES \in Nat \ {0} /\ ENTRIES % 2 = 0
  /\ LEVELS \in Nat /\ LEVELS >= 2
  /\ VIRTUAL \in Nat /\ VIRTUAL % Power[LEVELS] = 0 /\ VIRTUAL > Power[LEVELS]
  /\ Memory \subseteq 0 .. VIRTUAL - 1
  /\ Pool \subseteq Memory \ {0} /\ Root \in Memory \ (Pool \cup {0})
  /\ BootMemory \in [Memory -> [Index -> Entry]]
  /\ Address \subseteq 0 .. VIRTUAL - 1 /\ Size \subseteq Nat

VARIABLES
  mem,       \* the RAM: a page is a page table, or holds something else
  held,      \* pages allocated from the pool: tables
  halted     \* panic() was called, or the processor faulted

vars == <<mem, held, halted>>
State == [mem |-> mem, held |-> held, halted |-> halted]
WalkState == [mem : [Memory -> [Index -> Entry]], held : SUBSET Pool, halted : BOOLEAN]

------------------------------------------------------------------------------
(* Helpers.  s is the state the walk has reached, a record like State.     *)

Present(entry) == "P" \in entry.bits

ConvertFlags(flags) ==
  {"P"} \cup (IF "USER" \in flags THEN {"US"} ELSE {})
        \cup (IF "CACHE_WRITE_THROUGH" \in flags THEN {"PWT"} ELSE {})
        \cup (IF "WRITE" \in flags THEN {"RW"} ELSE {})
        \cup (IF "EXEC" \in flags THEN {} ELSE {"XD"})
PM_PERMS == {"US", "RW", "P"}

Halted(s) == [s EXCEPT !.halted = TRUE]
FreeAnyMemory(s) == Memory \ (s.held \cup {0})   \* mutant of Free: all RAM is free
Free(s) == Pool \ s.held

(* The physical allocator: its lowest free page; freeing what it has not   *)
(* handed out is a panic.                                                  *)
AllocatePage(s) ==
  [s EXCEPT !.mem[Min(Free(s))] = ZeroTable, !.held = @ \cup {Min(Free(s))}]
FreePage(s, page) ==
  IF page \in s.held THEN [s EXCEPT !.held = @ \ {page}] ELSE Halted(s)

(* Place of an entry: the index may run past the table, into what follows  *)
(* it in memory.                                                           *)
Slot(page, i) == <<page + i \div ENTRIES, i % ENTRIES>>
Read(s, slot) == s.mem[slot[1]][slot[2]]
Write(s, slot, entry) == [s EXCEPT !.mem[slot[1]][slot[2]] = entry]

(* n turns of a loop, from the state s. *)
Loop(turn, s, n) ==
  LET after[k \in 0 .. n] ==
        IF k = 0 THEN s ELSE turn[<<k - 1, after[k - 1]>>]
  IN  after[n]

(* Arithmetic on a uintptr_t. *)
Wrap(x) == x % VIRTUAL
RoundDown(x, mult) == x - (x % mult)
RoundUp(x, mult) == RoundDown(Wrap(x + mult - 1), mult)

------------------------------------------------------------------------------
(* The walk.  loc is a struct node_command_loc: a table with its depth and *)
(* the addresses [start, end) to visit.  below is the walk of the tables   *)
(* one level down, and leaf what to write for each address.                *)
Location == [page : Nat, depth : 0 .. DEPTH_BOTTOM,
             start : 0 .. VIRTUAL - 1, end : 0 .. VIRTUAL - 1]

Base(loc) == RoundDown(loc.start, ENTRIES * Span(loc.depth))
StartIndex(loc) == (RoundDown(loc.start, Span(loc.depth)) - Base(loc))
                     \div Span(loc.depth)
EndIndex(loc) == Wrap(RoundUp(loc.end, Span(loc.depth)) - Base(loc))
                     \div Span(loc.depth)

(* The part of [start, end) under entry i; blk_end is 0 when it is the end *)
(* of the uintptr_t.                                                       *)
ChildUnclipped(loc, i, entry) ==                 \* mutant: end left as it was
  [page |-> entry.page, depth |-> loc.depth + 1,
   start |-> Max({loc.start, Wrap(Base(loc) + i * Span(loc.depth))}),
   end |-> Wrap(Base(loc) + (i + 1) * Span(loc.depth))]
Child(loc, i, entry) ==
  [page |-> entry.page, depth |-> loc.depth + 1,
   start |-> Max({loc.start, Wrap(Base(loc) + i * Span(loc.depth))}),
   end |-> Min({loc.end, Wrap(Base(loc) + (i + 1) * Span(loc.depth))})]

ReserveOldPage(s, loc, slot, below) ==  \* mutant: loc.page.page = next dropped
  LET none == ~Present(Read(s, slot))
      page == Min(Free(s))
      t    == IF none
              THEN Write(AllocatePage(s), slot, [page |-> page, bits |-> PM_PERMS])
              ELSE s
  IN  IF none /\ Free(s) = {} THEN Halted(s)
      ELSE IF loc.depth < DEPTH_BOTTOM THEN below[<<t, loc>>] ELSE t

(* node_callback_reserve *)
Reserve(s, loc, slot, below) ==
  LET none == ~Present(Read(s, slot))
      page == IF none THEN Min(Free(s)) ELSE loc.page
      t    == IF none
              THEN Write(AllocatePage(s), slot, [page |-> page, bits |-> PM_PERMS])
              ELSE s
  IN  IF none /\ Free(s) = {} THEN Halted(s)
      ELSE IF loc.depth < DEPTH_BOTTOM
           THEN below[<<t, [loc EXCEPT !.page = page]>>] ELSE t

Empty(s, page) == \A i \in Index : ~Present(s.mem[page][i])

GcKeepsEntry(s, loc, slot, below) ==   \* mutant: the entry is not cleared
  LET t == IF loc.depth < DEPTH_BOTTOM THEN below[<<s, loc>>] ELSE s
  IN  IF ~Present(Read(s, slot)) THEN s
      ELSE IF t.halted \/ ~Empty(t, loc.page) THEN t
      ELSE FreePage(t, loc.page)

GcOneLevel(s, loc, slot, below) ==     \* mutant: lower tables not collected
  IF ~Present(Read(s, slot)) \/ ~Empty(s, loc.page) THEN s
  ELSE FreePage(Write(s, slot, Zero), loc.page)

(* node_callback_gc *)
Gc(s, loc, slot, below) ==
  LET t == IF loc.depth < DEPTH_BOTTOM THEN below[<<s, loc>>] ELSE s
  IN  IF ~Present(Read(s, slot)) THEN s
      ELSE IF t.halted \/ ~Empty(t, loc.page) THEN t
      ELSE FreePage(Write(t, slot, Zero), loc.page)

(* node_callback_leaf with its callback; it takes an entry for a table     *)
(* whether it is present or not.                                           *)
Leaf(s, loc, slot, below, leaf) ==
  IF loc.depth <= DEPTH_BOTTOM
  THEN below[<<s, loc>>] ELSE Write(s, slot, leaf[loc.start])

Visit(visit, s, loc, slot, below, leaf) ==
  CASE visit = "reserve" -> Reserve(s, loc, slot, below)
    [] visit = "gc"      -> Gc(s, loc, slot, below)
    [] visit = "leaf"    -> Leaf(s, loc, slot, below, leaf)

(* The turn of the loop for entry i.  Nothing is done after a panic; an    *)
(* entry outside the RAM is a fault.                                       *)
Turn(visit, s, loc, i, below, leaf) ==
  LET slot == Slot(loc.page, i)
  IN  IF s.halted THEN s
      ELSE IF slot[1] \notin Memory THEN Halted(s)
      ELSE Visit(visit, s, Child(loc, i, Read(s, slot)), slot, below, leaf)

Turns(visit, s, loc, below, leaf) ==
  LET n == EndIndex(loc) - StartIndex(loc)
      turn == [x \in Nat \X WalkState |->
                 Turn(visit, x[2], loc, StartIndex(loc) + x[1], below, leaf)]
  IN  IF n > 0 THEN Loop(turn, s, n) ELSE s

(* apply_nodes, for a table with that many levels, itself included.        *)
ApplyNodes(visit, leaf) ==
  LET nodes[levels \in 0 .. LEVELS] ==
        [x \in WalkState \X Location |->
           IF levels = 0 THEN x[1]
           ELSE Turns(visit, x[1], x[2], nodes[levels - 1], leaf)]
  IN  nodes

(* apply_nodes_entry; an unaligned argument cannot be expressed here.      *)
ApplyNodesEntry(s, visit, loc, leaf) ==
  IF /\ ~s.halted
     /\ loc.start < loc.end
     /\ Canonical(loc.start) /\ Canonical(loc.end)
     /\ SameHalf(loc.start, loc.end)
  THEN ApplyNodes(visit, leaf)[LEVELS - loc.depth][<<s, loc>>]
  ELSE Halted(s)

------------------------------------------------------------------------------
(* The public functions, with mmu_top_page as the table *)

Request ==
  {r \in [address : Address, size : Size] :
     LastSlot \/ r.address + r.size <= VIRTUAL - Span(0)}

Loc(r) == [page |-> Root, depth |-> 0,
           start |-> r.address, end |-> Wrap(r.address + r.size)]

LinearNoBase(r, flags, page) ==            \* mutant of Linear: v_base left out
  [v \in 0 .. VIRTUAL - 1 |->
     [page |-> Wrap(v + page), bits |-> ConvertFlags(flags)]]

(* leaf_callback_assign_linear and leaf_callback_clear *)
Linear(r, flags, page) ==
  [v \in 0 .. VIRTUAL - 1 |->
     [page |-> Wrap(v - r.address + page), bits |-> ConvertFlags(flags)]]
Clear == [v \in 0 .. VIRTUAL - 1 |-> Zero]

Become(s) ==
  /\ mem' = s.mem
  /\ held' = s.held
  /\ halted' = s.halted

MmuAssign(r, flags, page) ==
  LET reserved == ApplyNodesEntry(State, "reserve", Loc(r), <<>>)
  IN  /\ ~halted
      /\ Become(ApplyNodesEntry(reserved, "leaf", Loc(r), Linear(r, flags, page)))

(* mmu_lookup_step: one table further, to memory or to nothing.            *)
Nothing == [page |-> 0, depth |-> DEPTH_INVALID]
LookupEntry(memory, top, v) == memory[top.page][(v \div Span(top.depth)) % ENTRIES]
MmuLookupStep(memory, top, v) ==
  LET entry == LookupEntry(memory, top, v)
  IN  IF ~Present(entry) THEN Nothing
      ELSE IF "PS" \in entry.bits
      THEN [page |-> entry.page, depth |-> DEPTH_MEMORY]
      ELSE [page |-> entry.page, depth |-> top.depth + 1]

(* What the processor finds at each depth by steps from the top-level      *)
(* table.  An address has at depth d the place that is its first d indices *)
(* read as one number.                                                     *)
Node == [place : Nat, depth : Nat, page : Nat, bits : SUBSET PageTableBits]
RootNode == [place |-> 0, depth |-> 0, page |-> Root, bits |-> {}]

Below(memory, top, i) ==
  LET place == top.place * ENTRIES + i
      v     == place * Span(top.depth)
      next  == MmuLookupStep(memory, top, v)
  IN  [place |-> place, depth |-> next.depth, page |-> next.page,
       bits |-> LookupEntry(memory, top, v).bits]

StepDown(memory, depth, nodes) ==
  LET tables == {x \in nodes : x.depth = depth /\ x.page \in Memory}
  IN  {y \in {Below(memory, x[1], x[2]) : x \in tables \X Index} :
         y.depth # DEPTH_INVALID}

Reached(memory) ==
  LET at[depth \in 0 .. LEVELS] ==
        IF depth = 0 THEN {RootNode} ELSE StepDown(memory, depth - 1, at[depth - 1])
  IN  at

(* The map the page tables stand for: an entry that leads to memory maps   *)
(* as many pages as its place has addresses.                               *)
SignExtend(v) == IF v < HALF THEN v ELSE v + VIRTUAL - 2 * HALF

Translations(depth, node) ==
  {[virtual |-> SignExtend(node.place * Span(depth) + k), page |-> node.page + k,
    bits |-> node.bits] : k \in 0 .. Span(depth) - 1}

Mapped(memory) ==
  LET at == Reached(memory)
  IN  UNION {UNION {Translations(depth, node) :
                      node \in {x \in at[depth + 1] : x.depth = DEPTH_MEMORY}} :
               depth \in 0 .. DEPTH_BOTTOM}

MmuRemove(r) ==
  LET cleared == ApplyNodesEntry(State, "leaf", Loc(r), Clear)
  IN  /\ ~halted
      /\ \/ RemoveUnmapped
         \/ r.address .. r.address + r.size - 1 \subseteq {t.virtual : t \in Mapped(mem)}
      /\ Become(ApplyNodesEntry(cleared, "gc", Loc(r), <<>>))

Halt == halted /\ UNCHANGED vars

------------------------------------------------------------------------------
(* What the bootloader leaves, and what callers may ask for *)

(* The page tables of a memory, and their pages.                           *)
TableNodes(memory) ==
  UNION {{x \in Reached(memory)[depth] : x.depth = depth} : depth \in 0 .. DEPTH_BOTTOM}
TablesOf(memory) == {x.page : x \in TableNodes(memory)}

(* They form a tree: no table is reached in two places.                    *)
IsTree(memory) ==
  \A x, y \in TableNodes(memory) : x.page = y.page => x = y

(* Present entries of page tables refer to pages there are.                *)
EntriesValid(memory) ==
  \A table \in TablesOf(memory), i \in Index :
    Present(memory[table][i]) => memory[table][i].page \in Memory

(* Addresses that large pages map: entries that lead to memory above the   *)
(* last level.                                                             *)
LargePages(memory) ==
  UNION {UNION {{t.virtual : t \in Translations(depth, node)} :
                  node \in {x \in Reached(memory)[depth + 1] : x.depth = DEPTH_MEMORY}} :
           depth \in 0 .. DEPTH_BOTTOM - 1}

ASSUME BootAssumption ==
  /\ TablesOf(BootMemory) \subseteq Memory \ (Pool \cup {0})
  /\ IsTree(BootMemory) /\ EntriesValid(BootMemory)

ASSUME CallerAssumption ==
  /\ Page \subseteq Memory
  /\ \A r \in Request :
       /\ \A page \in Page : page .. page + r.size - 1 \subseteq Memory
       /\ LargePages(BootMemory) \cap (r.address .. r.address + r.size - 1) = {}

Init ==
  /\ mem = BootMemory
  /\ held = {}
  /\ halted = FALSE

Next ==
  \/ \E r \in Request, flags \in Flags, page \in Page : MmuAssign(r, flags, page)
  \/ \E r \in Request : MmuRemove(r)
  \/ Halt

Spec == Init /\ [][Next]_vars

------------------------------------------------------------------------------
(* Properties *)

Tables == TablesOf(mem)

(* Types of the state.                                                     *)
TypeOK ==
  /\ mem \in [Memory -> [Index -> Entry]]
  /\ TablesOf(mem) \subseteq Memory /\ EntriesValid(mem)
  /\ held \subseteq Pool
  /\ halted \in BOOLEAN

(* The page tables are a tree, and the pages taken from the allocator are  *)
(* exactly its nodes: none is lost when tables are collected or when an    *)
(* allocation fails halfway, and no freed page stays in the tree.          *)
TablesAreOwned == Tables \cap Pool = held /\ IsTree(mem)

(* The collection at the end of mmu_remove is complete: a table that was   *)
(* made here maps something.                                               *)
NoEmptyTables ==
  ~halted => \A table \in held : ~Empty(State, table)

(* The walk only writes to page tables: those of the tree, before or after *)
(* the step.                                                               *)
OnlyTablesWritten ==
  [][\A page \in Memory : mem'[page] # mem[page] => page \in Tables \cup Tables']_vars

(* The driver keeps the promise of mmu.h: see AddressMap.                  *)
Promise == INSTANCE AddressMap WITH
  map <- Mapped(mem), InitialMap <- Mapped(BootMemory), Bits <- ConvertFlags
ImplementsAddressMap == Promise!Spec
==============================================================================
