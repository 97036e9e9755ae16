------------------------------- MODULE VAddress -------------------------------
(***************************************************************************)
(* The virtual address space manager, src/memory/vaddress.c.  The regions  *)
(* in use are a linked list in address order, here a sequence; the nodes   *)
(* of the list live in pages from the physical allocator, are taken from   *)
(* a free list or from the newest page, and go back to the free list.      *)
(* vaddress_free walks the list and edits it as it goes: one step for each *)
(* turn of its loop.                                                       *)
(***************************************************************************)
EXTENDS Naturals, FiniteSetsExt, SequencesExt

CONSTANTS
  REGIONS_PER_BLOCK,   \* nodes in a storage block, one page (100)
  PAGES,               \* pages the physical allocator can still give
  space_begin,         \* the space, from the first address
  space_end,           \*   to the one after the last
  NULL,                \* what a failed allocation returns
  Address, Size        \* arguments of the callers

ASSUME SpaceAssumption ==
  /\ REGIONS_PER_BLOCK \in Nat \ {0}
  /\ PAGES \in Nat
  /\ space_begin \in Nat /\ space_end \in Nat
  /\ space_begin < space_end
  /\ NULL \in Nat /\ NULL < space_begin
  /\ Address \subseteq Nat /\ Size \subseteq Nat

VARIABLES
  allocated,    \* regions in use: [node, begin, end], in list order
  unused,       \* free list of nodes, the top first
  storage,      \* entries of the storage blocks, the oldest first
  pages,        \* pages left in the physical allocator
  call,         \* vaddress_free in progress: its arguments and place, and,
                \*   for the properties, if it frees the front of a region
  ret,          \* what the last vaddress_allocate returned
  halted        \* panic() was called

vars == <<allocated, unused, storage, pages, call, ret, halted>>

(* Node i of storage block b; blocks are numbered as they are allocated.   *)
Nodes == (1 .. PAGES) \X (0 .. REGIONS_PER_BLOCK - 1)

Idle ==
  [active |-> FALSE, address |-> 0, address_end |-> 0, pos |-> 1, front |-> FALSE]

------------------------------------------------------------------------------
(* Nodes *)

BlocksWithSpace == {b \in DOMAIN storage : storage[b] < REGIONS_PER_BLOCK}

FreeNodeUnlinked(node) ==                     \* mutant: the node is not popped
  /\ node = Head(unused)
  /\ UNCHANGED <<unused, storage, pages>>

(* Pop from the free list. *)
PopUnused(node) ==
  /\ node = Head(unused)
  /\ unused' = Tail(unused)
  /\ UNCHANGED <<storage, pages>>

(* The next entry of the first block, from the newest, that has one left. *)
NextEntry(node) ==
  LET b == Max(BlocksWithSpace)
  IN  /\ node = <<b, storage[b]>>
      /\ storage' = [storage EXCEPT ![b] = @ + 1]
      /\ UNCHANGED <<unused, pages>>

(* The first entry of a new block. *)
NewBlock(node) ==
  /\ node = <<Len(storage) + 1, 0>>
  /\ storage' = Append(storage, 1)
  /\ pages' = pages - 1
  /\ UNCHANGED unused

OutOfNodes == unused = <<>> /\ BlocksWithSpace = {} /\ pages = 0

(* find_free_node; new_page panics when there is no page. *)
FindFreeNode(node) ==
  \/ unused # <<>> /\ PopUnused(node)
  \/ unused = <<>> /\ BlocksWithSpace # {} /\ NextEntry(node)
  \/ unused = <<>> /\ BlocksWithSpace = {} /\ pages > 0 /\ NewBlock(node)

Panic ==
  /\ halted' = TRUE
  /\ UNCHANGED <<allocated, unused, storage, pages, call, ret>>

------------------------------------------------------------------------------
(* vaddress_allocate *)

(* The gap after the i-th region, the one before all regions for i = 0. *)
GapBegin(i) == IF i = 0 THEN space_begin ELSE allocated[i].end
GapEnd(i) == IF i = Len(allocated) THEN space_end ELSE allocated[i + 1].begin

FitsLoosely(i, size) == GapEnd(i) + 1 - GapBegin(i) >= size  \* mutant of Fits
Fits(i, size) == GapEnd(i) - GapBegin(i) >= size

(* First fit: a new region at the head of the list when the gap before the *)
(* first region is large enough, else the region before the gap grows.     *)
VaddressAllocate(size) ==
  LET fits == {i \in 0 .. Len(allocated) : Fits(i, size)}
      i == Min(fits)
  IN  /\ ~halted
      /\ ~call.active
      /\ \/ /\ fits = {}
            /\ ret' = NULL
            /\ UNCHANGED <<allocated, unused, storage, pages, call, halted>>
         \/ /\ fits # {} /\ i > 0
            /\ ret' = GapBegin(i)
            /\ allocated' = [allocated EXCEPT ![i].end = @ + size]
            /\ UNCHANGED <<unused, storage, pages, call, halted>>
         \/ /\ fits # {} /\ i = 0 /\ ~OutOfNodes
            /\ ret' = space_begin
            /\ \E node \in Nodes :
                 /\ FindFreeNode(node)
                 /\ allocated' = Cons([node |-> node, begin |-> space_begin,
                                       end |-> space_begin + size], allocated)
            /\ UNCHANGED <<call, halted>>
         \/ /\ fits # {} /\ i = 0 /\ OutOfNodes
            /\ Panic

------------------------------------------------------------------------------
(* vaddress_free *)

(* The case "Shift block start" of the code would apply to region r. *)
FreesFront(r, address, address_end) ==
  address <= r.begin /\ r.begin <= address_end /\ address_end < r.end

VaddressFree(address, size) ==
  /\ ~halted
  /\ ~call.active
  /\ call' = [active |-> TRUE, address |-> address,
              address_end |-> address + size, pos |-> 1,
              front |-> \E i \in DOMAIN allocated :
                          FreesFront(allocated[i], address, address + size)]
  /\ UNCHANGED <<allocated, unused, storage, pages, ret, halted>>

(* The range being freed, and a turn of the loop at `region`. *)
from == call.address
to == call.address_end
region == allocated[call.pos]
Turn == call.active /\ ~halted /\ call.pos <= Len(allocated)

Stay(n) == UNCHANGED call                               \* mutant of Advance
Advance(n) == call' = [call EXCEPT !.pos = @ + n]

StartsBefore == from < region.begin                        \* mutant of Past
Past == to < region.begin

(* The end of the list, or a region after the range. *)
Return ==
  /\ call.active /\ ~halted
  /\ Turn => Past
  /\ call' = Idle
  /\ UNCHANGED <<allocated, unused, storage, pages, ret, halted>>

Touches == ~Past /\ region.end >= from

Skip ==
  /\ Turn
  /\ ~Past /\ region.end < from
  /\ Advance(1)
  /\ UNCHANGED <<allocated, unused, storage, pages, ret, halted>>

DeleteAndAdvance ==                                \* mutant of DeleteRegion
  /\ Turn /\ Touches
  /\ from <= region.begin /\ region.end <= to
  /\ allocated' = RemoveAt(allocated, call.pos)
  /\ unused' = Cons(region.node, unused)
  /\ Advance(1)
  /\ UNCHANGED <<storage, pages, ret, halted>>

DeleteRegion ==
  /\ Turn /\ Touches
  /\ from <= region.begin /\ region.end <= to
  /\ allocated' = RemoveAt(allocated, call.pos)
  /\ unused' = Cons(region.node, unused)
  /\ UNCHANGED <<storage, pages, call, ret, halted>>

ShiftStart ==
  /\ Turn /\ Touches
  /\ from <= region.begin /\ to < region.end
  /\ allocated' = [allocated EXCEPT ![call.pos].end = to]
  /\ Advance(1)
  /\ UNCHANGED <<unused, storage, pages, ret, halted>>

ShiftEnd ==
  /\ Turn /\ Touches
  /\ region.begin < from /\ region.end <= to
  /\ allocated' = [allocated EXCEPT ![call.pos].end = from]
  /\ Advance(1)
  /\ UNCHANGED <<unused, storage, pages, ret, halted>>

Split ==
  /\ Turn /\ Touches
  /\ region.begin < from /\ to < region.end
  /\ \/ /\ ~OutOfNodes
        /\ \E node \in Nodes :
             /\ FindFreeNode(node)
             /\ allocated' = InsertAt([allocated EXCEPT ![call.pos].end = from],
                               call.pos + 1,
                               [node |-> node, begin |-> to, end |-> region.end])
        /\ Advance(2)
        /\ UNCHANGED <<ret, halted>>
     \/ OutOfNodes /\ Panic

FreeStep == Return \/ Skip \/ DeleteRegion \/ ShiftStart \/ ShiftEnd \/ Split

Halt == halted /\ UNCHANGED vars

(* vaddress_space_new *)
Init ==
  /\ allocated = <<>>
  /\ unused = <<>>
  /\ storage = <<>>
  /\ pages = PAGES
  /\ call = Idle
  /\ ret = NULL
  /\ halted = FALSE

Next ==
  \/ \E size \in Size : VaddressAllocate(size)
  \/ \E address \in Address, size \in Size : VaddressFree(address, size)
  \/ FreeStep
  \/ Halt

(* The processor goes on with a loop it has entered. *)
Fairness == WF_vars(FreeStep)

Spec == Init /\ [][Next]_vars /\ Fairness

------------------------------------------------------------------------------
(* Properties *)

Regions ==
  [node : Nodes, begin : space_begin .. space_end, end : space_begin .. space_end]

(* Types of the state; the loop never runs past the end of the list.       *)
TypeOK ==
  /\ allocated \in Seq(Regions)
  /\ unused \in Seq(Nodes)
  /\ storage \in Seq(1 .. REGIONS_PER_BLOCK)
  /\ pages \in Nat /\ pages + Len(storage) = PAGES
  /\ call \in [active : BOOLEAN, address : Nat, address_end : Nat,
               pos : 1 .. Len(allocated) + 1, front : BOOLEAN]
  /\ ret \in {NULL} \cup space_begin .. space_end
  /\ halted \in BOOLEAN

(* vaddress_print asserts that no region is lost.  More than its counts:   *)
(* every node taken from a block is in exactly one of the two lists, once. *)
NodesConserved ==
  LET nodes == [i \in DOMAIN allocated |-> allocated[i].node] \o unused
  IN  /\ IsInjective(nodes)
      /\ ToSet(nodes) = {n \in Nodes : /\ n[1] \in DOMAIN storage
                                       /\ n[2] < storage[n[1]]}

(* At every turn of every loop the regions are in the space, in address    *)
(* order, and do not overlap: what the first fit of vaddress_allocate and  *)
(* the early return of vaddress_free rely on.                              *)
RegionsOrdered ==
  /\ \A i \in DOMAIN allocated :
       /\ space_begin <= allocated[i].begin
       /\ allocated[i].begin <= allocated[i].end
       /\ allocated[i].end <= space_end
  /\ \A i, j \in DOMAIN allocated :
       i < j => allocated[i].end <= allocated[j].begin

(* vaddress_free comes back, although the list changes under its loop.     *)
FreeReturns == call.active ~> (~call.active \/ halted)

(* Addresses in use; those of the range being freed no longer count once   *)
(* the call is made.                                                       *)
InRegions ==
  UNION {allocated[i].begin .. allocated[i].end - 1 : i \in DOMAIN allocated}
Used == IF call.active THEN InRegions \ from .. to - 1 ELSE InRegions

(* The space keeps the promise of vaddress_space.h: see AddressSpace.      *)
Promise == INSTANCE AddressSpace WITH
  Space <- space_begin .. space_end - 1, used <- Used
ImplementsAddressSpace == Promise!Spec

(* An empty region inside of the space; only a free of a front leaves one. *)
GapIsSplit ==
  \E i \in DOMAIN allocated :
    space_begin < allocated[i].begin /\ allocated[i].begin = allocated[i].end

(* It does so in every call, but for a free of the front of a region whose *)
(* rest stays.  The list such a call leaves behind is one that later calls *)
(* handle as promised, except that an allocation may fail to see that the  *)
(* gaps around an empty region are one.                                    *)
KeepsPromise ==
  /\ Promise!Init
  /\ [][\/ Promise!Next
        \/ call.front
        \/ GapIsSplit /\ ret' = NULL /\ UNCHANGED <<Used, halted>>]_<<Used, ret, halted>>
==============================================================================
