---------------------------- MODULE PageAllocator ----------------------------
(***************************************************************************)
(* What the physical memory manager promises its callers (the page tables, *)
(* the arena allocator, the virtual address space and the kernel itself),  *)
(* as pmm.h states it.  Pages are named by their physical address; which   *)
(* page an allocation gets is left open.                                   *)
(***************************************************************************)
EXTENDS Naturals

CONSTANTS
  PAGE_SIZE,   \* page.h: bytes in a page
  Address      \* the byte addresses callers pass to pmm_free_page

VARIABLES
  pool,      \* physical addresses of the pages the allocator manages
  held,      \* those handed out and not freed since
  ret,       \* what the last pmm_allocate_page returned, 0 before the first
  halted     \* the kernel has panicked

vars == <<pool, held, ret, halted>>

Init ==
  /\ pool = {}
  /\ held = {}
  /\ ret = 0
  /\ halted = FALSE

(* pmm_new: the allocator forgets every page, handed out or not.           *)
New ==
  /\ ~halted
  /\ pool' = {}
  /\ held' = {}
  /\ UNCHANGED <<ret, halted>>

(* pmm_add: the pool only grows, and never by page 0.                      *)
Add ==
  /\ ~halted
  /\ pool \subseteq pool'
  /\ 0 \notin pool'
  /\ UNCHANGED <<held, ret, halted>>

(* pmm_allocate_page: a page nobody holds, or 0 when there is none.        *)
Allocate ==
  /\ ~halted
  /\ \/ /\ ret' \in pool \ held
        /\ held' = held \cup {ret'}
     \/ /\ held = pool
        /\ ret' = 0
        /\ UNCHANGED held
  /\ UNCHANGED <<pool, halted>>

(* The held pages the byte address a lies in.                              *)
HeldAround(a) == {p \in held : p <= a /\ a < p + PAGE_SIZE}

(* pmm_free_page: give back the page around a; freeing what nobody holds   *)
(* stops the kernel, and freeing 0 does nothing.                           *)
Free(a) ==
  /\ ~halted
  /\ a # 0
  /\ held' = held \ HeldAround(a)
  /\ halted' = (HeldAround(a) = {})
  /\ UNCHANGED <<pool, ret>>

Next == New \/ Add \/ Allocate \/ \E a \in Address : Free(a)

Spec == Init /\ [][Next]_vars
==============================================================================
