------------------------------ MODULE AddressMap ------------------------------
(***************************************************************************)
(* What the MMU driver promises, as mmu.h states it: a set of translations *)
(* from virtual to physical pages, with their permissions.  How it is laid *)
(* out in page tables is left open, except that running out of pages for   *)
(* them, or giving back a page table that was not allocated here, is a     *)
(* panic.                                                                  *)
(***************************************************************************)
EXTENDS Naturals

CONSTANTS
  Request,     \* what callers ask for: [address, size], in pages
  Flags,       \* the sets of mmu_flags they pass
  Page,        \* the physical pages they map
  InitialMap,  \* what the bootloader has mapped
  Bits(_)      \* the permissions a set of mmu_flags stands for

VARIABLES
  map,       \* translations: [virtual, page, bits]
  halted     \* the kernel has panicked

vars == <<map, halted>>

Pages(r) == r.address .. r.address + r.size - 1

Init ==
  /\ map = InitialMap
  /\ halted = FALSE

Outside(before, r) == {t \in before : t.virtual \notin Pages(r)}

(* The whole range, and nothing else, is mapped to consecutive pages;      *)
(* when that is not possible no translation has changed at the panic.      *)
Assign(before, after, r, flags, page) ==
  \/ /\ after = Outside(before, r) \cup
                 {[virtual |-> v, page |-> page + (v - r.address),
                   bits |-> Bits(flags)] : v \in Pages(r)}
     /\ UNCHANGED halted
  \/ halted' /\ after = before

(* The whole range, and nothing else, is unmapped.                         *)
Remove(before, after, r) ==
  \/ after = Outside(before, r)
  \/ halted' /\ after = before

(* The bound variables have TLC work out the map of the page tables only   *)
(* once for each end of a step.                                            *)
Next ==
  /\ ~halted
  /\ halted' \in BOOLEAN
  /\ \E before \in {map}, after \in {map'}, r \in Request :
       \/ \E flags \in Flags, page \in Page :
            Assign(before, after, r, flags, page)
       \/ Remove(before, after, r)

Spec == Init /\ [][Next]_vars
==============================================================================
