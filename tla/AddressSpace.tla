----------------------------- MODULE AddressSpace -----------------------------
(***************************************************************************)
(* What a virtual address space promises, as vaddress_space.h states it:   *)
(* which addresses are in use.  Which free range an allocation gets is     *)
(* left open; so is the panic of an operation that runs out of pages for   *)
(* its own records.                                                        *)
(***************************************************************************)
EXTENDS Naturals

CONSTANTS
  Space,     \* the addresses to give out, an interval
  NULL,      \* the address that reports a failure
  Address, Size   \* what callers pass to vaddress_allocate and vaddress_free

VARIABLES
  used,      \* addresses given out and not freed since
  ret,       \* what the last vaddress_allocate returned
  halted     \* the kernel has panicked

vars == <<used, ret, halted>>

Bytes(a, n) == a .. a + n - 1

Init ==
  /\ used = {}
  /\ ret = NULL
  /\ halted = FALSE

Fits(a, n) == Bytes(a, n) \subseteq Space \ used

(* A range nobody uses, or NULL when there is none of that length.         *)
Allocate(n) ==
  /\ \/ \E a \in Space :
          /\ Fits(a, n)
          /\ used' = used \cup Bytes(a, n)
          /\ ret' = a
     \/ /\ \A a \in Space : ~ Fits(a, n)
        /\ ret' = NULL
        /\ UNCHANGED used
  /\ UNCHANGED halted

(* Any range may be given back, of several allocations or partly unused.   *)
Free(a, n) ==
  /\ used' = used \ Bytes(a, n)
  /\ UNCHANGED <<ret, halted>>

Panic ==
  /\ halted' = TRUE
  /\ UNCHANGED <<used, ret>>

Next ==
  /\ ~halted
  /\ \/ \E n \in Size : Allocate(n)
     \/ \E a \in Address, n \in Size : Free(a, n)
     \/ Panic

Spec == Init /\ [][Next]_vars
==============================================================================
