-------------------------------- MODULE Pmm --------------------------------
(***************************************************************************)
(* The physical page allocator (pmm.c).  The bitmap is the set of pages    *)
(* whose bit is set; addresses are page numbers.  The kernel's subsystems  *)
(* (heap, paging, process stacks) allocate and give back pages.            *)
(***************************************************************************)
EXTENDS Naturals

CONSTANTS
  TOTAL_PAGES,
  KEND_PAGE,            \* _kernel_end, rounded up to a page
  BIOS_LO, BIOS_HI,     \* 0xA0000 / PAGE_SIZE and 0xFFFFF / PAGE_SIZE
  KSTACK_PAGE,          \* 0x1F0000 / PAGE_SIZE: the kernel stack ends here
  USER_END_PAGE         \* 0x300000 / PAGE_SIZE

ASSUME PmmAssumption ==
  /\ TOTAL_PAGES \in Nat /\ KEND_PAGE \in Nat \ {0}
  /\ BIOS_LO \in Nat /\ BIOS_HI \in Nat
  /\ KSTACK_PAGE \in Nat /\ USER_END_PAGE \in Nat
  /\ KEND_PAGE <= KSTACK_PAGE /\ KSTACK_PAGE < USER_END_PAGE
  /\ BIOS_HI < USER_END_PAGE /\ USER_END_PAGE < TOTAL_PAGES

Pages == 0 .. TOTAL_PAGES - 1

VARIABLES
  bitmap,     \* pages marked used
  holders     \* ghost: how many holders each page has

pmmVars == <<bitmap, holders>>

(* pmm_init: everything is used but the two ranges it clears.              *)
ClearedByInit_KeepsBios ==
  (KEND_PAGE .. KSTACK_PAGE - 1) \cup (USER_END_PAGE .. TOTAL_PAGES - 1)
ClearedByInit ==
  ((KEND_PAGE .. KSTACK_PAGE - 1) \ (BIOS_LO .. BIOS_HI))
    \cup (USER_END_PAGE .. TOTAL_PAGES - 1)
PmmInit ==
  /\ bitmap = Pages \ ClearedByInit
  /\ holders = [p \in Pages |-> 0]

(* pmm_alloc: the lowest clear bit, or 0 for "out of memory".              *)
pmm_alloc(map) ==
  IF Pages \subseteq map THEN 0
  ELSE CHOOSE p \in Pages \ map : \A q \in Pages \ map : p <= q

(* pmm_free ignores page 0 and pages past the end.                         *)
pmm_free_NoGuard(map, page) == map \ {page}
pmm_free(map, page) ==
  IF page > 0 /\ page < TOTAL_PAGES THEN map \ {page} ELSE map

(* A subsystem takes a page; it gets 0 when there is none.                 *)
MarkUsed_Forgotten(map, page) == map
MarkUsed(map, page) == map \cup {page}
PmmAlloc ==
  LET page == pmm_alloc(bitmap) IN
  /\ bitmap' = IF page = 0 THEN bitmap ELSE MarkUsed(bitmap, page)
  /\ holders' = IF page = 0 THEN holders ELSE [holders EXCEPT ![page] = @ + 1]

(* A holder gives its page back, or a caller whose allocation failed hands *)
(* the 0 it got to pmm_free.                                               *)
FreePage(page) ==
  /\ bitmap' = pmm_free(bitmap, page)
  /\ holders' = IF page = 0 THEN holders ELSE [holders EXCEPT ![page] = @ - 1]
PmmFree == \E page \in Pages : (page = 0 \/ holders[page] > 0) /\ FreePage(page)

PmmNext == PmmAlloc \/ PmmFree

PmmSpec == PmmInit /\ [][PmmNext]_pmmVars
-----------------------------------------------------------------------------
PmmTypeOK ==
  /\ bitmap \subseteq Pages
  /\ holders \in [Pages -> Nat]

(* A page the bitmap calls free has no holder, a used page that pmm_init   *)
(* released has exactly one, and a page it kept back never has any: no     *)
(* sequence of allocations and releases loses or doubles a page.           *)
HeldOnce ==
  \A p \in Pages :
    holders[p] = IF p \in ClearedByInit /\ p \in bitmap THEN 1 ELSE 0

(* The kernel image, the BIOS and video hole, and the program area from    *)
(* the stack top at 0x1F0000 up to 0x300000 are never handed out.          *)
ReservedNeverHeld ==
  \A p \in Pages :
    \/ p < KEND_PAGE \/ p \in BIOS_LO .. BIOS_HI
    \/ p \in KSTACK_PAGE .. USER_END_PAGE - 1
    => holders[p] = 0

(* Page 0, the out-of-memory answer, is never free, so pmm_alloc answers 0 *)
(* only when every page is taken, even after pmm_free(0).                  *)
ZeroMeansFull == pmm_alloc(bitmap) = 0 => Pages \subseteq bitmap

(* README: the kernel stack grows down from 0x1F0000, and pmm.c frees      *)
(* "between kernel end and kernel stack": its first page is not handed out.*)
KernelStackNotHeld == holders[KSTACK_PAGE - 1] = 0

(* README: 0x00300000 - 0x00300FFF is the userspace stack, and pmm.c frees *)
(* pages "above the userspace area": that page is not handed out.          *)
UserStackNotHeld == holders[USER_END_PAGE] = 0
=============================================================================
