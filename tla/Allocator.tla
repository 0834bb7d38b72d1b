----------------------------- MODULE Allocator -----------------------------
(***************************************************************************)
(* What kmalloc and kfree promise their callers (heap.h): a request of     *)
(* size bytes gets a region of at least that size that overlaps no region  *)
(* still in use, or nothing; a region stays as it is until it is freed.    *)
(***************************************************************************)
EXTENDS Naturals

CONSTANT Requests

VARIABLE regions    \* the regions in use: [ptr, size, asked]

Cells(r) == r.ptr .. r.ptr + r.size - 1

Init == regions = {}

Alloc ==
  \E r \in regions' \ regions :
    /\ r.asked \in Requests /\ r.size >= r.asked
    /\ \A other \in regions : Cells(r) \cap Cells(other) = {}
    /\ regions' = regions \cup {r}

Free == \E r \in regions : regions' = regions \ {r}

Spec == Init /\ [][Alloc \/ Free]_regions
=============================================================================
