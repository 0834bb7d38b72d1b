------------------------------- MODULE MCHeap -------------------------------
(* Eight-unit pages: HEADER_SIZE, MIN_ALLOC and ALIGN are 2 units each.    *)
(* WORD - ALIGN is the largest size that is rounded up without wrapping.   *)
EXTENDS Heap

SmallRequests == {1, 3, 6, 9, WORD - ALIGN}
=============================================================================
