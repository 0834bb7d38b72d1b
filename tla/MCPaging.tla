------------------------------ MODULE MCPaging ------------------------------
(* Twelve pages of memory in three four-entry tables.  Callers map one     *)
(* page of the program area, the user stack page (the first pmm_alloc      *)
(* hands out after boot) and two pages of one range beyond the memory.     *)
EXTENDS Paging

MCVirts == {7, 10, 12, 13}
MCFlags == {{"W"}, {"U"}, {"W", "U"}}
=============================================================================
