-------------------------------- MODULE Heap --------------------------------
(***************************************************************************)
(* The kernel heap (heap.c) on top of the page allocator, which it shares  *)
(* with paging and the process stacks.  free_list is the address-sorted    *)
(* list of free blocks; the header of a block in use keeps its size until  *)
(* kfree, and the ghost live is the set of those blocks.  Sizes are in     *)
(* units of which HEADER_SIZE and ALIGN are small multiples; arithmetic on *)
(* a request wraps at WORD (uint32_t).                                     *)
(***************************************************************************)
EXTENDS Pmm, Lists

CONSTANTS
  PAGE_SIZE, HEADER_SIZE, MIN_ALLOC, ALIGN, INITIAL_PAGES,
  WORD,          \* 2^32
  Requests,      \* sizes kernel code asks kmalloc for
  MAX_LIVE       \* bound: blocks in use at a time

ASSUME HeapAssumption ==
  /\ {PAGE_SIZE, HEADER_SIZE, MIN_ALLOC, ALIGN, WORD} \subseteq Nat \ {0}
  /\ HEADER_SIZE <= PAGE_SIZE /\ INITIAL_PAGES \in Nat
  /\ PAGE_SIZE * TOTAL_PAGES <= WORD /\ WORD % ALIGN = 0
  /\ Requests \subseteq 0 .. WORD - 1

VARIABLES free_list, heap_pages, live,
          others      \* ghost: pages held by paging and processes

heapVars == <<bitmap, holders, free_list, heap_pages, live, others>>
-----------------------------------------------------------------------------
End(b) == b.addr + HEADER_SIZE + b.size

(* list_insert: before the first block with a higher address.              *)
list_insert(list, b) ==
  LET i == SelectInSeq(list, LAMBDA c : c.addr > b.addr)
  IN  IF i = 0 THEN Append(list, b) ELSE InsertAt(list, i, b)

(* One pass of coalesce_forward over the list.  The loop steps to the      *)
(* successor whether or not it merged, so a block that has just absorbed   *)
(* its neighbour is not compared with the next one.                        *)
Absorb(b, c) == [b EXCEPT !.size = @ + HEADER_SIZE + c.size]
coalesce_forward(acc, b) ==
  LET n == Len(acc.out) IN
  IF n > 0 /\ acc.merged = 0 /\ End(acc.out[n]) = b.addr
  THEN [out |-> [acc.out EXCEPT ![n] = Absorb(@, b)], merged |-> 1]
  ELSE [out |-> Append(acc.out, b), merged |-> 0]
Coalesce_Never(list) == list
Coalesce(list) ==
  LET pass[i \in 0 .. Len(list)] ==
        IF i = 0 THEN [out |-> <<>>, merged |-> 0] ELSE coalesce_forward(pass[i - 1], list[i])
  IN  pass[Len(list)].out

(* heap_add_page, n times over, until pmm_alloc fails.                     *)
heap_add_page_CountsFirst(h) ==
  LET page == pmm_alloc(h.map)
      block == [addr |-> page * PAGE_SIZE, size |-> PAGE_SIZE - HEADER_SIZE]
  IN  IF page = 0 THEN [h EXCEPT !.pages = @ + 1, !.failed = 1]
      ELSE [map |-> MarkUsed(h.map, page), pages |-> h.pages + 1, failed |-> h.failed,
            list |-> Coalesce(list_insert(h.list, block))]
heap_add_page(h) ==
  LET page == pmm_alloc(h.map)
      block == [addr |-> page * PAGE_SIZE, size |-> PAGE_SIZE - HEADER_SIZE]
  IN  IF page = 0 THEN [h EXCEPT !.failed = 1]
      ELSE [map |-> MarkUsed(h.map, page), pages |-> h.pages + 1, failed |-> h.failed,
            list |-> Coalesce(list_insert(h.list, block))]
AddPages(h, n) ==
  LET grown[i \in 0 .. n] ==
        IF i = 0 THEN h
        ELSE IF grown[i - 1].failed = 1 THEN grown[i - 1] ELSE heap_add_page(grown[i - 1])
  IN  grown[n]

Heap(map, list, pages) == [map |-> map, list |-> list, pages |-> pages, failed |-> 0]

(* heap_init *)
Init ==
  /\ live = {} /\ others = {}
  /\ LET h == AddPages(Heap(Pages \ ClearedByInit, <<>>, 0), INITIAL_PAGES) IN
     /\ bitmap = h.map /\ free_list = h.list /\ heap_pages = h.pages
     /\ holders = [p \in Pages |-> IF p \in h.map /\ p \in ClearedByInit THEN 1 ELSE 0]
-----------------------------------------------------------------------------
(* The size kmalloc works with: rounded up to ALIGN, at least MIN_ALLOC.   *)
RoundUp_Down(size) == IF size < MIN_ALLOC THEN MIN_ALLOC ELSE size - (size % ALIGN)
RoundUp(size) ==
  LET up == (size + ALIGN - 1) % WORD
      aligned == up - (up % ALIGN)
  IN  IF aligned < MIN_ALLOC THEN MIN_ALLOC ELSE aligned

FirstFit(list, size) == SelectInSeq(list, LAMBDA b : b.size >= size)

(* The block at i, cut to size when the rest can be a block of its own.    *)
Splits(b, size) == b.size >= size + HEADER_SIZE + MIN_ALLOC
Cut(b, size) == IF Splits(b, size) THEN [b EXCEPT !.size = size] ELSE b
Rest(b, size) == [addr |-> b.addr + HEADER_SIZE + size, size |-> b.size - size - HEADER_SIZE]
Unlink_KeepsBlock(list, i, size) ==
  IF Splits(list[i], size) THEN InsertAt(list, i + 1, Rest(list[i], size)) ELSE RemoveAt(list, i)
Unlink(list, i, size) ==
  IF Splits(list[i], size) THEN [list EXCEPT ![i] = Rest(list[i], size)] ELSE RemoveAt(list, i)

(* kmalloc's answer from a heap h: a block in use, or 0 with h as it is.   *)
Grant(h, asked) ==
  LET size == RoundUp(asked)
      i == FirstFit(h.list, size)
  IN  /\ bitmap' = h.map /\ heap_pages' = h.pages
      /\ holders' = [p \in Pages |-> IF p \in h.map \ bitmap THEN holders[p] + 1 ELSE holders[p]]
      /\ IF i = 0 \/ h.failed = 1
         THEN free_list' = h.list /\ live' = live
         ELSE /\ free_list' = Unlink(h.list, i, size)
              /\ live' = live \cup {[addr |-> h.list[i].addr, size |-> Cut(h.list[i], size).size,
                                     asked |-> asked]}
      /\ UNCHANGED others

PagesNeeded(size) == ((size + HEADER_SIZE + PAGE_SIZE - 1) % WORD) \div PAGE_SIZE

kmalloc ==
  /\ Cardinality(live) < MAX_LIVE
  /\ \E size \in Requests \ {0} :
       LET h == Heap(bitmap, free_list, heap_pages)
           fits == FirstFit(free_list, RoundUp(size)) # 0
       IN  Grant(IF fits THEN h ELSE AddPages(h, PagesNeeded(RoundUp(size))), size)

kfree ==
  \E b \in live :
    /\ live' = live \ {b}
    /\ free_list' = Coalesce(list_insert(free_list, [addr |-> b.addr, size |-> b.size]))
    /\ UNCHANGED <<bitmap, holders, heap_pages, others>>

(* process_create or paging_map takes a page between two heap operations,  *)
(* or gives one back.                                                      *)
OtherAlloc ==
  /\ PmmAlloc
  /\ others' = others \cup (bitmap' \ bitmap)
  /\ UNCHANGED <<free_list, heap_pages, live>>

OtherFree ==
  /\ \E page \in others \cup {0} : FreePage(page) /\ others' = others \ {page}
  /\ UNCHANGED <<free_list, heap_pages, live>>

Next == kmalloc \/ kfree \/ OtherAlloc \/ OtherFree

Spec == Init /\ [][Next]_heapVars
-----------------------------------------------------------------------------
Blocks == Range(free_list) \cup live

TypeOK ==
  /\ PmmTypeOK
  /\ \A b \in Blocks : /\ b.addr \in Nat /\ b.size \in Nat
                       /\ b.addr % ALIGN = 0 /\ b.size % ALIGN = 0 /\ b.size >= MIN_ALLOC
  /\ heap_pages \in 0 .. TOTAL_PAGES /\ others \subseteq Pages

(* The blocks, free and in use, tile the pages the heap got from           *)
(* pmm_alloc: no unit of memory belongs to two blocks, none is lost, and   *)
(* none lies in a page of somebody else.                                   *)
Extent(b) == b.addr .. End(b) - 1
HeapCells == {c \in 0 .. TOTAL_PAGES * PAGE_SIZE - 1 :
                LET p == c \div PAGE_SIZE IN holders[p] = 1 /\ p \notin others}
NoOverlap ==
  /\ UNION {Extent(b) : b \in Blocks} = HeapCells
  /\ \A b, c \in Blocks : b # c => Extent(b) \cap Extent(c) = {}

(* heap_get_stats: used_bytes, which it computes as total minus free,      *)
(* is what live blocks and all the headers take up: splitting, coalescing  *)
(* and growing lose no byte.                                               *)
free_bytes == MapThenSumSet(LAMBDA i : free_list[i].size, DOMAIN free_list)
used_bytes == heap_pages * PAGE_SIZE - free_bytes
StatsExact ==
  used_bytes = MapThenSumSet(LAMBDA b : b.size, live)
               + HEADER_SIZE * (Len(free_list) + Cardinality(live))

(* kfree's single pass leaves at most one pair of touching free blocks in  *)
(* the whole heap, however the operations are mixed.                       *)
Seams == {i \in 1 .. Len(free_list) - 1 : End(free_list[i]) = free_list[i + 1].addr}
OneSeam == \A i, j \in Seams : i = j

(* kmalloc and kfree implement Allocator: what they hand out is big enough *)
(* and exclusive, and nothing else ever moves.                             *)
Promise == INSTANCE Allocator WITH
             regions <- {[ptr |-> b.addr + HEADER_SIZE, size |-> b.size,
                          asked |-> b.asked] : b \in live}
ImplementsAllocator == Promise!Spec

(* heap.c, kfree: "Coalesce all adjacent free blocks".                     *)
Coalesced == Seams = {}

(* heap.h: "Allocate size bytes from the kernel heap".                     *)
BigEnough == \A b \in live : b.size >= b.asked
=============================================================================
