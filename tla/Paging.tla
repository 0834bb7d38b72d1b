------------------------------- MODULE Paging -------------------------------
(***************************************************************************)
(* Paging (paging.c) on top of the page allocator: the page directory, the *)
(* page tables in pages of their own, and the CPU's TLB, which keeps a     *)
(* translation until invlpg.  Addresses are page numbers; an entry is the  *)
(* record of its flag bits and its frame.  paging_init runs at boot, one   *)
(* table per step; later calls do not overlap.                             *)
(***************************************************************************)
EXTENDS Pmm, FiniteSets

CONSTANTS
  PT_ENTRIES, PD_ENTRIES,    \* 1024 each
  IDENTITY_MAP_ENTRIES,
  Virts, Targets,            \* pages callers map, and frames they map them to
  Flags,                     \* flag combinations they pass: subsets of {"W", "U"}
  Fault                      \* no translation

Virt == 0 .. PD_ENTRIES * PT_ENTRIES - 1

ASSUME PagingAssumption ==
  /\ PT_ENTRIES \in Nat \ {0} /\ PD_ENTRIES \in Nat
  /\ IDENTITY_MAP_ENTRIES \in 1 .. PD_ENTRIES
  /\ IDENTITY_MAP_ENTRIES * PT_ENTRIES = TOTAL_PAGES
  /\ Virts \subseteq Virt /\ Targets \subseteq Pages
  /\ Cardinality(ClearedByInit) > IDENTITY_MAP_ENTRIES    \* enough memory to boot

VARIABLES
  kernel_page_directory,     \* its page, 0 before paging_init
  directory,                 \* the entries in that page
  tables,                    \* what each page holds, read as a page table
  phase, i,                  \* "boot", in paging_init's loop ("fill"), or "on"
  tlb,                       \* cached translations (external: the CPU)
  request                    \* ghost: the last call

vars == <<bitmap, holders, kernel_page_directory, directory, tables, phase, i,
          tlb, request>>

Entry(present, writable, user, frame) ==
  [present |-> present, writable |-> writable, user |-> user, frame |-> frame]

ZeroEntry == Entry(0, 0, 0, 0)
Garbage == Entry(1, 1, 1, 0)    \* what a page may hold before it is zeroed

PD_INDEX(virt) == virt \div PT_ENTRIES
PT_INDEX(virt) == virt % PT_ENTRIES

(* The page walk of the CPU.                                               *)
Walk(dir, tabs, virt) ==
  LET pde == dir[PD_INDEX(virt)]
      pte == tabs[pde.frame][PT_INDEX(virt)]
  IN  IF pde.present = 0 \/ pte.present = 0 THEN Fault
      ELSE [frame |-> pte.frame, writable |-> pte.writable, user |-> pde.user * pte.user]

Translate(virt) == Walk(directory, tables, virt)

Init ==
  /\ PmmInit
  /\ kernel_page_directory = 0
  /\ directory = [d \in 0 .. PD_ENTRIES - 1 |-> Garbage]
  /\ tables = [p \in Pages |-> [j \in 0 .. PT_ENTRIES - 1 |-> Garbage]]
  /\ phase = "boot" /\ i = 0 /\ tlb = [v \in Virt |-> Fault]
  /\ request = [op |-> "none", virt |-> 0, to |-> Fault]
-----------------------------------------------------------------------------
zero_page_Skipped(page) == tables[page]
zero_page(page) == [j \in 0 .. PT_ENTRIES - 1 |-> ZeroEntry]

AllocDirectory ==
  /\ phase = "boot" /\ phase' = "fill"
  /\ PmmAlloc
  /\ kernel_page_directory' = pmm_alloc(bitmap)
  /\ directory' = [d \in 0 .. PD_ENTRIES - 1 |-> ZeroEntry]
  /\ UNCHANGED <<tables, i, tlb, request>>

(* One turn of paging_init's loop: a table that maps its range to itself.  *)
IdentityFrame_OffByOne(n, j) == (n * PT_ENTRIES + j + 1) % TOTAL_PAGES
IdentityFrame(n, j) == n * PT_ENTRIES + j
MoreTables == i < IDENTITY_MAP_ENTRIES
FillTable ==
  /\ phase = "fill" /\ MoreTables /\ i' = i + 1
  /\ PmmAlloc
  /\ LET pt == pmm_alloc(bitmap) IN
     /\ tables' = [tables EXCEPT ![pt] = [j \in 0 .. PT_ENTRIES - 1 |->
                                            Entry(1, 1, 0, IdentityFrame(i, j))]]
     /\ directory' = [directory EXCEPT ![i] = Entry(1, 1, 0, pt)]
  /\ UNCHANGED <<kernel_page_directory, phase, tlb, request>>

(* CR3 and the PG bit.                                                     *)
EnablePaging ==
  /\ phase = "fill" /\ ~MoreTables /\ phase' = "on"
  /\ UNCHANGED <<bitmap, holders, kernel_page_directory, directory, tables, i, tlb, request>>
-----------------------------------------------------------------------------
(* invlpg *)
Invalidate_Forgotten(virt) == tlb' = tlb
Invalidate(virt) == tlb' = [tlb EXCEPT ![virt] = Fault]

(* PAGE_USER in the directory entry opens the whole range to what its      *)
(* table entries say; it is never taken back.                              *)
PropagateUser(pde, flags) == IF "U" \in flags THEN [pde EXCEPT !.user = 1] ELSE pde

Bit(flag, flags) == IF flag \in flags THEN 1 ELSE 0

(* The table of virt's range, with a page for it if there is none yet; 0   *)
(* when there is no page to be had.                                        *)
TableFor(virt) ==
  LET pde == directory[PD_INDEX(virt)]
  IN  IF pde.present = 1 THEN pde.frame ELSE pmm_alloc(bitmap)

paging_map(virt, phys, flags) ==
  LET d == PD_INDEX(virt)
      pt == TableFor(virt)
      fresh == directory[d].present = 0
      pde == IF fresh THEN Entry(1, 1, 0, pt) ELSE directory[d]
      pte == Entry(1, Bit("W", flags), Bit("U", flags), phys)
      table == IF fresh THEN zero_page(pt) ELSE tables[pt]
  IN  /\ phase = "on"
      /\ IF fresh THEN PmmAlloc ELSE UNCHANGED <<bitmap, holders>>
      /\ \/ pt = 0 /\ UNCHANGED <<directory, tables, tlb>>
         \/ /\ pt # 0
            /\ directory' = [directory EXCEPT ![d] = PropagateUser(pde, flags)]
            /\ tables' = [tables EXCEPT ![pt] = [table EXCEPT ![PT_INDEX(virt)] = pte]]
            /\ Invalidate(virt)
      /\ request' = [op |-> "map", virt |-> virt,
                     to |-> [frame |-> phys, writable |-> pte.writable, user |-> pte.user]]
      /\ UNCHANGED <<kernel_page_directory, phase, i>>

paging_unmap(virt) ==
  LET pde == directory[PD_INDEX(virt)] IN
  /\ phase = "on"
  /\ \/ pde.present = 0 /\ UNCHANGED <<tables, tlb>>
     \/ /\ pde.present = 1
        /\ tables' = [tables EXCEPT ![pde.frame][PT_INDEX(virt)] = ZeroEntry]
        /\ Invalidate(virt)
  /\ request' = [op |-> "unmap", virt |-> virt, to |-> Fault]
  /\ UNCHANGED <<bitmap, holders, kernel_page_directory, directory, phase, i>>

(* The CPU uses a page and remembers its translation.                     *)
Access(virt) ==
  /\ phase = "on" /\ Translate(virt) # Fault
  /\ tlb' = [tlb EXCEPT ![virt] = Translate(virt)]
  /\ UNCHANGED <<bitmap, holders, kernel_page_directory, directory, tables, phase, i, request>>

(* The heap or process_create takes a page.                                *)
OtherAlloc ==
  /\ phase = "on" /\ PmmAlloc
  /\ UNCHANGED <<kernel_page_directory, directory, tables, phase, i, tlb, request>>

(* What callers may ask of a page that pmm_alloc can hand out, and that    *)
(* may thus hold a table: elf_load_and_exec, the only caller, maps the     *)
(* user stack page, which pmm_init leaves to pmm_alloc, onto itself,       *)
(* writable.  Pages pmm_init withholds, and pages beyond the memory, are   *)
(* mapped and unmapped at will.                                            *)
MayMap(virt, phys, flags) ==
  virt \in ClearedByInit => phys = virt /\ "W" \in flags
MayUnmap(virt) == virt \notin ClearedByInit

Next ==
  \/ AllocDirectory \/ FillTable \/ EnablePaging \/ OtherAlloc
  \/ \E v \in Virts :
       \/ \E p \in Targets, f \in Flags : MayMap(v, p, f) /\ paging_map(v, p, f)
       \/ MayUnmap(v) /\ paging_unmap(v)
       \/ Access(v)

Spec == Init /\ [][Next]_vars
-----------------------------------------------------------------------------
(* The pages paging writes to: the directory and the tables it points to.  *)
Present == {d \in 0 .. PD_ENTRIES - 1 : directory[d].present = 1}
TablePages == {kernel_page_directory} \cup {directory[d].frame : d \in Present}

TypeOK ==
  /\ PmmTypeOK
  /\ kernel_page_directory \in Pages
  /\ phase \in {"boot", "fill", "on"} /\ i \in 0 .. IDENTITY_MAP_ENTRIES
  /\ \A d \in DOMAIN directory : directory[d].frame \in Pages
  /\ \A p \in Pages : DOMAIN tables[p] = 0 .. PT_ENTRIES - 1

(* Whatever the CPU has cached is what the tables say now, although        *)
(* paging_map and paging_unmap invalidate one page only and PAGE_USER in   *)
(* the directory touches a whole range.                                    *)
TlbCoherent == \A v \in Virts : tlb[v] # Fault => tlb[v] = Translate(v)

(* No two directory entries share a table, no table is the directory, and  *)
(* each is a page pmm_alloc gave to paging alone.                          *)
TablesExclusive ==
  phase # "boot" =>
    /\ \A d, e \in Present : d # e => directory[d].frame # directory[e].frame
    /\ \A d \in Present : directory[d].frame # kernel_page_directory
    /\ \A p \in TablePages : p \in bitmap /\ p \in ClearedByInit /\ holders[p] = 1

(* paging_map and paging_unmap reach a table through its physical address, *)
(* so with paging on every table and the directory must stay mapped at     *)
(* that very address, writable.  PAGE_USER in a directory entry opens a    *)
(* whole range, yet never a table in it: user mode reaches only a table    *)
(* that lies in a page callers themselves open, as pmm_alloc lets one lie  *)
(* in the user stack page.                                                 *)
TablesReachable ==
  phase = "on" =>
    \A p \in TablePages :
      \E u \in {0, 1} : /\ Translate(p) = [frame |-> p, writable |-> 1, user |-> u]
                        /\ u = 1 => p \in Virts

(* Paging implements AddressSpace: a call changes the translation of the   *)
(* one page it names and gives it exactly the rights asked, also when it   *)
(* had to add a table or to open the range to user mode.                   *)
Space == INSTANCE AddressSpace WITH
           Identity <- Pages,
           space <- [v \in Virt |-> IF phase = "on" THEN Translate(v) ELSE Fault]
ImplementsAddressSpace == Space!Spec
=============================================================================
