---------------------------- MODULE PagingProofs ----------------------------
(***************************************************************************)
(* Proofs about Pmm and, on top of it, about Paging, for any memory layout *)
(* and table sizes that PmmAssumption and PagingAssumption allow.          *)
(***************************************************************************)
EXTENDS Paging, FiniteSetTheorems, WellFoundedInduction, TLAPS

(* The page allocator on its own.                                          *)

(* The scan of pmm_alloc finds the lowest free page when there is one.     *)
LEMMA LowestExists ==
  ASSUME NEW S, S \subseteq Nat, S # {}
  PROVE  \E p \in S : \A q \in S : p <= q
<1> DEFINE R == OpToRel(<, Nat)
<1>1. IsWellFoundedOn(R, Nat)
  BY NatLessThanWellFounded
<1>2. PICK p \in S : \A q \in S : ~ (<<q, p>> \in R)
  <2> HIDE DEF R
  <2> QED BY <1>1, WFMin, Zenon
<1>3. \A q \in S : ~ (q < p)
  <2> SUFFICES ASSUME NEW q \in S, q < p PROVE FALSE
    OBVIOUS
  <2>1. <<q, p>> \in Nat \X Nat
    OBVIOUS
  <2>2. <<q, p>> \in R
    BY <2>1 DEF OpToRel
  <2> QED BY <1>2, <2>2
<1> QED BY <1>3

LEMMA AllocFree ==
  ASSUME NEW map, ~ (Pages \subseteq map)
  PROVE  pmm_alloc(map) \in Pages \ map
<1> DEFINE S == Pages \ map
<1>1. S \subseteq Nat /\ S # {}
  BY PmmAssumption DEF Pages
<1>2. \E p \in S : \A q \in S : p <= q
  <2> HIDE DEF S
  <2> QED BY <1>1, LowestExists, Zenon
<1>3. pmm_alloc(map) = CHOOSE p \in S : \A q \in S : p <= q
  BY DEF pmm_alloc
<1>4. pmm_alloc(map) \in S
  <2> HIDE DEF S
  <2> QED BY <1>2, <1>3
<1> QED BY <1>4

ReservedKept == \A p \in Pages : p \notin ClearedByInit => p \in bitmap

PmmInv == PmmTypeOK /\ HeldOnce /\ ReservedKept

LEMMA ZeroReserved == 0 \in Pages /\ 0 \notin ClearedByInit
BY PmmAssumption DEF Pages, ClearedByInit

LEMMA InvInit == PmmInit => PmmInv
BY DEF PmmInit, PmmInv, PmmTypeOK, HeldOnce, ReservedKept

(* pmm_alloc and pmm_free keep the bitmap and the holders in step.         *)
LEMMA InvStep == PmmInv /\ [PmmNext]_pmmVars => PmmInv'
<1> SUFFICES ASSUME PmmInv, [PmmNext]_pmmVars PROVE PmmInv'
  OBVIOUS
<1>1. CASE PmmAlloc
  <2> DEFINE page == pmm_alloc(bitmap)
  <2>1. CASE page = 0
    BY <1>1, <2>1 DEF PmmAlloc, PmmInv, PmmTypeOK, HeldOnce, ReservedKept
  <2>2. CASE page # 0
    <3>1. page \in Pages \ bitmap
      BY <2>2, AllocFree DEF pmm_alloc
    <3>2. page \in ClearedByInit
      BY <3>1 DEF PmmInv, ReservedKept
    <3>3. /\ bitmap' = bitmap \cup {page}
          /\ holders' = [holders EXCEPT ![page] = @ + 1]
      BY <1>1, <2>2 DEF PmmAlloc, MarkUsed
    <3> HIDE DEF page
    <3>4. holders[page] = 0
      BY <3>1 DEF PmmInv, HeldOnce
    <3>5. PmmTypeOK' /\ ReservedKept'
      BY <3>1, <3>3 DEF PmmInv, PmmTypeOK, ReservedKept
    <3>6. HeldOnce'
      BY <3>1, <3>2, <3>3, <3>4 DEF PmmInv, PmmTypeOK, HeldOnce
    <3> QED BY <3>5, <3>6 DEF PmmInv
  <2> QED BY <2>1, <2>2
<1>2. CASE PmmFree
  <2> PICK page \in Pages :
         /\ page = 0 \/ holders[page] > 0
         /\ bitmap' = pmm_free(bitmap, page)
         /\ holders' = IF page = 0 THEN holders ELSE [holders EXCEPT ![page] = @ - 1]
    BY <1>2 DEF PmmFree, FreePage
  <2>1. CASE page = 0
    BY <2>1 DEF pmm_free, PmmInv, PmmTypeOK, HeldOnce, ReservedKept
  <2>2. CASE page # 0
    <3>1. bitmap' = bitmap \ {page} /\ holders' = [holders EXCEPT ![page] = @ - 1]
      BY <2>2, PmmAssumption DEF pmm_free, Pages
    <3>2. holders[page] = 1 /\ page \in ClearedByInit /\ page \in bitmap
      BY <2>2 DEF PmmInv, HeldOnce
    <3>3. PmmTypeOK' /\ ReservedKept'
      BY <3>1, <3>2 DEF PmmInv, PmmTypeOK, ReservedKept
    <3>4. HeldOnce'
      BY <3>1, <3>2 DEF PmmInv, PmmTypeOK, HeldOnce
    <3> QED BY <3>3, <3>4 DEF PmmInv
  <2> QED BY <2>1, <2>2
<1>3. CASE UNCHANGED pmmVars
  BY <1>3 DEF pmmVars, PmmInv, PmmTypeOK, HeldOnce, ReservedKept
<1> QED BY <1>1, <1>2, <1>3 DEF PmmNext

(* The bitmap and the holders agree for ever.                              *)
THEOREM PmmInvariant == PmmSpec => []PmmInv
BY InvInit, InvStep, PTL DEF PmmSpec

(* pmm_alloc and pmm_free never leave the bitmap's range.                  *)
THEOREM PmmTypeCorrect == PmmSpec => []PmmTypeOK
<1>1. PmmInv => PmmTypeOK BY DEF PmmInv
<1> QED BY <1>1, PmmInvariant, PTL

(* No page is ever handed to two holders or lost.                          *)
THEOREM PmmHeldOnce == PmmSpec => []HeldOnce
<1>1. PmmInv => HeldOnce BY DEF PmmInv
<1> QED BY <1>1, PmmInvariant, PTL

(* The ranges pmm_init keeps back are never handed out.                    *)
THEOREM PmmReserved == PmmSpec => []ReservedNeverHeld
<1>1. PmmInv => ReservedNeverHeld
  <2>1. \A p \in Pages : (\/ p < KEND_PAGE \/ p \in BIOS_LO .. BIOS_HI
                          \/ p \in KSTACK_PAGE .. USER_END_PAGE - 1)
                         => p \notin ClearedByInit
    BY PmmAssumption, SMT DEF Pages, ClearedByInit
  <2> QED BY <2>1 DEF PmmInv, HeldOnce, ReservedNeverHeld
<1> QED BY <1>1, PmmInvariant, PTL

(* 0 from pmm_alloc always means that memory is exhausted.                 *)
THEOREM PmmZeroMeansFull == PmmSpec => []ZeroMeansFull
<1>1. PmmInv => ZeroMeansFull
  <2> SUFFICES ASSUME PmmInv, pmm_alloc(bitmap) = 0, ~ (Pages \subseteq bitmap) PROVE FALSE
    BY DEF ZeroMeansFull
  <2>1. 0 \notin bitmap
    BY AllocFree
  <2> QED BY <2>1, ZeroReserved DEF PmmInv, ReservedKept
<1> QED BY <1>1, PmmInvariant, PTL
-----------------------------------------------------------------------------
(* Paging on top of it.                                                    *)

D == 0 .. PD_ENTRIES - 1
J == 0 .. PT_ENTRIES - 1
EntryT == [present : {0, 1}, writable : {0, 1}, user : {0, 1}, frame : Pages]

PagingTypes ==
  /\ kernel_page_directory \in Pages
  /\ directory \in [D -> EntryT]
  /\ tables \in [Pages -> [J -> EntryT]]
  /\ phase \in {"boot", "fill", "on"} /\ i \in 0 .. IDENTITY_MAP_ENTRIES
  /\ DOMAIN tlb = Virt /\ tlb = [v \in Virt |-> tlb[v]]

(* At boot there are pages enough for the directory and every table, the   *)
(* ranges not filled yet have none, and the TLB is empty.                  *)
Free == Pages \ bitmap
BootInv ==
  /\ phase = "boot" => i = 0 /\ Cardinality(Free) = Cardinality(ClearedByInit)
  /\ phase = "fill" => /\ Cardinality(Free) + i + 1 = Cardinality(ClearedByInit)
                       /\ \A d \in D : d >= i => directory[d].present = 0
  /\ phase # "on" => \A v \in Virt : tlb[v] = Fault

(* A page paging has from pmm_alloc; tables are owned and pairwise         *)
(* different, also from the directory.                                     *)
Owned(p) == p \in bitmap /\ p \in ClearedByInit
OwnInv ==
  phase # "boot" =>
    /\ Owned(kernel_page_directory)
    /\ \A d \in D : directory[d].present = 1 =>
         /\ Owned(directory[d].frame) /\ directory[d].frame # kernel_page_directory
         /\ \A e \in D : directory[e].present = 1 /\ e # d
                           => directory[e].frame # directory[d].frame

(* A user page lies in a range that is open to user mode, so opening a     *)
(* range changes no translation.                                           *)
UserInv ==
  phase # "boot" =>
    \A d \in D : directory[d].present = 1 =>
      \A j \in J : tables[directory[d].frame][j].user = 1 => directory[d].user = 1

(* paging_init maps every page to itself, ...                              *)
FillInv ==
  phase = "fill" =>
    \A p \in Pages : PD_INDEX(p) < i =>
      /\ directory[PD_INDEX(p)].present = 1
      /\ tables[directory[PD_INDEX(p)].frame][PT_INDEX(p)] = Entry(1, 1, 0, p)

(* ... and the pages pmm_alloc hands out keep that mapping, but for their  *)
(* PAGE_USER, which callers may set.                                       *)
SelfEntry(e, p) ==
  e.present = 1 /\ e.writable = 1 /\ e.frame = p /\ (e.user = 1 => p \in Virts)
IdInv ==
  phase = "on" =>
    \A p \in ClearedByInit :
      /\ directory[PD_INDEX(p)].present = 1
      /\ SelfEntry(tables[directory[PD_INDEX(p)].frame][PT_INDEX(p)], p)

PagingInv ==
  /\ PmmInv /\ PagingTypes /\ BootInv /\ OwnInv /\ UserInv /\ FillInv /\ IdInv
  /\ TlbCoherent
-----------------------------------------------------------------------------
(* Addresses split uniquely into a directory index and a table index.      *)
LEMMA DivRange ==
  ASSUME NEW v \in Nat, NEW m \in Nat, NEW n \in Nat \ {0}, v < m * n
  PROVE  v \div n \in 0 .. m - 1 /\ v % n \in 0 .. n - 1
<1>1. v \div n \in Nat /\ v % n \in 0 .. n - 1
  BY SMT
<1> DEFINE q == v \div n
<1>2. q \in Nat /\ n * q <= v
  BY <1>1, SMT
<1> HIDE DEF q
<1>3. ASSUME q >= m PROVE FALSE
  <2>1. n * q >= m * n
    BY <1>2, <1>3
  <2> QED BY <2>1, <1>2
<1>4. q < m
  BY <1>2, <1>3
<1> QED BY <1>1, <1>2, <1>4 DEF q

LEMMA DivInjective ==
  ASSUME NEW v \in Nat, NEW w \in Nat, NEW n \in Nat \ {0},
         v \div n = w \div n, v % n = w % n
  PROVE  v = w
BY SMTT(30)

LEMMA Index ==
  ASSUME NEW v \in Virt
  PROVE  v \in Nat /\ PD_INDEX(v) \in D /\ PT_INDEX(v) \in J
<1>1. v \in Nat /\ v < PD_ENTRIES * PT_ENTRIES
  BY PagingAssumption DEF Virt
<1> QED BY Zenon, <1>1, DivRange, PagingAssumption DEF PD_INDEX, PT_INDEX, D, J

LEMMA IndexInjective ==
  ASSUME NEW v \in Virt, NEW w \in Virt,
         PD_INDEX(v) = PD_INDEX(w), PT_INDEX(v) = PT_INDEX(w)
  PROVE  v = w
BY Index, DivInjective, PagingAssumption DEF PD_INDEX, PT_INDEX

(* All of memory is addressable and lies in the identity-mapped ranges.    *)
LEMMA PagesIndex ==
  ASSUME NEW p \in Pages
  PROVE  p \in Virt /\ PD_INDEX(p) < IDENTITY_MAP_ENTRIES
<1>1. p \in Nat /\ p < IDENTITY_MAP_ENTRIES * PT_ENTRIES
  BY PagingAssumption, PmmAssumption DEF Pages
<1>2. PD_INDEX(p) < IDENTITY_MAP_ENTRIES
  BY <1>1, DivRange, PagingAssumption DEF PD_INDEX
<1>3. IDENTITY_MAP_ENTRIES * PT_ENTRIES <= PD_ENTRIES * PT_ENTRIES
  BY PagingAssumption, SMT
<1>4. p < PD_ENTRIES * PT_ENTRIES
  BY <1>1, <1>3, PagingAssumption
<1> QED BY <1>1, <1>2, <1>4, PagingAssumption DEF Virt

LEMMA ClearedIsMemory == ClearedByInit \subseteq Pages
BY PmmAssumption DEF ClearedByInit, Pages

(* A page pmm_alloc returns was free, is one pmm_init released, and is     *)
(* used from then on; the other pages stay as they are.                    *)
LEMMA AllocPage ==
  ASSUME PmmInv, PmmAlloc, pmm_alloc(bitmap) # 0
  PROVE  LET page == pmm_alloc(bitmap)
         IN  page \in Free /\ page \in ClearedByInit /\ bitmap' = bitmap \cup {page}
<1> DEFINE page == pmm_alloc(bitmap)
<1>1. page \in Pages \ bitmap
  BY AllocFree DEF pmm_alloc
<1>2. page \in ClearedByInit
  BY <1>1 DEF PmmInv, ReservedKept
<1>3. bitmap' = bitmap \cup {page}
  BY DEF PmmAlloc, MarkUsed
<1> QED BY <1>1, <1>2, <1>3 DEF Free

LEMMA AllocNothing ==
  ASSUME PmmAlloc, pmm_alloc(bitmap) = 0
  PROVE  bitmap' = bitmap
BY DEF PmmAlloc

LEMMA AllocInv ==
  ASSUME PmmInv, PmmAlloc \/ UNCHANGED pmmVars
  PROVE  PmmInv'
BY InvStep DEF PmmNext

LEMMA FreeFinite == IsFiniteSet(Free)
<1>1. IsFiniteSet(Pages)
  BY FS_Interval, PmmAssumption DEF Pages
<1> QED BY <1>1, FS_Subset DEF Free

(* As long as a page is free pmm_alloc does not answer 0, and there is one *)
(* free page less afterwards.                                              *)
LEMMA AllocWhileFree ==
  ASSUME PmmInv, PmmAlloc, Cardinality(Free) # 0
  PROVE  pmm_alloc(bitmap) # 0 /\ Cardinality(Free') = Cardinality(Free) - 1
<1>1. Free # {}
  BY FS_EmptySet
<1>2. pmm_alloc(bitmap) \in Pages \ bitmap
  BY <1>1, AllocFree DEF Free
<1>3. pmm_alloc(bitmap) # 0
  BY <1>2, ZeroReserved DEF PmmInv, ReservedKept
<1>4. Free' = Free \ {pmm_alloc(bitmap)}
  BY <1>2, <1>3, AllocPage DEF Free
<1>5. Cardinality(Free \ {pmm_alloc(bitmap)}) = Cardinality(Free) - 1
  BY <1>2, FreeFinite, FS_RemoveElement DEF Free
<1> QED BY <1>3, <1>4, <1>5
-----------------------------------------------------------------------------
LEMMA PagingInitInv == Init => PagingInv
<1> SUFFICES ASSUME Init PROVE PagingInv
  OBVIOUS
<1>1. PmmInv
  BY InvInit DEF Init
<1>2. Garbage \in EntryT
  BY ZeroReserved DEF Garbage, Entry, EntryT
<1>3. PagingTypes
  BY <1>2, ZeroReserved, PagingAssumption DEF Init, PagingTypes, D, J
<1>4. Free = ClearedByInit
  BY ClearedIsMemory DEF Init, PmmInit, Free
<1>5. BootInv
  BY <1>4 DEF Init, BootInv
<1>6. OwnInv /\ UserInv /\ FillInv /\ IdInv
  BY DEF Init, OwnInv, UserInv, FillInv, IdInv
<1>7. TlbCoherent
  BY PagingAssumption DEF Init, TlbCoherent
<1> QED BY <1>1, <1>3, <1>5, <1>6, <1>7 DEF PagingInv

(* The directory's page comes from pmm_alloc and is empty.                 *)
LEMMA AllocDirectoryInv == PagingInv /\ AllocDirectory => PagingInv'
<1> SUFFICES ASSUME PagingInv, AllocDirectory PROVE PagingInv'
  OBVIOUS
<1> USE DEF PagingInv
<1>0. /\ phase = "boot" /\ phase' = "fill" /\ PmmAlloc
      /\ kernel_page_directory' = pmm_alloc(bitmap)
      /\ directory' = [d \in D |-> ZeroEntry]
      /\ tables' = tables /\ i' = i /\ tlb' = tlb
  BY DEF AllocDirectory, D
<1>1. PmmInv'
  BY <1>0, AllocInv
<1>2. Cardinality(Free) = Cardinality(ClearedByInit) /\ i = 0
  BY <1>0 DEF BootInv
<1>3. Cardinality(Free) \in Nat
  BY FreeFinite, FS_CardinalityType
<1>4. pmm_alloc(bitmap) # 0 /\ Cardinality(Free') = Cardinality(Free) - 1
  BY <1>0, <1>2, <1>3, AllocWhileFree, PagingAssumption
<1>5. Owned(kernel_page_directory)' /\ kernel_page_directory' \in Pages
  BY <1>0, <1>4, AllocPage DEF Owned, Free
<1>6. ZeroEntry \in EntryT /\ ZeroEntry.present = 0
  BY ZeroReserved DEF ZeroEntry, Entry, EntryT
<1>7. PagingTypes'
  BY <1>0, <1>5, <1>6 DEF PagingTypes
<1>8. \A d \in D : directory'[d].present = 0
  BY <1>0, <1>6
<1>9. BootInv'
  BY <1>0, <1>2, <1>3, <1>4, <1>8, PagingAssumption DEF BootInv
<1>10. OwnInv' /\ UserInv'
  BY <1>5, <1>8 DEF OwnInv, UserInv
<1>11. FillInv' /\ IdInv'
  <2>1. \A p \in Pages : ~ (PD_INDEX(p) < 0)
    BY PagesIndex, Index DEF D
  <2> QED BY <1>0, <1>2, <2>1 DEF FillInv, IdInv
<1>12. TlbCoherent'
  BY <1>0, PagingAssumption DEF BootInv, TlbCoherent
<1> QED BY <1>1, <1>7, <1>9, <1>10, <1>11, <1>12

(* A turn of the loop gives range i a new page, which no entry points to   *)
(* yet, and fills it with the identity.                                    *)
LEMMA FillTableInv == PagingInv /\ FillTable => PagingInv'
<1> SUFFICES ASSUME PagingInv, FillTable PROVE PagingInv'
  OBVIOUS
<1> USE DEF PagingInv
<1> DEFINE pt == pmm_alloc(bitmap)
           table == [j \in J |-> Entry(1, 1, 0, IdentityFrame(i, j))]
<1>0. /\ phase = "fill" /\ phase' = "fill" /\ i < IDENTITY_MAP_ENTRIES /\ i' = i + 1
      /\ PmmAlloc
      /\ tables' = [tables EXCEPT ![pt] = table]
      /\ directory' = [directory EXCEPT ![i] = Entry(1, 1, 0, pt)]
      /\ kernel_page_directory' = kernel_page_directory /\ tlb' = tlb
  BY DEF FillTable, MoreTables, J
<1>a. i \in D /\ i \in Nat /\ i + 1 \in 0 .. IDENTITY_MAP_ENTRIES
  BY <1>0, PagingAssumption DEF PagingTypes, D
<1>1. PmmInv'
  BY <1>0, AllocInv
<1>2. Cardinality(Free) + i + 1 = Cardinality(ClearedByInit)
  BY <1>0 DEF BootInv
<1>3. Cardinality(Free) \in Nat
  BY FreeFinite, FS_CardinalityType
<1>4. pt # 0 /\ Cardinality(Free') = Cardinality(Free) - 1
  BY <1>0, <1>a, <1>2, <1>3, AllocWhileFree, PagingAssumption
<1>5. pt \in Pages /\ pt \notin bitmap /\ pt \in ClearedByInit /\ bitmap' = bitmap \cup {pt}
  BY <1>0, <1>4, AllocPage DEF Free
<1> HIDE DEF pt
<1>6. \A j \in J : IdentityFrame(i, j) \in Pages
  <2> SUFFICES ASSUME NEW j \in J PROVE IdentityFrame(i, j) \in Pages
    OBVIOUS
  <2>1. j \in Nat /\ j < PT_ENTRIES
    BY PagingAssumption DEF J
  <2>2. (i + 1) * PT_ENTRIES <= IDENTITY_MAP_ENTRIES * PT_ENTRIES
    BY <1>a, PagingAssumption, SMT
  <2>3. (i + 1) * PT_ENTRIES = i * PT_ENTRIES + PT_ENTRIES /\ i * PT_ENTRIES \in Nat
    BY <1>a, PagingAssumption, SMT
  <2>4. i * PT_ENTRIES + j < TOTAL_PAGES
    BY <2>1, <2>2, <2>3, PagingAssumption, PmmAssumption
  <2> QED BY <2>1, <2>3, <2>4, PmmAssumption DEF IdentityFrame, Pages
<1>7. table \in [J -> EntryT] /\ Entry(1, 1, 0, pt) \in EntryT
  BY <1>5, <1>6 DEF Entry, EntryT
<1>8. /\ tables'[pt] = table
      /\ \A p \in Pages : p # pt => tables'[p] = tables[p]
      /\ directory'[i] = Entry(1, 1, 0, pt)
      /\ \A d \in D : d # i => directory'[d] = directory[d]
  BY <1>0, <1>a, <1>5 DEF PagingTypes
<1>9. PagingTypes'
  BY <1>0, <1>a, <1>5, <1>7 DEF PagingTypes
<1>10. \A d \in D : d >= i + 1 => directory'[d].present = 0
  BY <1>0, <1>8, <1>a DEF BootInv, D
<1>11. BootInv'
  BY <1>0, <1>2, <1>3, <1>4, <1>a, <1>10 DEF BootInv
<1> HIDE DEF table
<1>12. directory'[i].present = 1 /\ directory'[i].frame = pt
  BY <1>8 DEF Entry
<1>13. OwnInv'
  <2> DEFINE Mine(p) == p \in bitmap' /\ p \in ClearedByInit
  <2>1. Mine(kernel_page_directory) /\ Mine(pt) /\ kernel_page_directory # pt
    BY <1>0, <1>5 DEF OwnInv, Owned
  <2>2. ASSUME NEW d \in D, directory'[d].present = 1, d # i
        PROVE  /\ directory'[d] = directory[d] /\ directory[d].present = 1
               /\ Mine(directory[d].frame) /\ directory[d].frame # kernel_page_directory
               /\ directory[d].frame # pt
    BY <1>0, <1>5, <1>8, <2>2 DEF OwnInv, Owned
  <2>3. ASSUME NEW d \in D, directory'[d].present = 1
        PROVE  /\ Mine(directory'[d].frame)
               /\ directory'[d].frame # kernel_page_directory
    BY <1>12, <2>1, <2>2, <2>3
  <2>4. ASSUME NEW d \in D, NEW e \in D, directory'[d].present = 1,
               directory'[e].present = 1, e # d
        PROVE  directory'[e].frame # directory'[d].frame
    <3>1. CASE d = i
      BY <1>12, <2>2, <2>4, <3>1
    <3>2. CASE e = i
      BY <1>12, <2>2, <2>4, <3>2
    <3>3. CASE d # i /\ e # i
      BY <1>0, <2>2, <2>4, <3>3 DEF OwnInv
    <3> QED BY <3>1, <3>2, <3>3
  <2> QED BY <1>0, <2>1, <2>3, <2>4 DEF OwnInv, Owned
<1>14. ASSUME NEW d \in D, directory'[d].present = 1, d # i
       PROVE  /\ directory'[d] = directory[d] /\ directory[d].present = 1
              /\ tables'[directory[d].frame] = tables[directory[d].frame]
  <2>1. directory'[d] = directory[d] /\ directory[d].present = 1
    BY <1>8, <1>14
  <2>2. directory[d].frame \in bitmap /\ directory[d].frame \in Pages
    BY <1>0, <2>1, ClearedIsMemory DEF OwnInv, Owned
  <2> QED BY <2>1, <2>2, <1>5, <1>8
<1>15. UserInv'
  <2>1. \A j \in J : table[j].user = 0
    BY DEF table, Entry
  <2>2. ASSUME NEW d \in D, directory'[d].present = 1, NEW j \in J,
               tables'[directory'[d].frame][j].user = 1
        PROVE  directory'[d].user = 1
    <3>1. CASE d = i
      BY <1>8, <1>12, <2>1, <2>2, <3>1
    <3>2. CASE d # i
      BY <1>0, <1>14, <2>2, <3>2 DEF UserInv
    <3> QED BY <3>1, <3>2
  <2> QED BY <2>2 DEF UserInv
<1>16. FillInv' /\ IdInv'
  <2> SUFFICES ASSUME NEW p \in Pages, PD_INDEX(p) < i + 1
               PROVE  /\ directory'[PD_INDEX(p)].present = 1
                      /\ tables'[directory'[PD_INDEX(p)].frame][PT_INDEX(p)] = Entry(1, 1, 0, p)
    BY <1>0 DEF FillInv, IdInv
  <2>1. p \in Nat /\ PD_INDEX(p) \in D /\ PT_INDEX(p) \in J
    BY PagesIndex, Index
  <2>2. CASE PD_INDEX(p) = i
    <3>1. IdentityFrame(i, PT_INDEX(p)) = p
      <4>1. p = (p \div PT_ENTRIES) * PT_ENTRIES + (p % PT_ENTRIES)
        BY <2>1, PagingAssumption, SMTT(30)
      <4> QED BY <2>2, <4>1 DEF IdentityFrame, PD_INDEX, PT_INDEX
    <3>2. table[PT_INDEX(p)] = Entry(1, 1, 0, p)
      BY <2>1, <3>1 DEF table
    <3> QED BY <1>8, <1>12, <2>2, <3>2
  <2>3. CASE PD_INDEX(p) # i
    <3>1. PD_INDEX(p) < i
      BY <1>a, <2>1, <2>3 DEF D
    <3>2. /\ directory[PD_INDEX(p)].present = 1
          /\ tables[directory[PD_INDEX(p)].frame][PT_INDEX(p)] = Entry(1, 1, 0, p)
      BY <1>0, <3>1 DEF FillInv
    <3> QED BY <1>8, <1>14, <2>1, <2>3, <3>2
  <2> QED BY <2>2, <2>3
<1>17. TlbCoherent'
  BY <1>0, PagingAssumption DEF BootInv, TlbCoherent
<1> QED BY <1>1, <1>9, <1>11, <1>13, <1>15, <1>16, <1>17

(* CR3 is loaded once every range of memory has its table.                 *)
LEMMA EnablePagingInv == PagingInv /\ EnablePaging => PagingInv'
<1> SUFFICES ASSUME PagingInv, EnablePaging PROVE PagingInv'
  OBVIOUS
<1> USE DEF PagingInv
<1>0. /\ phase = "fill" /\ phase' = "on" /\ ~ (i < IDENTITY_MAP_ENTRIES)
      /\ UNCHANGED <<bitmap, holders, kernel_page_directory, directory, tables, i, tlb>>
  BY DEF EnablePaging, MoreTables
<1>1. PmmInv'
  BY <1>0, AllocInv DEF pmmVars
<1>2. PagingTypes' /\ BootInv' /\ OwnInv' /\ UserInv'
  BY <1>0 DEF PagingTypes, BootInv, OwnInv, UserInv, Owned
<1>3. FillInv' /\ IdInv'
  <2>1. \A p \in ClearedByInit : PD_INDEX(p) < i
    BY <1>0, ClearedIsMemory, PagesIndex, Index, PagingAssumption DEF PagingTypes, D
  <2>2. \A p \in ClearedByInit :
          /\ directory[PD_INDEX(p)].present = 1
          /\ tables[directory[PD_INDEX(p)].frame][PT_INDEX(p)] = Entry(1, 1, 0, p)
    BY <1>0, <2>1, ClearedIsMemory DEF FillInv
  <2>3. \A p : SelfEntry(Entry(1, 1, 0, p), p)
    BY DEF SelfEntry, Entry
  <2> QED BY <1>0, <2>2, <2>3 DEF FillInv, IdInv
<1>4. TlbCoherent'
  BY <1>0, PagingAssumption DEF BootInv, TlbCoherent
<1> QED BY <1>1, <1>2, <1>3, <1>4

(* Other subsystems take pages that paging does not own.                   *)
LEMMA OtherAllocInv == PagingInv /\ OtherAlloc => PagingInv'
<1> SUFFICES ASSUME PagingInv, OtherAlloc PROVE PagingInv'
  OBVIOUS
<1> USE DEF PagingInv
<1>0. /\ phase = "on" /\ PmmAlloc
      /\ UNCHANGED <<kernel_page_directory, directory, tables, phase, i, tlb>>
  BY DEF OtherAlloc
<1>1. PmmInv'
  BY <1>0, AllocInv
<1>2. bitmap \subseteq bitmap'
  BY <1>0, AllocPage, AllocNothing, SMTT(30)
<1>3. PagingTypes' /\ BootInv' /\ UserInv' /\ FillInv' /\ IdInv'
  BY <1>0 DEF PagingTypes, BootInv, UserInv, FillInv, IdInv
<1>4. OwnInv'
  BY <1>0, <1>2 DEF OwnInv, Owned
<1>5. TlbCoherent'
  BY <1>0, Zenon DEF TlbCoherent, Translate
<1> QED BY <1>1, <1>3, <1>4, <1>5

(* The CPU caches what the tables say.                                     *)
LEMMA AccessInv == ASSUME PagingInv, NEW v \in Virts, Access(v) PROVE PagingInv'
<1> USE DEF PagingInv
<1>0. /\ phase = "on" /\ tlb' = [tlb EXCEPT ![v] = Translate(v)]
      /\ UNCHANGED <<bitmap, holders, kernel_page_directory, directory, tables, phase, i>>
  BY DEF Access
<1>1. PmmInv'
  BY <1>0, AllocInv, SMTT(30) DEF pmmVars
<1>2. BootInv' /\ OwnInv' /\ UserInv' /\ FillInv' /\ IdInv'
  BY <1>0 DEF BootInv, OwnInv, UserInv, FillInv, IdInv, Owned
<1>3. PagingTypes'
  BY Zenon, <1>0 DEF PagingTypes
<1>4. TlbCoherent'
  <2>1. \A w \in Virts : Translate(w)' = Translate(w)
    BY <1>0 DEF Translate
  <2>2. \A w \in Virts : tlb'[w] = IF w = v THEN Translate(v) ELSE tlb[w]
    BY <1>0, PagingAssumption, SMTT(30) DEF PagingTypes
  <2> QED BY <2>1, <2>2 DEF TlbCoherent
<1> QED BY <1>1, <1>2, <1>3, <1>4
-----------------------------------------------------------------------------
(* What paging_map and paging_unmap do to a range that has a table: entry  *)
(* e is written for page v, whose translation leaves the TLB, and the      *)
(* range may be opened to user mode (u).                                   *)
WritesEntry(v, e, u) ==
  LET d == PD_INDEX(v)
      f == directory[d].frame
  IN  /\ directory[d].present = 1
      /\ directory[d].user = 1 \/ e.user = 1 => u = 1
      /\ tables' = [tables EXCEPT ![f] = [tables[f] EXCEPT ![PT_INDEX(v)] = e]]
      /\ directory' = [directory EXCEPT ![d] = [directory[d] EXCEPT !.user = u]]
      /\ tlb' = [tlb EXCEPT ![v] = Fault]
      /\ UNCHANGED <<bitmap, holders, kernel_page_directory, phase, i>>

LEMMA WritesEntryTranslates ==
  ASSUME PagingInv, phase = "on", NEW v \in Virts, NEW e \in EntryT, NEW u \in {0, 1},
         WritesEntry(v, e, u)
  PROVE  /\ \A w \in Virt : w # v => Translate(w)' = Translate(w)
         /\ Translate(v)' = IF e.present = 0 THEN Fault
                            ELSE [frame |-> e.frame, writable |-> e.writable, user |-> e.user]
<1> USE DEF PagingInv
<1> DEFINE d == PD_INDEX(v)
           k == PT_INDEX(v)
           f == directory[d].frame
<1>0. /\ directory[d].present = 1
      /\ directory[d].user = 1 \/ e.user = 1 => u = 1
      /\ tables' = [tables EXCEPT ![f] = [tables[f] EXCEPT ![k] = e]]
      /\ directory' = [directory EXCEPT ![d] = [directory[d] EXCEPT !.user = u]]
  BY DEF WritesEntry
<1>1. v \in Virt /\ d \in D /\ k \in J
  BY Index, PagingAssumption
<1> HIDE DEF d, k
<1>2. f \in Pages /\ directory[d] \in EntryT
  BY <1>1 DEF PagingTypes, EntryT
<1> HIDE DEF f
<1>3. \A c \in D : /\ directory'[c].present = directory[c].present
                   /\ directory'[c].frame = directory[c].frame
                   /\ c # d => directory'[c].user = directory[c].user
  BY <1>0, <1>1, <1>2 DEF PagingTypes, EntryT
<1>4. directory'[d].user = u
  BY <1>0, <1>1, <1>2 DEF PagingTypes, EntryT
<1>5. \A p \in Pages, j \in J :
        tables'[p][j] = IF p = f /\ j = k THEN e ELSE tables[p][j]
  BY <1>0, <1>1, <1>2 DEF PagingTypes
<1>6. \A c \in D : directory[c].present = 1 /\ c # d
                   => directory[c].frame # f /\ directory[c].frame \in Pages
  BY <1>0, <1>1, ClearedIsMemory, SMTT(30) DEF OwnInv, Owned, f
<1>7. ASSUME NEW w \in Virt, w # v PROVE Translate(w)' = Translate(w)
  <2> DEFINE c == PD_INDEX(w)
             j == PT_INDEX(w)
             pte == tables[directory[c].frame][j]
             new == tables'[directory[c].frame][j]
  <2>1. c \in D /\ j \in J
    BY Index
  <2>2. c # d \/ j # k
    BY <1>1, <1>7, IndexInjective, SMTT(30) DEF d, k
  <2>3. directory[c].present = 1 => new = pte
    BY <1>2, <1>5, <1>6, <2>1, <2>2 DEF f
  <2>4. Translate(w) = IF directory[c].present = 0 \/ pte.present = 0 THEN Fault
                       ELSE [frame |-> pte.frame, writable |-> pte.writable,
                             user |-> directory[c].user * pte.user]
    BY Zenon DEF Translate, Walk
  <2>5. Translate(w)' = IF directory[c].present = 0 \/ new.present = 0 THEN Fault
                        ELSE [frame |-> new.frame, writable |-> new.writable,
                              user |-> directory'[c].user * new.user]
    <3>1. directory'[c].present = directory[c].present /\ directory'[c].frame = directory[c].frame
      BY <1>3, <2>1
    <3> QED BY <3>1, Zenon DEF Translate, Walk
  <2>6. directory[c] \in EntryT
    BY <2>1 DEF PagingTypes
  <2>7. pte \in EntryT
    BY <2>1, <2>6, SMTT(30) DEF PagingTypes, EntryT
  <2>8. /\ pte.user \in {0, 1} /\ directory[c].user \in {0, 1} /\ directory'[c].user \in {0, 1}
        /\ directory[c].present \in {0, 1}
    BY <1>3, <1>4, <2>1, <2>6, <2>7 DEF EntryT
  <2>9. directory[c].present = 1 /\ pte.user = 1 => directory[c].user = 1 /\ directory'[c].user = 1
    <3>1. directory[c].present = 1 /\ pte.user = 1 => directory[c].user = 1
      BY <2>1 DEF UserInv
    <3> QED BY <1>0, <1>3, <1>4, <2>1, <3>1
  <2> HIDE DEF c, pte, new
  <2>10. directory[c].present = 1 => directory'[c].user * pte.user = directory[c].user * pte.user
    BY <2>8, <2>9
  <2> QED BY <2>3, <2>4, <2>5, <2>8, <2>10
<1>8. Translate(v)' = IF e.present = 0 THEN Fault
                      ELSE [frame |-> e.frame, writable |-> e.writable, user |-> u * e.user]
  <2>1. tables'[f][k] = e
    BY <1>1, <1>2, <1>5
  <2>2. directory'[d].present = 1 /\ directory'[d].frame = f
    BY <1>0, <1>1, <1>3 DEF f
  <2>3. Translate(v)' = IF directory'[d].present = 0 \/ e.present = 0 THEN Fault
                        ELSE [frame |-> e.frame, writable |-> e.writable,
                              user |-> directory'[d].user * e.user]
    BY <2>1, <2>2, Zenon DEF Translate, Walk, d, k
  <2> QED BY <1>4, <2>2, <2>3
<1>9. u * e.user = e.user
  <2>1. e.user \in {0, 1}
    BY DEF EntryT
  <2> QED BY <1>0, <2>1
<1> QED BY <1>7, <1>8, <1>9

LEMMA WritesEntryInv ==
  ASSUME PagingInv, phase = "on", NEW v \in Virts, NEW e \in EntryT, NEW u \in {0, 1},
         WritesEntry(v, e, u), v \in ClearedByInit => SelfEntry(e, v)
  PROVE  PagingInv'
<1> USE DEF PagingInv
<1> DEFINE d == PD_INDEX(v)
           k == PT_INDEX(v)
           f == directory[d].frame
<1>0. /\ directory[d].present = 1
      /\ directory[d].user = 1 \/ e.user = 1 => u = 1
      /\ tables' = [tables EXCEPT ![f] = [tables[f] EXCEPT ![k] = e]]
      /\ directory' = [directory EXCEPT ![d] = [directory[d] EXCEPT !.user = u]]
      /\ tlb' = [tlb EXCEPT ![v] = Fault]
      /\ UNCHANGED <<bitmap, holders, kernel_page_directory, phase, i>>
  BY DEF WritesEntry
<1>1. v \in Virt /\ d \in D /\ k \in J
  BY Index, PagingAssumption
<1> HIDE DEF d, k
<1>2. f \in Pages /\ directory[d] \in EntryT
  BY <1>1 DEF PagingTypes, EntryT
<1> HIDE DEF f
<1>3. [directory[d] EXCEPT !.user = u] \in EntryT
  BY <1>2 DEF EntryT
<1>4. [tables[f] EXCEPT ![k] = e] \in [J -> EntryT]
  BY <1>1, <1>2 DEF PagingTypes
<1>5. PagingTypes'
  BY Zenon, <1>0, <1>1, <1>2, <1>3, <1>4 DEF PagingTypes
<1>6. \A c \in D : /\ directory'[c].present = directory[c].present
                   /\ directory'[c].frame = directory[c].frame
                   /\ c # d => directory'[c].user = directory[c].user
  BY <1>0, <1>1, <1>2 DEF PagingTypes, EntryT
<1>7. directory'[d].user = u
  BY <1>0, <1>1, <1>2 DEF PagingTypes, EntryT
<1>8. \A p \in Pages, j \in J :
        tables'[p][j] = IF p = f /\ j = k THEN e ELSE tables[p][j]
  BY <1>0, <1>1, <1>2 DEF PagingTypes
<1>9. \A c \in D : directory[c].present = 1 /\ c # d
                   => directory[c].frame # f /\ directory[c].frame \in Pages
  BY <1>0, <1>1, ClearedIsMemory DEF OwnInv, Owned, f
<1>10. PmmInv'
  BY <1>0, AllocInv DEF pmmVars
<1>11. BootInv'
  BY <1>0 DEF BootInv
<1>12. OwnInv'
  <2>1. \A p : Owned(p)' <=> Owned(p)
    BY <1>0 DEF Owned
  <2> QED BY <1>0, <1>6 DEF OwnInv, Owned
<1>13. ASSUME NEW c \in D, directory[c].present = 1, NEW j \in J, c # d \/ j # k
       PROVE  tables'[directory[c].frame][j] = tables[directory[c].frame][j]
  BY <1>2, <1>8, <1>9, <1>13, SMTT(30) DEF f
<1>14. UserInv'
  <2>1. ASSUME NEW c \in D, directory'[c].present = 1, NEW j \in J,
               tables'[directory'[c].frame][j].user = 1
        PROVE  directory'[c].user = 1
    <3>1. directory[c].present = 1 /\ directory'[c].frame = directory[c].frame
      BY <1>6, <2>1, SMTT(30)
    <3>2. CASE c # d
      BY <1>6, <1>13, <2>1, <3>1, <3>2 DEF UserInv
    <3>3. CASE c = d /\ j # k
      <4>1. directory[d].user = 1
        BY <1>13, <2>1, <3>1, <3>3 DEF UserInv
      <4> QED BY <1>0, <1>7, <3>3, <4>1, SMTT(30)
    <3>4. CASE c = d /\ j = k
      <4>1. e.user = 1
        BY <1>2, <1>8, <2>1, <3>1, <3>4 DEF f
      <4> QED BY <1>0, <1>7, <3>4, <4>1
    <3> QED BY <3>2, <3>3, <3>4
  <2> QED BY <2>1 DEF UserInv
<1>15. ASSUME NEW w \in Virt, w # v PROVE PD_INDEX(w) # d \/ PT_INDEX(w) # k
  BY <1>1, <1>15, IndexInjective DEF d, k
<1>16. IdInv'
  <2> SUFFICES ASSUME NEW p \in ClearedByInit
               PROVE  /\ directory'[PD_INDEX(p)].present = 1
                      /\ SelfEntry(tables'[directory'[PD_INDEX(p)].frame][PT_INDEX(p)], p)
    BY <1>0, Zenon DEF IdInv, SelfEntry
  <2>1. p \in Virt /\ PD_INDEX(p) \in D /\ PT_INDEX(p) \in J
    BY ClearedIsMemory, PagesIndex, Index, PagingAssumption
  <2>2. /\ directory[PD_INDEX(p)].present = 1
        /\ SelfEntry(tables[directory[PD_INDEX(p)].frame][PT_INDEX(p)], p)
    BY DEF IdInv
  <2>3. /\ directory'[PD_INDEX(p)].present = 1
        /\ directory'[PD_INDEX(p)].frame = directory[PD_INDEX(p)].frame
    BY <1>6, <2>1, <2>2
  <2>4. CASE p # v
    <3>1. PD_INDEX(p) # d \/ PT_INDEX(p) # k
      BY <1>15, <2>1, <2>4, SMTT(30)
    <3>2. tables'[directory[PD_INDEX(p)].frame][PT_INDEX(p)]
            = tables[directory[PD_INDEX(p)].frame][PT_INDEX(p)]
      BY <1>13, <2>1, <2>2, <3>1
    <3> QED BY <2>2, <2>3, <3>2, Zenon
  <2>5. CASE p = v
    <3>1. tables'[directory[PD_INDEX(p)].frame][PT_INDEX(p)] = e
      BY <1>1, <1>2, <1>8, <2>5 DEF d, k, f
    <3> QED BY <2>3, <2>5, <3>1, Zenon
  <2> QED BY <2>4, <2>5
<1>18. FillInv'
  BY <1>0 DEF FillInv
<1>17. TlbCoherent'
  <2> SUFFICES ASSUME NEW w \in Virts, tlb'[w] # Fault PROVE tlb'[w] = Translate(w)'
    BY DEF TlbCoherent
  <2>1. w \in Virt /\ PD_INDEX(w) \in D /\ PT_INDEX(w) \in J
    BY Index, PagingAssumption
  <2>2. w # v /\ tlb'[w] = tlb[w]
    BY <1>0, <1>1, <2>1, SMTT(30) DEF PagingTypes
  <2>3. Translate(w)' = Translate(w)
    BY <2>1, <2>2, WritesEntryTranslates, SMTT(30)
  <2> QED BY <2>2, <2>3 DEF TlbCoherent
<1> QED BY <1>5, <1>10, <1>11, <1>12, <1>14, <1>16, <1>17, <1>18

(* A range that had no table gets a page nobody owns, zeroed but for the   *)
(* one entry; no translation of the range was cached.                      *)
AddsTable(v, e, u, pt) ==
  LET d == PD_INDEX(v)
  IN  /\ directory[d].present = 0 /\ (e.user = 1 => u = 1)
      /\ pt \in Free /\ pt \in ClearedByInit /\ bitmap' = bitmap \cup {pt}
      /\ tables' = [tables EXCEPT ![pt] = [[j \in J |-> ZeroEntry] EXCEPT ![PT_INDEX(v)] = e]]
      /\ directory' = [directory EXCEPT ![d] = Entry(1, 1, u, pt)]
      /\ tlb' = [tlb EXCEPT ![v] = Fault]
      /\ UNCHANGED <<kernel_page_directory, phase, i>>

LEMMA AddsTableTranslates ==
  ASSUME PagingInv, phase = "on", NEW v \in Virts, NEW e \in EntryT,
         NEW u \in {0, 1}, NEW pt, AddsTable(v, e, u, pt)
  PROVE  /\ \A w \in Virt : w # v => Translate(w)' = Translate(w)
         /\ Translate(v)' = IF e.present = 0 THEN Fault
                            ELSE [frame |-> e.frame, writable |-> e.writable, user |-> e.user]
<1> USE DEF PagingInv
<1> DEFINE d == PD_INDEX(v)
           k == PT_INDEX(v)
           table == [[j \in J |-> ZeroEntry] EXCEPT ![k] = e]
<1>0. /\ directory[d].present = 0 /\ (e.user = 1 => u = 1)
      /\ pt \in Pages /\ pt \notin bitmap
      /\ tables' = [tables EXCEPT ![pt] = table]
      /\ directory' = [directory EXCEPT ![d] = Entry(1, 1, u, pt)]
  BY DEF AddsTable, Free
<1>1. v \in Virt /\ d \in D /\ k \in J
  BY Index, PagingAssumption
<1> HIDE DEF d, k
<1>2. table[k] = e /\ \A j \in J : j # k => table[j].present = 0
  BY <1>1 DEF ZeroEntry, Entry
<1> HIDE DEF table
<1>3. /\ directory'[d].present = 1 /\ directory'[d].frame = pt /\ directory'[d].user = u
      /\ \A c \in D : c # d => directory'[c] = directory[c]
  BY <1>0, <1>1 DEF PagingTypes, Entry
<1>4. tables'[pt] = table /\ \A p \in Pages : p # pt => tables'[p] = tables[p]
  BY <1>0 DEF PagingTypes
<1>5. ASSUME NEW w \in Virt, w # v PROVE Translate(w)' = Translate(w)
  <2> DEFINE c == PD_INDEX(w)
             j == PT_INDEX(w)
  <2>1. c \in D /\ j \in J /\ (c # d \/ j # k)
    BY <1>1, <1>5, Index, IndexInjective DEF d, k
  <2>2. directory[c].present \in {0, 1}
    BY <2>1 DEF PagingTypes, EntryT
  <2>3. directory[c].present = 0 => Translate(w) = Fault
    BY Zenon DEF Translate, Walk
  <2>4. CASE c = d
    <3>1. tables'[directory'[c].frame][j].present = 0
      BY <1>2, <1>3, <1>4, <2>1, <2>4
    <3>2. Translate(w)' = Fault
      BY <3>1, Zenon DEF Translate, Walk
    <3> QED BY <1>0, <2>3, <2>4, <3>2, SMTT(30)
  <2>5. CASE c # d /\ directory[c].present = 0
    <3>1. directory'[c].present = 0
      BY <1>3, <2>1, <2>5
    <3>2. Translate(w)' = Fault
      BY <3>1, Zenon DEF Translate, Walk
    <3> QED BY <2>3, <2>5, <3>2
  <2>6. CASE c # d /\ directory[c].present = 1
    <3>1. directory'[c] = directory[c]
      BY <1>3, <2>1, <2>6, SMTT(30)
    <3>2. directory[c].frame \in Pages /\ directory[c].frame # pt
      BY <1>0, <2>1, <2>6, ClearedIsMemory, SMTT(30) DEF OwnInv, Owned
    <3>3. tables'[directory[c].frame] = tables[directory[c].frame]
      BY <1>4, <3>2, SMTT(30)
    <3> QED BY <3>1, <3>3 DEF Translate, Walk
  <2> QED BY <2>2, <2>4, <2>5, <2>6
<1>6. Translate(v)' = IF e.present = 0 THEN Fault
                      ELSE [frame |-> e.frame, writable |-> e.writable, user |-> u * e.user]
  <2>1. tables'[directory'[d].frame][k] = e
    BY <1>2, <1>3, <1>4
  <2>2. Translate(v)' = IF directory'[d].present = 0 \/ e.present = 0 THEN Fault
                        ELSE [frame |-> e.frame, writable |-> e.writable,
                              user |-> directory'[d].user * e.user]
    BY <2>1, Zenon DEF Translate, Walk, d, k
  <2> QED BY <1>3, <2>2, SMTT(30)
<1>7. u * e.user = e.user
  <2>1. e.user \in {0, 1}
    BY DEF EntryT
  <2> QED BY <1>0, <2>1
<1> QED BY <1>5, <1>6, <1>7

LEMMA AddsTableInv ==
  ASSUME PagingInv, PmmInv', phase = "on", NEW v \in Virts, NEW e \in EntryT,
         NEW u \in {0, 1}, NEW pt, AddsTable(v, e, u, pt)
  PROVE  PagingInv'
<1> USE DEF PagingInv
<1> DEFINE d == PD_INDEX(v)
           k == PT_INDEX(v)
           table == [[j \in J |-> ZeroEntry] EXCEPT ![k] = e]
<1>0. /\ directory[d].present = 0 /\ (e.user = 1 => u = 1)
      /\ pt \in Pages /\ pt \notin bitmap /\ pt \in ClearedByInit
      /\ bitmap' = bitmap \cup {pt}
      /\ tables' = [tables EXCEPT ![pt] = table]
      /\ directory' = [directory EXCEPT ![d] = Entry(1, 1, u, pt)]
      /\ tlb' = [tlb EXCEPT ![v] = Fault]
      /\ UNCHANGED <<kernel_page_directory, phase, i>>
  BY DEF AddsTable, Free
<1>1. v \in Virt /\ d \in D /\ k \in J
  BY Index, PagingAssumption
<1> HIDE DEF d, k
<1>2. ZeroEntry \in EntryT /\ ZeroEntry.user = 0 /\ Entry(1, 1, u, pt) \in EntryT
  BY <1>0, ZeroReserved DEF ZeroEntry, Entry, EntryT
<1>3. table \in [J -> EntryT] /\ \A j \in J : table[j].user = 1 => u = 1
  BY <1>0, <1>1, <1>2
<1> HIDE DEF table
<1>4. PagingTypes'
  BY Zenon, <1>0, <1>1, <1>2, <1>3 DEF PagingTypes
<1>5. /\ directory'[d].present = 1 /\ directory'[d].frame = pt /\ directory'[d].user = u
      /\ \A c \in D : c # d => directory'[c] = directory[c]
  BY <1>0, <1>1 DEF PagingTypes, Entry
<1>6. tables'[pt] = table /\ \A p \in Pages : p # pt => tables'[p] = tables[p]
  BY <1>0 DEF PagingTypes
<1>7. ASSUME NEW c \in D, directory'[c].present = 1, c # d
      PROVE  /\ directory'[c] = directory[c] /\ directory[c].present = 1
             /\ directory[c].frame # pt /\ directory[c].frame # kernel_page_directory
             /\ directory[c].frame \in bitmap' /\ directory[c].frame \in ClearedByInit
             /\ tables'[directory[c].frame] = tables[directory[c].frame]
  <2>1. directory'[c] = directory[c] /\ directory[c].present = 1
    BY <1>5, <1>7, SMTT(30)
  <2>2. /\ directory[c].frame \in bitmap /\ directory[c].frame \in ClearedByInit
        /\ directory[c].frame # kernel_page_directory
    BY <2>1 DEF OwnInv, Owned
  <2> QED BY <1>0, <1>6, <2>1, <2>2, ClearedIsMemory, SMTT(30)
<1>8. BootInv'
  BY <1>0, SMTT(30) DEF BootInv
<1>9. OwnInv'
  <2>1. kernel_page_directory \in bitmap /\ kernel_page_directory \in ClearedByInit
    BY DEF OwnInv, Owned
  <2>2. ASSUME NEW c \in D, directory'[c].present = 1
        PROVE  /\ directory'[c].frame \in bitmap' /\ directory'[c].frame \in ClearedByInit
               /\ directory'[c].frame # kernel_page_directory
    BY <1>0, <1>5, <1>7, <2>1, <2>2
  <2>3. ASSUME NEW c \in D, NEW b \in D, directory'[c].present = 1,
               directory'[b].present = 1, b # c
        PROVE  directory'[b].frame # directory'[c].frame
    <3>1. CASE b = d \/ c = d
      BY <1>5, <1>7, <2>3, <3>1, SMTT(30)
    <3>2. CASE b # d /\ c # d
      BY <1>7, <2>3, <3>2, SMTT(30) DEF OwnInv
    <3> QED BY <3>1, <3>2
  <2> QED BY <1>0, <2>1, <2>2, <2>3, SMTT(30) DEF OwnInv, Owned
<1>10. UserInv'
  <2>1. ASSUME NEW c \in D, directory'[c].present = 1, NEW j \in J,
               tables'[directory'[c].frame][j].user = 1
        PROVE  directory'[c].user = 1
    <3>1. CASE c = d
      BY <1>3, <1>5, <1>6, <2>1, <3>1, SMTT(30)
    <3>2. CASE c # d
      BY <1>7, <2>1, <3>2, SMTT(30) DEF UserInv
    <3> QED BY <3>1, <3>2, SMTT(30)
  <2> QED BY <2>1 DEF UserInv
<1>11. IdInv'
  <2> SUFFICES ASSUME NEW p \in ClearedByInit
               PROVE  /\ directory'[PD_INDEX(p)].present = 1
                      /\ SelfEntry(tables'[directory'[PD_INDEX(p)].frame][PT_INDEX(p)], p)
    BY <1>0, Zenon DEF IdInv, SelfEntry
  <2>1. PD_INDEX(p) \in D
    BY ClearedIsMemory, PagesIndex, Index
  <2>2. /\ directory[PD_INDEX(p)].present = 1
        /\ SelfEntry(tables[directory[PD_INDEX(p)].frame][PT_INDEX(p)], p)
    BY DEF IdInv
  <2>3. PD_INDEX(p) # d /\ directory'[PD_INDEX(p)] = directory[PD_INDEX(p)]
    BY <1>0, <1>5, <2>1, <2>2, SMTT(30)
  <2>4. tables'[directory[PD_INDEX(p)].frame] = tables[directory[PD_INDEX(p)].frame]
    BY <1>7, <2>1, <2>2, <2>3, SMTT(30)
  <2> QED BY <2>2, <2>3, <2>4, Zenon
<1>13. FillInv'
  BY <1>0, SMTT(30) DEF FillInv
<1>12. TlbCoherent'
  <2> SUFFICES ASSUME NEW w \in Virts, tlb'[w] # Fault PROVE tlb'[w] = Translate(w)'
    BY DEF TlbCoherent
  <2>1. w \in Virt /\ PD_INDEX(w) \in D /\ PT_INDEX(w) \in J
    BY Index, PagingAssumption
  <2>2. w # v /\ tlb'[w] = tlb[w]
    BY <1>0, <1>1, <2>1, SMTT(30) DEF PagingTypes
  <2>3. Translate(w)' = Translate(w)
    BY <2>1, <2>2, AddsTableTranslates
  <2> QED BY <2>2, <2>3 DEF TlbCoherent
<1> QED BY <1>4, <1>8, <1>9, <1>10, <1>11, <1>12, <1>13

(* A call that changes neither the tables nor the TLB.                     *)
LEMMA NoChangeInv ==
  ASSUME PagingInv,
         UNCHANGED <<bitmap, holders, kernel_page_directory, directory, tables, phase, i, tlb>>
  PROVE  PagingInv'
<1>1. PmmInv'
  BY AllocInv, SMTT(30) DEF pmmVars, PagingInv
<1>2. PagingTypes' /\ BootInv' /\ OwnInv' /\ UserInv' /\ FillInv' /\ IdInv'
  BY DEF PagingInv, PagingTypes, BootInv, OwnInv, UserInv, FillInv, IdInv, Owned, Free
<1>3. TlbCoherent'
  BY DEF PagingInv, TlbCoherent, Translate
<1> QED BY <1>1, <1>2, <1>3 DEF PagingInv

(* What a call of paging_unmap comes to.                                   *)
LEMMA UnmapCases ==
  ASSUME PagingInv, NEW v \in Virts, paging_unmap(v)
  PROVE  LET d == PD_INDEX(v)
         IN  /\ phase = "on"
             /\ \/ /\ directory[d].present = 0
                   /\ UNCHANGED <<bitmap, holders, kernel_page_directory, directory, tables,
                                  phase, i, tlb>>
                \/ /\ directory[d].user \in {0, 1}
                   /\ WritesEntry(v, ZeroEntry, directory[d].user)
<1> DEFINE d == PD_INDEX(v)
<1>1. v \in Virt /\ d \in D
  BY Index, PagingAssumption
<1>2. CASE directory[d].present = 0
  <2>1. directory[d].present # 1
    BY <1>2
  <2> QED BY <1>2, <2>1, Zenon DEF paging_unmap
<1>3. CASE directory[d].present = 1
  <2>1. /\ phase = "on" /\ directory' = directory
        /\ tables' = [tables EXCEPT ![directory[d].frame][PT_INDEX(v)] = ZeroEntry]
        /\ tlb' = [tlb EXCEPT ![v] = Fault]
        /\ UNCHANGED <<bitmap, holders, kernel_page_directory, phase, i>>
    BY <1>3 DEF paging_unmap, Invalidate
  <2>2. ZeroEntry.user = 0
    BY DEF ZeroEntry, Entry
  <2>3. directory[d] \in EntryT /\ directory \in [D -> EntryT]
    BY <1>1 DEF PagingInv, PagingTypes
  <2>4. directory[d].user \in {0, 1}
    BY <2>3 DEF EntryT
  <2>5. [directory[d] EXCEPT !.user = directory[d].user] = directory[d]
    BY <2>3 DEF EntryT
  <2>6. directory' = [directory EXCEPT ![d] = [directory[d] EXCEPT !.user = directory[d].user]]
    BY <2>1, <2>3, <2>5
  <2>7. WritesEntry(v, ZeroEntry, directory[d].user)
    <3> DEFINE f == directory[d].frame
    <3>1. tables' = [tables EXCEPT ![f] = [tables[f] EXCEPT ![PT_INDEX(v)] = ZeroEntry]]
      BY <2>1, Zenon
    <3>2. directory[d].user = 1 \/ ZeroEntry.user = 1 => directory[d].user = 1
      BY <2>2, SMTT(30)
    <3> QED BY <1>3, <2>1, <2>6, <3>1, <3>2, Zenon DEF WritesEntry
  <2> QED BY <2>1, <2>4, <2>7, SMTT(30)
<1> QED BY <1>2, <1>3, Zenon DEF paging_unmap

LEMMA UnmapInv ==
  ASSUME PagingInv, NEW v \in Virts, MayUnmap(v), paging_unmap(v)
  PROVE  PagingInv'
<1>1. ZeroEntry \in EntryT
  BY ZeroReserved, SMTT(30) DEF ZeroEntry, Entry, EntryT
<1> QED BY <1>1, UnmapCases, WritesEntryInv, NoChangeInv DEF MayUnmap

(* What a call of paging_map comes to: no page for the table, an entry in  *)
(* the table there is, or a new table.                                     *)
Asked(phys, flags) == Entry(1, Bit("W", flags), Bit("U", flags), phys)
LEMMA MapCases ==
  ASSUME PagingInv, NEW v \in Virts, NEW phys \in Targets, NEW flags \in Flags,
         paging_map(v, phys, flags)
  PROVE  LET d == PD_INDEX(v)
             e == Asked(phys, flags)
         IN  /\ phase = "on" /\ e \in EntryT
             /\ \/ /\ directory[d].present = 0
                   /\ UNCHANGED <<bitmap, holders, kernel_page_directory, directory, tables,
                                  phase, i, tlb>>
                \/ \E u \in {0, 1} : WritesEntry(v, e, u)
                \/ \E u \in {0, 1}, pt \in Pages : AddsTable(v, e, u, pt) /\ PmmInv'
<1> DEFINE d == PD_INDEX(v)
           pt == TableFor(v)
           e == Asked(phys, flags)
<1>1. v \in Virt /\ d \in D
  BY Index, PagingAssumption, SMTT(30)
<1>2. /\ phase = "on" /\ UNCHANGED <<kernel_page_directory, phase, i>>
      /\ IF directory[d].present = 0 THEN PmmAlloc ELSE UNCHANGED <<bitmap, holders>>
  BY Zenon DEF paging_map
<1>3. Bit("W", flags) \in {0, 1} /\ Bit("U", flags) \in {0, 1} /\ phys \in Pages
  BY PagingAssumption DEF Bit
<1>4. e \in EntryT /\ e.user = Bit("U", flags)
  BY <1>3 DEF Asked, Entry, EntryT
<1>5. directory[d] \in EntryT
  BY <1>1 DEF PagingInv, PagingTypes
<1>6. CASE pt = 0
  <2>1. directory[d].present = 0
    <3>1. directory[d].present = 1 => directory[d].frame # 0
      BY <1>1, <1>2, ZeroReserved, SMTT(30) DEF PagingInv, OwnInv, Owned
    <3> QED BY <1>5, <1>6, <3>1, SMTT(30) DEF EntryT, TableFor
  <2>2. UNCHANGED <<bitmap, holders>>
    BY <1>2, <1>6, <2>1 DEF TableFor, PmmAlloc
  <2>3. UNCHANGED <<directory, tables, tlb>>
    BY <1>6, Zenon DEF paging_map
  <2> QED BY <1>2, <1>4, <2>1, <2>2, <2>3, Zenon
<1>7. CASE pt # 0 /\ directory[d].present = 1
  <2>1. /\ directory' = [directory EXCEPT ![d] = PropagateUser(directory[d], flags)]
        /\ tables' = [tables EXCEPT ![directory[d].frame] =
                        [tables[directory[d].frame] EXCEPT ![PT_INDEX(v)] = e]]
        /\ tlb' = [tlb EXCEPT ![v] = Fault]
    <3>1. directory[d].present # 0 /\ pt = directory[d].frame
      BY <1>7 DEF TableFor
    <3> QED BY <1>7, <3>1, Zenon DEF paging_map, Invalidate, Asked
  <2> DEFINE u == IF "U" \in flags THEN 1 ELSE directory[d].user
  <2>2. u \in {0, 1}
    BY <1>5 DEF EntryT
  <2>3. PropagateUser(directory[d], flags) = [directory[d] EXCEPT !.user = u]
    BY <1>5 DEF PropagateUser, EntryT
  <2>4. directory[d].user = 1 \/ e.user = 1 => u = 1
    BY <1>4 DEF Bit
  <2> HIDE DEF e, u
  <2>5. WritesEntry(v, e, u)
    BY <1>2, <1>7, <2>1, <2>3, <2>4 DEF WritesEntry
  <2> QED BY <1>2, <1>4, <2>2, <2>5, Zenon DEF e
<1>8. CASE pt # 0 /\ directory[d].present # 1
  <2>0. directory[d].present = 0 /\ PmmAlloc /\ pt = pmm_alloc(bitmap)
    BY <1>2, <1>5, <1>8, SMTT(30) DEF EntryT, TableFor
  <2>1. /\ directory' = [directory EXCEPT ![d] = PropagateUser(Entry(1, 1, 0, pt), flags)]
        /\ tables' = [tables EXCEPT ![pt] =
                        [[j \in J |-> ZeroEntry] EXCEPT ![PT_INDEX(v)] = e]]
        /\ tlb' = [tlb EXCEPT ![v] = Fault]
    BY <1>8, <2>0 DEF paging_map, Invalidate, zero_page, J, Asked
  <2>2. PropagateUser(Entry(1, 1, 0, pt), flags) = Entry(1, 1, Bit("U", flags), pt)
    BY SMTT(30) DEF PropagateUser, Entry, Bit
  <2>3. pt \in Free /\ pt \in ClearedByInit /\ bitmap' = bitmap \cup {pt}
    BY <1>8, <2>0, AllocPage, Zenon DEF PagingInv
  <2>4. PmmInv'
    BY Zenon, <2>0, AllocInv DEF PagingInv
  <2> HIDE DEF e, pt
  <2>5. AddsTable(v, e, Bit("U", flags), pt)
    BY Zenon, <1>2, <1>4, <2>0, <2>1, <2>2, <2>3 DEF AddsTable
  <2>6. pt \in Pages
    BY <2>3, SMTT(30) DEF Free
  <2> QED BY <1>2, <1>3, <1>4, <2>4, <2>5, <2>6, Zenon DEF e
<1> QED BY <1>6, <1>7, <1>8, Zenon

LEMMA MapInv ==
  ASSUME PagingInv, NEW v \in Virts, NEW phys \in Targets, NEW flags \in Flags,
         MayMap(v, phys, flags), paging_map(v, phys, flags)
  PROVE  PagingInv'
<1>1. v \in ClearedByInit => SelfEntry(Asked(phys, flags), v)
  BY DEF MayMap, SelfEntry, Asked, Entry, Bit
<1> QED BY <1>1, MapCases, WritesEntryInv, AddsTableInv, NoChangeInv, Zenon

LEMMA PagingInductive == PagingInv /\ [Next]_vars => PagingInv'
<1> SUFFICES ASSUME PagingInv, [Next]_vars PROVE PagingInv'
  OBVIOUS
<1>1. CASE UNCHANGED vars
  BY <1>1, NoChangeInv DEF vars
<1> QED BY <1>1, AllocDirectoryInv, FillTableInv, EnablePagingInv, OtherAllocInv,
           MapInv, UnmapInv, AccessInv, SMTT(30) DEF Next
-----------------------------------------------------------------------------
(* The inductive invariant holds for ever.                                 *)
THEOREM PagingInvariant == Spec => []PagingInv
BY PagingInitInv, PagingInductive, PTL DEF Spec

(* The TLB never holds what the tables no longer say, for any table sizes  *)
(* and any calls of paging_map and paging_unmap.                           *)
THEOREM PagingTlbCoherent == Spec => []TlbCoherent
<1>1. PagingInv => TlbCoherent
  BY SMTT(30) DEF PagingInv
<1> QED BY <1>1, PagingInvariant, PTL

(* No table is shared, and each is a page pmm_alloc gave to paging alone.  *)
THEOREM PagingTablesExclusive == Spec => []TablesExclusive
<1>1. PagingInv => TablesExclusive
  <2> SUFFICES ASSUME PagingInv, phase # "boot"
               PROVE  /\ \A d, e \in Present : d # e => directory[d].frame # directory[e].frame
                      /\ \A d \in Present : directory[d].frame # kernel_page_directory
                      /\ \A p \in TablePages : p \in bitmap /\ p \in ClearedByInit /\ holders[p] = 1
    BY DEF TablesExclusive
  <2>1. \A p \in TablePages : Owned(p)
    BY DEF PagingInv, OwnInv, TablePages, Present, D
  <2>2. \A p : Owned(p) => holders[p] = 1
    BY ClearedIsMemory DEF PagingInv, PmmInv, HeldOnce, Owned
  <2> QED BY <2>1, <2>2 DEF PagingInv, OwnInv, Present, D, Owned
<1> QED BY <1>1, PagingInvariant, PTL

(* With paging on, the directory and every table stay mapped at their own  *)
(* physical addresses, writable, and closed to user mode unless the page   *)
(* is one callers open themselves.                                         *)
THEOREM PagingTablesReachable == Spec => []TablesReachable
<1>1. PagingInv => TablesReachable
  <2> SUFFICES ASSUME PagingInv, phase = "on", NEW p \in TablePages
               PROVE  \E u \in {0, 1} :
                        /\ Translate(p) = [frame |-> p, writable |-> 1, user |-> u]
                        /\ u = 1 => p \in Virts
    BY DEF TablesReachable
  <2>1. p \in ClearedByInit
    BY DEF PagingInv, OwnInv, Owned, TablePages, Present, D
  <2>2. PD_INDEX(p) \in D /\ PT_INDEX(p) \in J
    BY <2>1, ClearedIsMemory, PagesIndex, Index, SMTT(30)
  <2> DEFINE pde == directory[PD_INDEX(p)]
             pte == tables[pde.frame][PT_INDEX(p)]
  <2>3. pde.present = 1 /\ SelfEntry(pte, p)
    BY <2>1 DEF PagingInv, IdInv
  <2>4. pde \in EntryT /\ pde.user \in {0, 1} /\ pde.frame \in Pages
    BY <2>2 DEF PagingInv, PagingTypes, EntryT
  <2>5. pte.user \in {0, 1}
    BY <2>2, <2>4 DEF PagingInv, PagingTypes, EntryT
  <2>6. Translate(p) = IF pde.present = 0 \/ pte.present = 0 THEN Fault
                       ELSE [frame |-> pte.frame, writable |-> pte.writable,
                             user |-> pde.user * pte.user]
    BY Zenon DEF Translate, Walk
  <2> HIDE DEF pde, pte
  <2>7. pde.user * pte.user \in {0, 1} /\ (pde.user * pte.user = 1 => pte.user = 1)
    BY <2>4, <2>5, SMTT(30)
  <2>8. Translate(p) = [frame |-> p, writable |-> 1, user |-> pde.user * pte.user]
    BY <2>3, <2>6 DEF SelfEntry
  <2>9. pde.user * pte.user = 1 => p \in Virts
    BY <2>3, <2>7 DEF SelfEntry
  <2> QED BY <2>7, <2>8, <2>9
<1> QED BY <1>1, PagingInvariant, PTL
-----------------------------------------------------------------------------
(* The refinement of AddressSpace.  A translation is in force only with    *)
(* paging on.                                                              *)
InForce(v) == IF phase = "on" THEN Translate(v) ELSE Fault
Mapping == [v \in Virt |-> InForce(v)]
Promised == Space!Enable \/ Space!Map \/ Space!Unmap \/ UNCHANGED <<Mapping, request>>

LEMMA MappingStays ==
  ASSUME \A v \in Virt : InForce(v)' = InForce(v)
  PROVE  Mapping' = Mapping
BY Zenon DEF Mapping

(* Before CR3 is loaded nothing is mapped.                                 *)
LEMMA BootPromised ==
  ASSUME PagingInv, AllocDirectory \/ FillTable
  PROVE  UNCHANGED <<Mapping, request>>
<1>1. phase # "on" /\ phase' # "on" /\ request' = request
  BY DEF AllocDirectory, FillTable
<1>2. \A v \in Virt : InForce(v)' = InForce(v)
  BY <1>1, Zenon DEF InForce
<1> QED BY <1>1, <1>2, MappingStays

(* Loading CR3 puts the identity mapping of all memory in force.           *)
LEMMA EnablePromised ==
  ASSUME PagingInv, EnablePaging
  PROVE  Space!Enable
<1> USE DEF PagingInv
<1> DEFINE Own(v) == [frame |-> v, writable |-> 1, user |-> 0]
<1>1. /\ phase = "fill" /\ phase' = "on" /\ ~ (i < IDENTITY_MAP_ENTRIES)
      /\ UNCHANGED <<directory, tables, request>>
  BY DEF EnablePaging, MoreTables
<1>2. \A v \in Virt : InForce(v) = Fault /\ InForce(v)' = Translate(v)
  BY <1>1, Zenon DEF InForce, Translate
<1>3. i = IDENTITY_MAP_ENTRIES
  BY <1>1, PagingAssumption, SMTT(30) DEF PagingTypes
<1>4. ASSUME NEW v \in Pages PROVE Translate(v) = Own(v)
  <2> DEFINE pde == directory[PD_INDEX(v)]
             pte == tables[pde.frame][PT_INDEX(v)]
  <2>1. PD_INDEX(v) \in D /\ PD_INDEX(v) < i
    BY <1>3, PagesIndex, Index, SMTT(30)
  <2>2. pde.present = 1 /\ pte = Entry(1, 1, 0, v)
    BY <1>1, <2>1, SMTT(30) DEF FillInv
  <2>3. pte.present = 1 /\ pte.writable = 1 /\ pte.user = 0 /\ pte.frame = v
    BY <2>2 DEF Entry
  <2>4. pde.user \in {0, 1}
    BY <2>1, SMTT(30) DEF PagingTypes, EntryT
  <2>5. pde.user * pte.user = 0
    BY <2>3, <2>4
  <2>6. Translate(v) = IF pde.present = 0 \/ pte.present = 0 THEN Fault
                       ELSE [frame |-> pte.frame, writable |-> pte.writable,
                             user |-> pde.user * pte.user]
    BY Zenon DEF Translate, Walk
  <2>7. pde.present # 0 /\ pte.present # 0
    BY <2>2, <2>3
  <2> HIDE DEF pde, pte
  <2> QED BY <2>3, <2>5, <2>6, <2>7
<1>5. ASSUME NEW v \in Virt, v \notin Pages PROVE Translate(v) = Fault
  <2>1. v \in Nat /\ PD_INDEX(v) \in D /\ v >= TOTAL_PAGES
    BY <1>5, Index, PmmAssumption DEF Pages
  <2>2. PD_INDEX(v) >= IDENTITY_MAP_ENTRIES
    <3>1. v = (v \div PT_ENTRIES) * PT_ENTRIES + (v % PT_ENTRIES)
      BY <2>1, PagingAssumption, SMTT(30)
    <3>2. v % PT_ENTRIES < PT_ENTRIES /\ v % PT_ENTRIES \in Nat
      BY <2>1, PagingAssumption, SMTT(30)
    <3> DEFINE q == v \div PT_ENTRIES
               r == v % PT_ENTRIES
    <3>3. q \in Nat /\ v = q * PT_ENTRIES + r
      BY <2>1, <3>1 DEF PD_INDEX, D
    <3> HIDE DEF q, r
    <3>4. ASSUME q < IDENTITY_MAP_ENTRIES PROVE FALSE
      <4>1. (q + 1) * PT_ENTRIES <= IDENTITY_MAP_ENTRIES * PT_ENTRIES
        BY <3>3, <3>4, PagingAssumption
      <4>2. (q + 1) * PT_ENTRIES = q * PT_ENTRIES + PT_ENTRIES /\ q * PT_ENTRIES \in Nat
        BY <3>3, PagingAssumption
      <4> QED BY <2>1, <3>2, <3>3, <4>1, <4>2, PagingAssumption, PmmAssumption, SMTT(30) DEF r
    <3> QED BY <3>3, <3>4, PagingAssumption DEF q, PD_INDEX
  <2>3. directory[PD_INDEX(v)].present = 0
    BY <1>1, <1>3, <2>1, <2>2 DEF BootInv
  <2> QED BY <2>3, Zenon DEF Translate, Walk
<1>6. Mapping = Space!Off
  BY <1>2, Zenon DEF Mapping, Space!Off
<1>7. Mapping' = [v \in Virt |-> IF v \in Pages THEN Own(v) ELSE Fault]
  <2>1. \A v \in Virt : InForce(v)' = IF v \in Pages THEN Own(v) ELSE Fault
    BY <1>2, <1>4, <1>5, Zenon
  <2> QED BY <2>1, Zenon DEF Mapping
<1> QED BY <1>1, <1>6, <1>7, Zenon DEF Space!Enable, Mapping, InForce, Space!Off

(* One page's translation changes and no other.                            *)
LEMMA MappingChanges ==
  ASSUME NEW v \in Virt, NEW t,
         phase = "on", phase' = "on",
         \A w \in Virt : w # v => Translate(w)' = Translate(w),
         Translate(v)' = t
  PROVE  Mapping' = [Mapping EXCEPT ![v] = t]
<1>1. \A w \in Virt : InForce(w)' = IF w = v THEN t ELSE InForce(w)
  BY Zenon DEF InForce
<1> QED BY <1>1, Zenon DEF Mapping

LEMMA MapPromised ==
  ASSUME PagingInv, NEW v \in Virts, NEW phys \in Targets, NEW flags \in Flags,
         paging_map(v, phys, flags)
  PROVE  Space!Map
<1> DEFINE e == Asked(phys, flags)
           to == [frame |-> phys, writable |-> Bit("W", flags), user |-> Bit("U", flags)]
<1>1. v \in Virt
  BY PagingAssumption, SMTT(30)
<1>2. phase = "on" /\ phase' = "on" /\ request' = [op |-> "map", virt |-> v, to |-> to]
  BY Zenon DEF paging_map, Entry
<1>3. e.present # 0 /\ to = [frame |-> e.frame, writable |-> e.writable, user |-> e.user]
  BY DEF Asked, Entry
<1>4. request'.op = "map" /\ request'.virt = v /\ request'.to = to
  BY <1>2
<1> HIDE DEF e, to
<1>5. CASE directory[PD_INDEX(v)].present = 0 /\ UNCHANGED <<directory, tables>>
  <2>1. Translate(v) = Fault
    BY <1>5, Zenon DEF Translate, Walk
  <2>2. Mapping[v] = Fault
    BY <1>1, <1>2, <2>1, Zenon DEF Mapping, InForce
  <2>3. \A w \in Virt : InForce(w)' = InForce(w)
    BY <1>2, <1>5, Zenon DEF InForce, Translate
  <2>4. Mapping' = Mapping
    BY <2>3, MappingStays
  <2> QED BY <1>4, <2>2, <2>4, Zenon DEF Space!Map, Mapping, InForce
<1>6. CASE /\ \A w \in Virt : w # v => Translate(w)' = Translate(w)
           /\ Translate(v)' = to
  <2>1. Mapping' = [Mapping EXCEPT ![v] = to]
    BY <1>1, <1>2, <1>6, MappingChanges, SMTT(30)
  <2> QED BY <1>4, <2>1, Zenon DEF Space!Map, Mapping, InForce
<1>7. ASSUME NEW u \in {0, 1}, WritesEntry(v, e, u), e \in EntryT PROVE Space!Map
  BY <1>2, <1>3, <1>6, <1>7, WritesEntryTranslates, SMTT(30)
<1>8. ASSUME NEW u \in {0, 1}, NEW pt \in Pages, AddsTable(v, e, u, pt), e \in EntryT PROVE Space!Map
  BY <1>2, <1>3, <1>6, <1>8, AddsTableTranslates
<1> QED BY <1>5, <1>7, <1>8, MapCases DEF e

LEMMA UnmapPromised ==
  ASSUME PagingInv, NEW v \in Virts, paging_unmap(v)
  PROVE  Space!Unmap
<1>1. v \in Virt
  BY PagingAssumption
<1>2. phase = "on" /\ phase' = "on" /\ request' = [op |-> "unmap", virt |-> v, to |-> Fault]
  BY DEF paging_unmap
<1>3. request'.op = "unmap" /\ request'.virt = v
  BY <1>2, SMTT(30)
<1>4. /\ \A w \in Virt : w # v => Translate(w)' = Translate(w)
      /\ Translate(v)' = Fault
  <2>1. CASE directory[PD_INDEX(v)].present = 0 /\ UNCHANGED <<directory, tables>>
    BY <2>1, Zenon DEF Translate, Walk
  <2>2. ZeroEntry \in EntryT /\ ZeroEntry.present = 0
    BY ZeroReserved DEF ZeroEntry, Entry, EntryT
  <2>3. ASSUME NEW u \in {0, 1}, WritesEntry(v, ZeroEntry, u)
        PROVE  /\ \A w \in Virt : w # v => Translate(w)' = Translate(w)
               /\ Translate(v)' = Fault
    BY <1>2, <2>2, <2>3, WritesEntryTranslates
  <2> QED BY <2>1, <2>3, UnmapCases
<1>5. Mapping' = [Mapping EXCEPT ![v] = Fault]
  BY <1>1, <1>2, <1>4, MappingChanges
<1> QED BY <1>3, <1>5, Zenon DEF Space!Unmap, Mapping, InForce

(* The page walk of the CPU and pages taken by others change no mapping.   *)
LEMMA OthersPromised ==
  ASSUME PagingInv, UNCHANGED <<directory, tables, phase, request>>
  PROVE  UNCHANGED <<Mapping, request>>
<1>1. \A v \in Virt : InForce(v)' = InForce(v)
  BY Zenon DEF InForce, Translate
<1> QED BY <1>1, MappingStays

LEMMA StepPromised == PagingInv /\ [Next]_vars => Promised
<1> SUFFICES ASSUME PagingInv, [Next]_vars PROVE Promised
  OBVIOUS
<1>1. ASSUME OtherAlloc \/ UNCHANGED vars PROVE UNCHANGED <<directory, tables, phase, request>>
  BY <1>1 DEF OtherAlloc, vars
<1>2. ASSUME NEW v \in Virts, Access(v) PROVE UNCHANGED <<directory, tables, phase, request>>
  BY <1>2 DEF Access
<1> QED BY <1>1, <1>2, BootPromised, EnablePromised, MapPromised, UnmapPromised,
           OthersPromised DEF Next, Promised

(* paging_map and paging_unmap change the translation of the page they     *)
(* name and of no other, for any table sizes and memory layout: every step *)
(* of Paging is a step of AddressSpace or leaves it as it is.              *)
THEOREM PagingRefinesAddressSpace == Spec => ImplementsAddressSpace
<1>1. Init => Space!Init
  <2>1. Init => \A v \in Virt : InForce(v) = Fault
    BY DEF Init, InForce
  <2>2. Init => Mapping = Space!Off
    BY <2>1, Zenon DEF Mapping, Space!Off
  <2>3. Init => request.op = "none"
    BY DEF Init
  <2> QED BY <2>2, <2>3, Zenon DEF Space!Init, Mapping, InForce
<1>2. PagingInv /\ [Next]_vars => [Space!Enable \/ Space!Map \/ Space!Unmap]_<<Mapping, request>>
  BY StepPromised DEF Promised
<1> QED BY <1>1, <1>2, PagingInvariant, PTL DEF Spec, ImplementsAddressSpace, Space!Spec,
           Mapping, InForce
=============================================================================
