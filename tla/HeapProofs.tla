----------------------------- MODULE HeapProofs -----------------------------
(***************************************************************************)
(* Proofs about the kernel heap.  The lemmas come in the order of heap.c:  *)
(* what list_insert, the pass of coalesce_forward, the split in kmalloc    *)
(* and heap_add_page make of a sorted list whose blocks are apart, which   *)
(* units of memory the list covers afterwards, and which pairs of blocks   *)
(* touch.  HeapInv ties the list, the blocks in use, the bitmap and        *)
(* heap_pages together; the theorems follow from it.                       *)
(***************************************************************************)
EXTENDS Heap, FiniteSetTheorems, TLAPS

(* Every set of numbers that is not empty has a least element.             *)
LEMMA LowestExists ==
  ASSUME NEW T, T \subseteq Nat, T # {}
  PROVE  \E x \in T : \A y \in T : x <= y
<1> DEFINE R == OpToRel(<, Nat)
<1>1. \A x, y \in Nat : x < y => <<x, y>> \in R
  BY DEF OpToRel
<1>2. IsWellFoundedOn(R, Nat)
  BY NatLessThanWellFounded
<1> HIDE DEF R
<1>3. \E x \in T : \A y \in T : ~ (<<y, x>> \in R)
  BY <1>2, WFMin, Zenon
<1>4. PICK x \in T : \A y \in T : ~ (<<y, x>> \in R)
  BY <1>3
<1>5. \A y \in T : ~ (y < x)
  BY <1>1, <1>4, Zenon
<1> QED
  BY <1>5

(* Induction, for a set of numbers.                                        *)
LEMMA Induction ==
  ASSUME NEW S, 0 \in S, \A n \in Nat : n \in S => n + 1 \in S
  PROVE  Nat \subseteq S
<1> SUFFICES ASSUME Nat \ S # {} PROVE FALSE
  OBVIOUS
<1>1. PICK x \in Nat \ S : \A y \in Nat \ S : x <= y
  BY LowestExists, Zenon
<1>2. x # 0 /\ x - 1 \in Nat /\ x - 1 + 1 = x
  BY <1>1
<1> QED
  BY <1>1, <1>2
-----------------------------------------------------------------------------
FreeBlock == [addr : Nat, size : Nat]
LiveBlock == [addr : Nat, size : Nat, asked : Nat]

(* c is a unit of block b; of a block of the list; of one of the blocks.   *)
In(c, b) == b.addr <= c /\ c < End(b)
Covers(list, c) == \E i \in 1 .. Len(list) : In(c, list[i])
InUse(blocks, c) == \E b \in blocks : In(c, b)

(* b and d have no unit in common.                                         *)
Apart(b, d) == End(b) <= d.addr \/ End(d) <= b.addr

(* The list is in the order of the addresses and its blocks are apart.     *)
Sorted(list) == \A i, j \in 1 .. Len(list) : i < j => End(list[i]) <= list[j].addr

IsList(list) == list \in Seq(FreeBlock) /\ Sorted(list)

LEMMA HeaderSize == HEADER_SIZE \in Nat \ {0}
  BY HeapAssumption

LEMMA EndIs ==
  ASSUME NEW b, b.addr \in Nat, b.size \in Nat
  PROVE  End(b) \in Nat /\ End(b) = b.addr + HEADER_SIZE + b.size /\ b.addr < End(b)
  BY HeaderSize DEF End

LEMMA BlockOf ==
  ASSUME NEW list \in Seq(FreeBlock), NEW i \in 1 .. Len(list)
  PROVE  /\ list[i] \in FreeBlock /\ list[i].addr \in Nat /\ list[i].size \in Nat
         /\ End(list[i]) \in Nat /\ list[i].addr < End(list[i])
<1>1. list[i] \in FreeBlock
  OBVIOUS
<1>2. list[i].addr \in Nat /\ list[i].size \in Nat
  BY <1>1 DEF FreeBlock
<1> QED
  BY <1>1, <1>2, EndIs

(* Blocks without a common unit are apart.                                 *)
LEMMA ApartFrom ==
  ASSUME NEW b, b.addr \in Nat, b.size \in Nat, NEW d, d.addr \in Nat, d.size \in Nat,
         \A c \in Nat : ~ (In(c, b) /\ In(c, d))
  PROVE  Apart(b, d)
<1>1. b.addr < End(b) /\ d.addr < End(d) /\ End(b) \in Nat /\ End(d) \in Nat
  BY EndIs
<1>2. ~ (In(b.addr, b) /\ In(b.addr, d)) /\ ~ (In(d.addr, b) /\ In(d.addr, d))
  OBVIOUS
<1> QED
  BY <1>1, <1>2 DEF In, Apart

LEMMA ApartMeans ==
  ASSUME NEW b, b.addr \in Nat, b.size \in Nat, NEW d, d.addr \in Nat, d.size \in Nat,
         Apart(b, d), NEW c \in Nat, In(c, b)
  PROVE  ~In(c, d)
<1>1. End(b) \in Nat /\ End(d) \in Nat
  BY EndIs
<1> QED
  BY <1>1 DEF In, Apart
-----------------------------------------------------------------------------
(* heap_get_stats.  The two sums of StatsExact are folds over a finite set *)
(* of blocks that are apart; blk[i] is block i, and pick[s] the element of *)
(* s that the fold takes next.                                             *)
Step(f, blk, pick, s) == IF s = {} THEN 0 ELSE blk[pick[s]].size + f[s \ {pick[s]}]

Picks(pick, S) == \A s \in SUBSET S : s # {} => pick[s] \in s
IsSum(f, S, blk, pick) == f = [s \in SUBSET S |-> Step(f, blk, pick, s)]

LEMMA SumExists ==
  ASSUME NEW S, IsFiniteSet(S), NEW blk, NEW pick, Picks(pick, S)
  PROVE  \E f : IsSum(f, S, blk, pick)
<1> DEFINE Dom(n) == {s \in SUBSET S : Cardinality(s) <= n}
           P == {n \in Nat : \E f : f = [s \in Dom(n) |-> Step(f, blk, pick, s)]}
<1>1. \A s \in SUBSET S : IsFiniteSet(s) /\ Cardinality(s) \in Nat /\ Cardinality(s) <= Cardinality(S)
  BY FS_Subset, FS_CardinalityType
<1>2. ASSUME NEW n \in Nat, NEW s \in Dom(n + 1), s # {} PROVE s \ {pick[s]} \in Dom(n)
  <2>1. s \in SUBSET S /\ IsFiniteSet(s) /\ pick[s] \in s /\ Cardinality(s) \in Nat /\ Cardinality(s) <= n + 1
    BY <1>1, <1>2, SMTT(30) DEF Picks
  <2>2. Cardinality(s \ {pick[s]}) = Cardinality(s) - 1
    BY <2>1, FS_RemoveElement, Zenon
  <2> QED
    BY <2>1, <2>2
<1>3. 0 \in P
  <2> DEFINE f == [s \in Dom(0) |-> 0]
  <2>1. ASSUME NEW s \in Dom(0) PROVE Step(f, blk, pick, s) = 0
    <3>1. s = {}
      BY <1>1, FS_EmptySet
    <3> QED
      BY <3>1 DEF Step
  <2> HIDE DEF Dom
  <2>2. f = [s \in Dom(0) |-> Step(f, blk, pick, s)]
    BY <2>1, Zenon
  <2> QED
    BY <2>2
<1>4. ASSUME NEW n \in Nat, n \in P PROVE n + 1 \in P
  <2>1. PICK f : f = [s \in Dom(n) |-> Step(f, blk, pick, s)]
    BY <1>4, Zenon
  <2>2. ASSUME NEW s \in Dom(n) PROVE s \in Dom(n + 1)
    BY <1>1
  <2> HIDE DEF Dom
  <2> DEFINE g == [s \in Dom(n + 1) |-> IF s \in Dom(n) THEN f[s] ELSE Step(f, blk, pick, s)]
  <2>3. ASSUME NEW s \in Dom(n + 1) PROVE g[s] = Step(g, blk, pick, s)
    <3>1. g[s] = Step(f, blk, pick, s)
      BY <2>1, Zenon
    <3>2. CASE s = {}
      BY <3>1, <3>2, SMTT(30) DEF Step
    <3>3. CASE s # {}
      <4> DEFINE t == s \ {pick[s]}
      <4>1. t \in Dom(n) /\ t \in Dom(n + 1)
        BY <1>2, <2>2, <3>3
      <4>2. g[t] = f[t]
        BY <4>1, Zenon
      <4> HIDE DEF g
      <4> QED
        BY <3>1, <3>3, <4>2 DEF Step
    <3> QED
      BY <3>2, <3>3
  <2>4. g = [s \in Dom(n + 1) |-> g[s]]
    OBVIOUS
  <2> HIDE DEF g
  <2>5. g = [s \in Dom(n + 1) |-> Step(g, blk, pick, s)]
    BY <2>3, <2>4, Zenon
  <2> QED
    BY <2>5
<1> HIDE DEF P
<1>5. Nat \subseteq P
  BY <1>3, <1>4, Induction
<1>6. Cardinality(S) \in Nat /\ Dom(Cardinality(S)) = SUBSET S
  BY <1>1, FS_CardinalityType
<1> HIDE DEF Dom
<1>7. PICK f : f = [s \in Dom(Cardinality(S)) |-> Step(f, blk, pick, s)]
  BY <1>5, <1>6, Zenon DEF P
<1> QED
  BY <1>6, <1>7 DEF IsSum

(* Such a sum and the headers are the number of units the blocks take up.  *)
Units(blk, s) == {c \in Nat : \E i \in s : In(c, blk[i])}

LEMMA SumIs ==
  ASSUME NEW S, IsFiniteSet(S), NEW blk, NEW pick, Picks(pick, S),
         \A i \in S : blk[i].addr \in Nat /\ blk[i].size \in Nat,
         \A i, j \in S : i # j => Apart(blk[i], blk[j]),
         NEW f, IsSum(f, S, blk, pick)
  PROVE  /\ f[S] \in Nat /\ IsFiniteSet(Units(blk, S))
         /\ Cardinality(Units(blk, S)) = f[S] + HEADER_SIZE * Cardinality(S)
<1> DEFINE Good(s) == /\ f[s] \in Nat /\ IsFiniteSet(Units(blk, s))
                      /\ Cardinality(Units(blk, s)) = f[s] + HEADER_SIZE * Cardinality(s)
           P == {n \in Nat : \A s \in SUBSET S : Cardinality(s) = n => Good(s)}
<1>1. \A s \in SUBSET S : IsFiniteSet(s) /\ Cardinality(s) \in Nat
  BY FS_Subset, FS_CardinalityType
<1>2. \A s \in SUBSET S : f[s] = Step(f, blk, pick, s)
  BY Zenon DEF IsSum
<1>3. 0 \in P
  <2> SUFFICES ASSUME NEW s \in SUBSET S, Cardinality(s) = 0 PROVE Good(s)
    BY SMTT(30)
  <2>1. s = {}
    BY <1>1, FS_EmptySet, SMTT(30)
  <2>2. f[s] = 0
    BY <1>2, <2>1, Zenon DEF Step
  <2>3. Units(blk, s) = {}
    BY <2>1 DEF Units
  <2>4. IsFiniteSet({}) /\ Cardinality({}) = 0 /\ 0 = 0 + HEADER_SIZE * 0
    BY FS_EmptySet, HeaderSize
  <2>5. Cardinality(Units(blk, s)) = f[s] + HEADER_SIZE * Cardinality(s)
    BY <2>1, <2>2, <2>3, <2>4, Zenon
  <2>6. f[s] \in Nat
    BY <2>2, SMTT(30)
  <2> QED
    BY <2>3, <2>4, <2>5, <2>6, Zenon
<1>4. ASSUME NEW n \in Nat, n \in P PROVE n + 1 \in P
  <2>0. SUFFICES ASSUME NEW s \in SUBSET S, Cardinality(s) = n + 1 PROVE Good(s)
    <3> HIDE DEF Good
    <3> QED
      BY SMTT(30)
  <2> DEFINE i == pick[s]
             t == s \ {i}
             u == Units(blk, t)
  <2>1. s # {} /\ i \in s /\ i \in S
    <3>1. n + 1 # 0
      OBVIOUS
    <3>2. s # {}
      BY <2>0, <3>1, FS_EmptySet, Zenon
    <3> QED
      BY <3>2, SMTT(30) DEF Picks
  <2>2. f[s] = blk[i].size + f[t]
    BY <1>2, <2>1, SMTT(30) DEF Step
  <2> HIDE DEF i
  <2>3. Cardinality(t) = n /\ t \in SUBSET S
    <3>1. IsFiniteSet(s)
      BY <1>1, SMTT(30)
    <3>2. Cardinality(t) = Cardinality(s) - 1
      BY <2>1, <3>1, FS_RemoveElement, Zenon
    <3>3. Cardinality(t) = n
      BY <2>0, <3>2
    <3> QED
      BY <3>3, SMTT(30)
  <2>4. f[t] \in Nat /\ IsFiniteSet(u) /\ Cardinality(u) = f[t] + HEADER_SIZE * n
    BY <1>4, <2>3, SMTT(30)
  <2> DEFINE b == blk[i]
             e == b.addr .. End(b) - 1
  <2>5. /\ b.addr \in Nat /\ b.size \in Nat /\ End(b) \in Nat
        /\ End(b) = b.addr + HEADER_SIZE + b.size
    BY <2>1, EndIs, Zenon
  <2>6. \A c : c \in e <=> c \in Nat /\ In(c, b)
    BY <2>5, SMTT(30) DEF In
  <2>7. Units(blk, s) = u \cup e
    BY <2>1, <2>6, SMTT(30) DEF Units
  <2>8. u \cap e = {}
    <3> SUFFICES ASSUME NEW c \in Nat, NEW j \in t, In(c, blk[j]), In(c, b) PROVE FALSE
      BY <2>6, SMTT(30) DEF Units
    <3>1. Apart(blk[j], b) /\ blk[j].addr \in Nat /\ blk[j].size \in Nat
      BY <2>1, SMTT(30)
    <3> QED
      BY <2>5, <3>1, ApartMeans, Zenon
  <2>9. IsFiniteSet(e) /\ Cardinality(e) = HEADER_SIZE + b.size
    <3> DEFINE lo == b.addr
               hi == End(b) - 1
    <3>1. lo \in Int /\ hi \in Int /\ ~ (lo > hi) /\ hi - lo + 1 = HEADER_SIZE + b.size
      BY <2>5, HeaderSize, SMTT(30)
    <3> HIDE DEF lo, hi
    <3>2. IsFiniteSet(lo .. hi) /\ Cardinality(lo .. hi) = IF lo > hi THEN 0 ELSE hi - lo + 1
      BY <3>1, FS_Interval, SMTT(30)
    <3> QED
      BY <3>1, <3>2, Zenon DEF lo, hi
  <2> HIDE DEF u, e, t, b
  <2>10. /\ IsFiniteSet(u \cup e)
         /\ Cardinality(u \cup e) = Cardinality(u) + Cardinality(e) - Cardinality(u \cap e)
    BY <2>4, <2>9, FS_Union, SMTT(30)
  <2>11. Cardinality(u \cap e) = 0
    BY <2>8, FS_EmptySet, SMTT(30)
  <2>12. HEADER_SIZE * (n + 1) = HEADER_SIZE * n + HEADER_SIZE /\ HEADER_SIZE * n \in Nat
    BY HeaderSize, SMTT(30)
  <2>13. f[s] = b.size + f[t]
    BY <2>2, SMTT(30) DEF b
  <2> DEFINE hn == HEADER_SIZE * n
             hm == HEADER_SIZE * (n + 1)
  <2> HIDE DEF hn, hm
  <2>14. /\ Cardinality(u \cup e) = (f[t] + hn) + (HEADER_SIZE + b.size) - 0
         /\ hm = hn + HEADER_SIZE /\ hn \in Nat
    BY <2>4, <2>9, <2>10, <2>11, <2>12, SMTT(30) DEF hn, hm
  <2>15. Cardinality(u \cup e) = f[s] + hm /\ f[s] \in Nat
    <3> DEFINE cd == Cardinality(u \cup e)
               w == f[t]
               y == b.size
    <3>1. w \in Nat /\ y \in Nat /\ cd = (w + hn) + (HEADER_SIZE + y) - 0 /\ f[s] = y + w
      BY <2>4, <2>5, <2>13, <2>14, Zenon
    <3> HIDE DEF cd, w, y
    <3>2. cd = (y + w) + hm /\ y + w \in Nat
      BY <2>14, <3>1, HeaderSize, SMTT(30)
    <3> QED
      BY <3>1, <3>2, Zenon DEF cd
  <2> QED
    BY <2>0, <2>7, <2>10, <2>15, SMTT(30) DEF hm
<1> HIDE DEF P
<1>5. Nat \subseteq P
  BY <1>3, <1>4, Induction, SMTT(30)
<1> HIDE DEF Good
<1>6. Good(S)
  <2>1. S \in SUBSET S /\ Cardinality(S) \in P
    BY <1>1, <1>5
  <2> QED
    BY <2>1, SMTT(30) DEF P
<1> QED
  BY <1>6 DEF Good

(* The loop of heap_get_stats over the free list.                          *)
LEMMA FreeBytesIs ==
  ASSUME NEW list, IsList(list)
  PROVE  LET sum == MapThenSumSet(LAMBDA i : list[i].size, DOMAIN list)
             units == {c \in Nat : Covers(list, c)}
         IN  /\ sum \in Nat /\ IsFiniteSet(units)
             /\ Cardinality(units) = sum + HEADER_SIZE * Len(list)
<1> DEFINE S == DOMAIN list
           Some(s) == CHOOSE i \in s : TRUE
           pick == [s \in SUBSET S |-> Some(s)]
           Value(f, s) == IF s = {} THEN 0 ELSE list[Some(s)].size + f[s \ {Some(s)}]
           iter == CHOOSE f : f = [s \in SUBSET S |-> Value(f, s)]
<1>1. list \in Seq(FreeBlock) /\ Sorted(list) /\ Len(list) \in Nat /\ S = 1 .. Len(list)
  BY DEF IsList
<1>2. MapThenSumSet(LAMBDA i : list[i].size, S) = iter[S]
  BY Zenon DEF MapThenSumSet, MapThenFoldSet
<1>3. IsFiniteSet(S) /\ Cardinality(S) = Len(list)
  <2>1. IsFiniteSet(1 .. Len(list))
        /\ Cardinality(1 .. Len(list)) = IF 1 > Len(list) THEN 0 ELSE Len(list) - 1 + 1
    BY <1>1, FS_Interval, SMTT(30)
  <2> QED
    BY <1>1, <2>1
<1>3a. \A s \in SUBSET S : s # {} => Some(s) \in s /\ pick[s] = Some(s)
  OBVIOUS
<1> HIDE DEF Some, pick
<1>4. Picks(pick, S)
  BY <1>3a, Zenon DEF Picks
<1>5. \A f : \A s \in SUBSET S : Value(f, s) = Step(f, list, pick, s)
  BY <1>3a, Zenon DEF Step
<1> HIDE DEF S, Value
<1>6. PICK g : IsSum(g, S, list, pick)
  BY <1>3, <1>4, SumExists, Zenon
<1>7. g = [s \in SUBSET S |-> Value(g, s)]
  BY <1>5, <1>6, Zenon DEF IsSum
<1>8. iter = [s \in SUBSET S |-> Value(iter, s)]
  BY <1>7, Zenon
<1> HIDE DEF iter
<1>9. IsSum(iter, S, list, pick)
  BY <1>5, <1>8, Zenon DEF IsSum
<1>10. \A i \in S : list[i].addr \in Nat /\ list[i].size \in Nat
  BY <1>1, BlockOf
<1>11. \A i, j \in S : i # j => Apart(list[i], list[j])
  BY <1>1 DEF Sorted, Apart
<1>12. /\ iter[S] \in Nat /\ IsFiniteSet(Units(list, S))
       /\ Cardinality(Units(list, S)) = iter[S] + HEADER_SIZE * Cardinality(S)
  BY <1>3, <1>4, <1>9, <1>10, <1>11, SumIs, Zenon
<1>13. Units(list, S) = {c \in Nat : Covers(list, c)}
  BY <1>1 DEF Units, Covers
<1> QED
  BY <1>2, <1>3, <1>12, <1>13, Zenon DEF S

LEMMA LiveBytesIs ==
  ASSUME NEW blocks, IsFiniteSet(blocks), blocks \subseteq LiveBlock,
         \A b, d \in blocks : b # d => Apart(b, d)
  PROVE  LET sum == MapThenSumSet(LAMBDA b : b.size, blocks)
             units == {c \in Nat : InUse(blocks, c)}
         IN  /\ sum \in Nat /\ IsFiniteSet(units)
             /\ Cardinality(units) = sum + HEADER_SIZE * Cardinality(blocks)
<1> DEFINE S == blocks
           blk == [b \in S |-> b]
           Some(s) == CHOOSE x \in s : TRUE
           pick == [s \in SUBSET S |-> Some(s)]
           Value(f, s) == IF s = {} THEN 0 ELSE Some(s).size + f[s \ {Some(s)}]
           iter == CHOOSE f : f = [s \in SUBSET S |-> Value(f, s)]
<1>1. MapThenSumSet(LAMBDA b : b.size, S) = iter[S]
  BY Zenon DEF MapThenSumSet, MapThenFoldSet
<1>2. \A s \in SUBSET S : s # {} => Some(s) \in s /\ pick[s] = Some(s) /\ blk[Some(s)] = Some(s)
  OBVIOUS
<1>3. \A f : \A s \in SUBSET S : Value(f, s) = Step(f, blk, pick, s)
  <2> HIDE DEF Some, pick, blk
  <2> QED
    BY <1>2, Zenon DEF Step
<1>4. /\ Picks(pick, S)
      /\ \A i \in S : blk[i] = i /\ blk[i].addr \in Nat /\ blk[i].size \in Nat
      /\ \A i, j \in S : i # j => Apart(blk[i], blk[j])
  <2>1. Picks(pick, S)
    BY <1>2, Zenon DEF Picks
  <2> QED
    BY <2>1 DEF LiveBlock
<1> HIDE DEF pick, Value, blk
<1>5. PICK g : IsSum(g, S, blk, pick)
  BY <1>4, SumExists, Zenon
<1>6. g = [s \in SUBSET S |-> Value(g, s)]
  BY <1>3, <1>5, Zenon DEF IsSum
<1>7. iter = [s \in SUBSET S |-> Value(iter, s)]
  BY <1>6, Zenon
<1> HIDE DEF iter
<1>8. IsSum(iter, S, blk, pick)
  BY <1>3, <1>7, Zenon DEF IsSum
<1>9. /\ iter[S] \in Nat /\ IsFiniteSet(Units(blk, S))
      /\ Cardinality(Units(blk, S)) = iter[S] + HEADER_SIZE * Cardinality(S)
  BY <1>4, <1>8, SumIs, Zenon
<1>10. Units(blk, S) = {c \in Nat : InUse(blocks, c)}
  BY <1>4, SMTT(30) DEF Units, InUse
<1> QED
  BY <1>1, <1>9, <1>10
-----------------------------------------------------------------------------
(* list_insert *)
Insertion(list, b, i) ==
  [k \in 1 .. Len(list) + 1 |-> IF k < i THEN list[k] ELSE IF k = i THEN b ELSE list[k - 1]]

LEMMA Concatenation ==
  ASSUME NEW S, NEW s \in Seq(S), NEW t \in Seq(S)
  PROVE  /\ s \o t \in Seq(S) /\ Len(s \o t) = Len(s) + Len(t)
         /\ \A k \in 1 .. Len(s) : (s \o t)[k] = s[k]
         /\ \A k \in Len(s) + 1 .. Len(s) + Len(t) : (s \o t)[k] = t[k - Len(s)]
  OBVIOUS

LEMMA SeqIsFunction ==
  ASSUME NEW S, NEW s \in Seq(S)
  PROVE  s = [k \in 1 .. Len(s) |-> s[k]]
  OBVIOUS

LEMMA InsertAtIs ==
  ASSUME NEW S, NEW s \in Seq(S), NEW b \in S, NEW i \in 1 .. Len(s)
  PROVE  InsertAt(s, i, b) = Insertion(s, b, i)
<1>1. Len(s) \in Nat /\ i \in Nat
  OBVIOUS
<1> DEFINE l == SubSeq(s, 1, i - 1)
           r == SubSeq(s, i, Len(s))
<1>2. l \in Seq(S) /\ Len(l) = i - 1 /\ \A k \in 1 .. i - 1 : l[k] = s[k]
  BY <1>1
<1>3. r \in Seq(S) /\ Len(r) = Len(s) - i + 1 /\ \A k \in 1 .. Len(s) - i + 1 : r[k] = s[i + k - 1]
  BY <1>1
<1> HIDE DEF l, r
<1> DEFINE m == l \o <<b>>
<1>4. m \in Seq(S) /\ Len(m) = i /\ m[i] = b /\ \A k \in 1 .. i - 1 : m[k] = s[k]
  BY <1>1, <1>2
<1> HIDE DEF m
<1> DEFINE t == m \o r
<1>5. /\ t \in Seq(S) /\ Len(t) = Len(s) + 1
      /\ \A k \in 1 .. i : t[k] = m[k]
      /\ \A k \in i + 1 .. Len(s) + 1 : t[k] = r[k - i]
  <2>1. /\ t \in Seq(S) /\ Len(t) = Len(m) + Len(r)
        /\ \A k \in 1 .. Len(m) : t[k] = m[k]
        /\ \A k \in Len(m) + 1 .. Len(m) + Len(r) : t[k] = r[k - Len(m)]
    BY <1>3, <1>4, Concatenation, Zenon
  <2>2. Len(m) = i /\ Len(m) + Len(r) = Len(s) + 1
    BY <1>1, <1>3, <1>4
  <2> QED
    BY <2>1, <2>2
<1> HIDE DEF t
<1>6. ASSUME NEW k \in 1 .. Len(s) + 1 PROVE t[k] = Insertion(s, b, i)[k]
  <2>1. CASE k <= i
    BY <1>1, <1>4, <1>5, <2>1 DEF Insertion
  <2>2. CASE k > i
    <3>1. k \in i + 1 .. Len(s) + 1 /\ k - i \in 1 .. Len(s) - i + 1 /\ i + (k - i) - 1 = k - 1
      BY <1>1, <2>2
    <3>2. t[k] = s[k - 1]
      BY <1>3, <1>5, <3>1
    <3> QED
      BY <1>1, <2>2, <3>2 DEF Insertion
  <2> QED
    BY <1>1, <2>1, <2>2
<1>7. t = Insertion(s, b, i)
  <2>1. Insertion(s, b, i) = [k \in 1 .. Len(s) + 1 |-> Insertion(s, b, i)[k]]
    BY DEF Insertion
  <2>2. t = [k \in 1 .. Len(s) + 1 |-> t[k]]
    BY <1>5, SeqIsFunction
  <2> HIDE DEF Insertion
  <2> QED
    BY <1>6, <2>1, <2>2
<1> QED
  BY <1>7 DEF InsertAt, l, r, m, t

LEMMA AppendIs ==
  ASSUME NEW S, NEW s \in Seq(S), NEW b \in S
  PROVE  Append(s, b) = Insertion(s, b, Len(s) + 1)
<1> DEFINE t == Append(s, b)
<1>1. t \in Seq(S) /\ Len(t) = Len(s) + 1 /\ Len(s) + 1 \in Nat
  OBVIOUS
<1>2. \A k \in 1 .. Len(s) + 1 : t[k] = Insertion(s, b, Len(s) + 1)[k]
  BY DEF Insertion
<1>3. Insertion(s, b, Len(s) + 1) = [k \in 1 .. Len(s) + 1 |-> Insertion(s, b, Len(s) + 1)[k]]
  BY DEF Insertion
<1> HIDE DEF t
<1>4. t = [k \in 1 .. Len(s) + 1 |-> t[k]]
  BY <1>1, SeqIsFunction
<1>5. t = Insertion(s, b, Len(s) + 1)
  BY <1>2, <1>3, <1>4
<1> QED
  BY <1>5 DEF t

(* b fits between the blocks before i and those from i on.                 *)
Fits(list, b, i) ==
  /\ i \in 1 .. Len(list) + 1
  /\ \A k \in 1 .. i - 1 : End(list[k]) <= b.addr
  /\ \A k \in i .. Len(list) : End(b) <= list[k].addr

LEMMA InsertWhere ==
  ASSUME NEW list, IsList(list), NEW b \in FreeBlock,
         \A k \in 1 .. Len(list) : Apart(list[k], b)
  PROVE  \E i : Fits(list, b, i) /\ list_insert(list, b) = Insertion(list, b, i)
<1> DEFINE I == {k \in 1 .. Len(list) : list[k].addr > b.addr}
           f == SelectInSeq(list, LAMBDA c : c.addr > b.addr)
<1>1. f = IF I # {} THEN Min(I) ELSE 0
  BY Zenon DEF SelectInSeq
<1>2. list_insert(list, b) = IF f = 0 THEN Append(list, b) ELSE InsertAt(list, f, b)
  BY Zenon DEF list_insert
<1>3. list \in Seq(FreeBlock) /\ Sorted(list) /\ Len(list) \in Nat
  BY DEF IsList
<1>4. b.addr \in Nat /\ End(b) \in Nat /\ b.addr < End(b)
  BY EndIs DEF FreeBlock
<1>5. ASSUME NEW k \in 1 .. Len(list)
      PROVE  /\ list[k].addr > b.addr => End(b) <= list[k].addr
             /\ ~ (list[k].addr > b.addr) => End(list[k]) <= b.addr
  <2>1. list[k].addr \in Nat /\ End(list[k]) \in Nat /\ list[k].addr < End(list[k])
    BY <1>3, BlockOf
  <2> QED
    BY <1>4, <2>1 DEF Apart
<1>6. I \subseteq Nat /\ I \subseteq 1 .. Len(list)
  OBVIOUS
<1>7. \A k \in 1 .. Len(list) : k \in I <=> list[k].addr > b.addr
  OBVIOUS
<1> HIDE DEF I, f
<1>8. CASE I = {}
  <2>1. list_insert(list, b) = Insertion(list, b, Len(list) + 1)
    BY <1>1, <1>2, <1>3, <1>8, AppendIs, SMTT(30)
  <2>2. Fits(list, b, Len(list) + 1)
    BY <1>3, <1>5, <1>7, <1>8 DEF Fits
  <2> QED
    BY <2>1, <2>2
<1>9. CASE I # {}
  <2>1. f \in I /\ \A k \in I : f <= k
    BY <1>1, <1>6, <1>9, LowestExists, Zenon DEF Min
  <2>2. f \in 1 .. Len(list) /\ f # 0
    BY <1>6, <2>1
  <2>3. list_insert(list, b) = Insertion(list, b, f)
    BY <1>2, <1>3, <2>2, InsertAtIs
  <2>4. ASSUME NEW k \in 1 .. f - 1 PROVE End(list[k]) <= b.addr
    <3>1. k \in 1 .. Len(list) /\ ~ (f <= k)
      BY <1>3, <2>2
    <3>2. ~ (list[k].addr > b.addr)
      BY <1>7, <2>1, <3>1
    <3> QED
      BY <1>5, <3>1, <3>2
  <2>5. ASSUME NEW k \in f .. Len(list) PROVE End(b) <= list[k].addr
    <3>1. k \in 1 .. Len(list) /\ (k = f \/ f < k)
      BY <1>3, <2>2
    <3>2. End(b) <= list[f].addr
      BY <1>5, <1>7, <2>1, <2>2
    <3>3. CASE k = f
      BY <3>2, <3>3
    <3>4. CASE f < k
      <4>1. End(list[f]) <= list[k].addr
        BY <1>3, <2>2, <3>1, <3>4, SMTT(30) DEF Sorted
      <4>2. /\ list[f].addr \in Nat /\ End(list[f]) \in Nat /\ list[f].addr < End(list[f])
            /\ list[k].addr \in Nat
        BY <1>3, <2>2, <3>1, BlockOf, SMTT(30)
      <4> QED
        BY <1>4, <3>2, <4>1, <4>2, SMTT(30)
    <3> QED
      BY <3>1, <3>3, <3>4
  <2>6. Fits(list, b, f)
    BY <1>3, <2>2, <2>4, <2>5, SMTT(30) DEF Fits
  <2> QED
    BY <2>3, <2>6
<1> QED
  BY <1>8, <1>9

LEMMA InsertionIs ==
  ASSUME NEW list, IsList(list), NEW b \in FreeBlock, NEW i, Fits(list, b, i)
  PROVE  LET new == Insertion(list, b, i)
         IN  /\ IsList(new) /\ Len(new) = Len(list) + 1
             /\ \A c : Covers(new, c) <=> Covers(list, c) \/ In(c, b)
<1> DEFINE new == Insertion(list, b, i)
           n == Len(list)
<1>1. list \in Seq(FreeBlock) /\ Sorted(list) /\ n \in Nat /\ i \in 1 .. n + 1
  BY DEF IsList, Fits
<1>2. ASSUME NEW k \in 1 .. n + 1
      PROVE  /\ k < i => new[k] = list[k] /\ k \in 1 .. n /\ k \in 1 .. i - 1
             /\ k = i => new[k] = b
             /\ k > i => new[k] = list[k - 1] /\ k - 1 \in 1 .. n /\ k - 1 \in i .. n
             /\ new[k] \in FreeBlock
  <2>1. new[k] = IF k < i THEN list[k] ELSE IF k = i THEN b ELSE list[k - 1]
    BY DEF Insertion
  <2>2. CASE k < i
    BY <1>1, <2>1, <2>2
  <2>3. CASE k = i
    BY <1>1, <2>1, <2>3
  <2>4. CASE k > i
    BY <1>1, <2>1, <2>4
  <2> QED
    BY <1>1, <2>2, <2>3, <2>4
<1>3. new \in Seq(FreeBlock) /\ Len(new) = n + 1
  <2>1. new = [k \in 1 .. n + 1 |-> new[k]]
    BY DEF Insertion
  <2> HIDE DEF new
  <2>2. new \in [1 .. n + 1 -> FreeBlock]
    BY <1>2, <2>1
  <2> QED
    BY <1>1, <2>2
<1> HIDE DEF new
<1>4. Sorted(new)
  <2> SUFFICES ASSUME NEW j \in 1 .. n + 1, NEW k \in 1 .. n + 1, j < k
               PROVE  End(new[j]) <= new[k].addr
    BY <1>3 DEF Sorted
  <2>1. CASE k < i
    BY <1>1, <1>2, <2>1 DEF Sorted
  <2>2. CASE k = i
    BY <1>1, <1>2, <2>2 DEF Fits
  <2>3. CASE k > i /\ j < i
    <3>1. new[j] = list[j] /\ new[k] = list[k - 1] /\ j \in 1 .. n /\ k - 1 \in 1 .. n /\ j < k - 1
      BY <1>1, <1>2, <2>3
    <3> QED
      BY <1>1, <3>1 DEF Sorted
  <2>4. CASE k > i /\ j = i
    BY <1>1, <1>2, <2>4 DEF Fits
  <2>5. CASE k > i /\ j > i
    <3>1. /\ new[j] = list[j - 1] /\ new[k] = list[k - 1] /\ j - 1 \in 1 .. n /\ k - 1 \in 1 .. n
          /\ j - 1 < k - 1
      BY <1>1, <1>2, <2>5
    <3> QED
      BY <1>1, <3>1 DEF Sorted
  <2> QED
    BY <1>1, <2>1, <2>2, <2>3, <2>4, <2>5, SMTT(30)
<1>5. ASSUME NEW c, Covers(new, c) PROVE Covers(list, c) \/ In(c, b)
  <2>1. PICK k \in 1 .. n + 1 : In(c, new[k])
    BY <1>3, <1>5, SMTT(30) DEF Covers
  <2>2. k < i \/ k = i \/ k > i
    BY <1>1
  <2> QED
    BY <1>2, <2>1, <2>2 DEF Covers
<1>6. ASSUME NEW c, In(c, b) PROVE Covers(new, c)
  BY <1>1, <1>2, <1>3, <1>6, SMTT(30) DEF Covers
<1>7. ASSUME NEW c, Covers(list, c) PROVE Covers(new, c)
  <2>1. PICK k \in 1 .. n : In(c, list[k])
    BY <1>7 DEF Covers
  <2>2. CASE k < i
    <3>1. k \in 1 .. n + 1 /\ new[k] = list[k]
      BY <1>1, <1>2, <2>2, SMTT(30)
    <3> QED
      BY <1>3, <2>1, <3>1, SMTT(30) DEF Covers
  <2>3. CASE ~ (k < i)
    <3>1. k + 1 \in 1 .. n + 1 /\ k + 1 > i /\ k + 1 - 1 = k
      BY <1>1, <2>3, SMTT(30)
    <3>2. new[k + 1] = list[k]
      BY <1>2, <3>1
    <3> QED
      BY <1>3, <2>1, <3>1, <3>2, SMTT(30) DEF Covers
  <2> QED
    BY <2>2, <2>3
<1> QED
  BY <1>3, <1>4, <1>5, <1>6, <1>7, SMTT(30) DEF IsList, new
-----------------------------------------------------------------------------
(* Coalesce: the pass as it stands after each block of the list.           *)
Start == [out |-> <<>>, merged |-> 0]
IsPass(f, list, n) ==
  f[0] = Start /\ \A i \in 1 .. n : f[i] = coalesce_forward(f[i - 1], list[i])

LEMMA PassExists ==
  ASSUME NEW list
  PROVE  \A n \in Nat : \E f : f = [i \in 0 .. n |-> IF i = 0 THEN Start
                                         ELSE coalesce_forward(f[i - 1], list[i])]
<1> DEFINE Value(f, i) == IF i = 0 THEN Start ELSE coalesce_forward(f[i - 1], list[i])
           S == {n \in Nat : \E f : f = [i \in 0 .. n |-> Value(f, i)]}
<1>1. 0 \in S
  <2> DEFINE f == [i \in 0 .. 0 |-> Start]
  <2>1. \A i \in 0 .. 0 : Value(f, i) = Start
    OBVIOUS
  <2>2. f = [i \in 0 .. 0 |-> Value(f, i)]
    BY <2>1, Zenon
  <2> QED
    BY <2>2, Zenon
<1>2. ASSUME NEW n \in Nat, n \in S PROVE n + 1 \in S
  <2>1. PICK f : f = [i \in 0 .. n |-> Value(f, i)]
    BY <1>2, SMTT(30)
  <2> DEFINE g == [i \in 0 .. n + 1 |-> IF i = n + 1 THEN coalesce_forward(f[n], list[n + 1])
                                       ELSE f[i]]
  <2>2. ASSUME NEW i \in 0 .. n + 1 PROVE g[i] = Value(g, i)
    <3>1. CASE i = n + 1
      <4>1. i # 0 /\ i - 1 = n /\ g[n] = f[n]
        BY <3>1
      <4> QED
        BY <3>1, <4>1, SMTT(30)
    <3>2. CASE i # n + 1
      <4>1. i \in 0 .. n /\ g[i] = f[i]
        BY <3>2
      <4>2. f[i] = Value(f, i)
        BY <2>1, <4>1, Zenon
      <4>3. CASE i = 0
        BY <4>1, <4>2, <4>3, SMTT(30)
      <4>4. CASE i # 0
        <5>1. g[i - 1] = f[i - 1]
          BY <4>1, <4>4
        <5> QED
          BY <4>1, <4>2, <4>4, <5>1, SMTT(30)
      <4> QED
        BY <4>3, <4>4, SMTT(30)
    <3> QED
      BY <3>1, <3>2
  <2>3. g = [i \in 0 .. n + 1 |-> g[i]]
    OBVIOUS
  <2> HIDE DEF g, Value
  <2>4. g = [i \in 0 .. n + 1 |-> Value(g, i)]
    BY <2>2, <2>3, Zenon
  <2> QED
    BY <2>4
<1> HIDE DEF S
<1>3. Nat \subseteq S
  BY <1>1, <1>2, Induction, SMTT(30)
<1> QED
  BY <1>3, Zenon DEF S

LEMMA CoalesceIs ==
  ASSUME NEW list \in Seq(FreeBlock)
  PROVE  \E f : IsPass(f, list, Len(list)) /\ Coalesce(list) = f[Len(list)].out
<1> DEFINE n == Len(list)
           Value(f, i) == IF i = 0 THEN Start ELSE coalesce_forward(f[i - 1], list[i])
           pass == CHOOSE f : f = [i \in 0 .. n |-> Value(f, i)]
<1>1. n \in Nat
  OBVIOUS
<1>2. Coalesce(list) = pass[n].out
  BY Zenon DEF Coalesce, Start
<1>3. \E f : f = [i \in 0 .. n |-> Value(f, i)]
  BY <1>1, PassExists, Zenon
<1>4. pass = [i \in 0 .. n |-> Value(pass, i)]
  BY <1>3, Zenon
<1> HIDE DEF pass, Value
<1>5. \A i \in 0 .. n : pass[i] = Value(pass, i)
  BY <1>4, Zenon
<1>6. IsPass(pass, list, n)
  BY <1>1, <1>5 DEF IsPass, Value
<1> QED
  BY <1>2, <1>6, SMTT(30)

SeamAt(list, i) == End(list[i]) = list[i + 1].addr

(* A seam the pass leaves behind block m: m was made of two blocks of the  *)
(* list that touch, and it touches the next one.                           *)
Left(list, i, out, m) ==
  \E k \in 2 .. i - 1 : /\ SeamAt(list, k - 1) /\ SeamAt(list, k)
                        /\ out[m].addr = list[k - 1].addr /\ End(out[m]) = End(list[k])

(* What holds of the pass after i blocks of the list.                      *)
LastIs(list, i, out, merged) ==
  /\ Len(out) > 0 /\ End(out[Len(out)]) = End(list[i])
  /\ merged = 0 => out[Len(out)] = list[i]
  /\ merged = 1 => i > 1 /\ SeamAt(list, i - 1) /\ out[Len(out)].addr = list[i - 1].addr
PassInv(list, i, out, merged) ==
  /\ IsList(out) /\ merged \in {0, 1}
  /\ \A c \in Nat : Covers(out, c) <=> \E k \in 1 .. i : In(c, list[k])
  /\ i = 0 => out = <<>> /\ merged = 0
  /\ i > 0 => LastIs(list, i, out, merged)
  /\ \A m \in 1 .. Len(out) - 1 : SeamAt(out, m) => Left(list, i, out, m)

LEMMA PassStart == ASSUME NEW list PROVE PassInv(list, 0, <<>>, 0)
<1>1. <<>> \in Seq(FreeBlock) /\ Len(<<>>) = 0
  OBVIOUS
<1>2. IsList(<<>>)
  BY <1>1 DEF IsList, Sorted
<1>3. \A c : ~Covers(<<>>, c)
  BY <1>1 DEF Covers
<1> QED
  BY <1>1, <1>2, <1>3, SMTT(30) DEF PassInv

LEMMA LeftStays ==
  ASSUME NEW list, NEW i \in Nat, NEW out, NEW new, NEW m, Left(list, i, out, m),
         new[m].addr = out[m].addr, End(new[m]) = End(out[m])
  PROVE  Left(list, i + 1, new, m)
<1>1. PICK k \in 2 .. i - 1 : /\ SeamAt(list, k - 1) /\ SeamAt(list, k)
                              /\ out[m].addr = list[k - 1].addr /\ End(out[m]) = End(list[k])
  BY DEF Left
<1>2. k \in 2 .. (i + 1) - 1
  OBVIOUS
<1> QED
  BY <1>1, <1>2, SMTT(30) DEF Left

(* A block is absorbed into the one it touches.                            *)
LEMMA PassAbsorbs ==
  ASSUME NEW list, IsList(list), NEW i \in 0 .. Len(list) - 1, NEW out, NEW new,
         PassInv(list, i, out, 0), Len(out) > 0, End(out[Len(out)]) = list[i + 1].addr,
         new = [out EXCEPT ![Len(out)] = Absorb(@, list[i + 1])]
  PROVE  PassInv(list, i + 1, new, 1)
<1> DEFINE n == Len(out)
           b == list[i + 1]
           w == Absorb(out[n], b)
<1>1. /\ list \in Seq(FreeBlock) /\ Sorted(list) /\ out \in Seq(FreeBlock) /\ Sorted(out)
      /\ n \in Nat /\ n \in 1 .. n /\ Len(list) \in Nat /\ i \in Nat
  BY DEF PassInv, IsList
<1>2. /\ out[n] \in FreeBlock /\ out[n].addr \in Nat /\ out[n].size \in Nat
      /\ End(out[n]) = out[n].addr + HEADER_SIZE + out[n].size
      /\ b.addr \in Nat /\ b.size \in Nat /\ End(b) = b.addr + HEADER_SIZE + b.size
  BY <1>1, BlockOf, EndIs, SMTT(30)
<1>3. w \in FreeBlock /\ w.addr = out[n].addr /\ w.size = out[n].size + HEADER_SIZE + b.size
  BY <1>2, HeaderSize, SMTT(30) DEF Absorb, FreeBlock
<1> HIDE DEF w, b
<1>4. End(w) = End(b) /\ b.addr = End(out[n])
  <2>1. w.addr \in Nat /\ w.size \in Nat
    BY <1>2, <1>3, HeaderSize, SMTT(30)
  <2>2. End(w) = w.addr + HEADER_SIZE + w.size
    BY <2>1, EndIs, SMTT(30)
  <2>3. b.addr = End(out[n])
    BY DEF b
  <2>4. End(w) = out[n].addr + HEADER_SIZE + (out[n].size + HEADER_SIZE + b.size)
    BY <1>3, <2>2, SMTT(30)
  <2>5. End(b) = (out[n].addr + HEADER_SIZE + out[n].size) + HEADER_SIZE + b.size
    BY <1>2, <2>3, SMTT(30)
  <2>6. \A x, y, z \in Nat : x + HEADER_SIZE + (y + HEADER_SIZE + z)
                               = (x + HEADER_SIZE + y) + HEADER_SIZE + z
    BY HeaderSize, SMTT(30)
  <2>7. End(w) = End(b)
    BY <1>2, <2>4, <2>5, <2>6, Zenon
  <2> QED
    BY <2>3, <2>7
<1>5. /\ new \in Seq(FreeBlock) /\ Len(new) = n /\ new[n] = w
      /\ \A k \in 1 .. n : k # n => new[k] = out[k]
  BY <1>1, <1>3, SMTT(30) DEF w, b
<1>5a. Len(new) = n /\ n \in Nat
  BY <1>1, <1>5, Zenon
<1>6. i > 0 /\ out[n] = list[i] /\ SeamAt(list, i)
  <2>1. i # 0
    BY <1>1 DEF PassInv
  <2>2. i > 0
    BY <1>1, <2>1, SMTT(30)
  <2> QED
    BY <2>2 DEF PassInv, LastIs, SeamAt
<1>7. Sorted(new)
  <2> SUFFICES ASSUME NEW j \in 1 .. n, NEW k \in 1 .. n, j < k
               PROVE  End(new[j]) <= new[k].addr
    BY <1>5, Zenon DEF Sorted
  <2>1. j # n
    <3> HIDE DEF n
    <3> QED
      BY <1>5a, SMTT(30)
  <2>2. new[j] = out[j]
    BY <1>5, <2>1, Zenon
  <2>3. new[k].addr = out[k].addr
    BY <1>3, <1>5, Zenon
  <2> QED
    BY <1>1, <2>2, <2>3, SMTT(30) DEF Sorted
<1>8. ASSUME NEW c \in Nat PROVE Covers(new, c) <=> Covers(out, c) \/ In(c, b)
  <2>1. In(c, w) <=> In(c, out[n]) \/ In(c, b)
    <3>1. b.addr < End(b) /\ out[n].addr < End(out[n])
          /\ End(out[n]) \in Nat /\ End(b) \in Nat
      BY <1>1, BlockOf, SMTT(30) DEF b
    <3> HIDE DEF n
    <3> QED
      BY <1>2, <1>3, <1>4, <3>1, SMTT(30) DEF In
  <2>2. ASSUME NEW k \in 1 .. n, k # n PROVE In(c, new[k]) <=> In(c, out[k])
    BY <1>5, <2>2, Zenon
  <2> QED
    BY <1>1, <1>5, <2>1, <2>2, Zenon DEF Covers
<1>9. ASSUME NEW c \in Nat PROVE (\E k \in 1 .. i + 1 : In(c, list[k])) <=>
                           (\E k \in 1 .. i : In(c, list[k])) \/ In(c, b)
  BY <1>1 DEF b
<1>10. \A c \in Nat : Covers(new, c) <=> \E k \in 1 .. i + 1 : In(c, list[k])
  BY <1>8, <1>9, Zenon DEF PassInv
<1>11. LastIs(list, i + 1, new, 1)
  <2>1. i + 1 > 1 /\ (i + 1) - 1 = i
    BY <1>1, <1>6, SMTT(30)
  <2>2. new[Len(new)] = w /\ Len(new) > 0
    BY <1>5, <1>5a, Zenon
  <2>3. End(new[Len(new)]) = End(list[i + 1])
    BY <1>4, <2>2, SMTT(30) DEF b
  <2>4. new[Len(new)].addr = list[i].addr
    BY <1>3, <1>6, <2>2, SMTT(30)
  <2> QED
    BY <1>6, <2>1, <2>2, <2>3, <2>4 DEF LastIs
<1>12. ASSUME NEW m \in 1 .. Len(new) - 1, SeamAt(new, m) PROVE Left(list, i + 1, new, m)
  <2>1. m \in 1 .. n - 1 /\ m \in 1 .. n /\ m # n /\ m + 1 \in 1 .. n
    <3> HIDE DEF n
    <3> QED
      BY <1>5a
  <2>2. new[m] = out[m] /\ new[m + 1].addr = out[m + 1].addr
    BY <1>3, <1>5, <2>1, Zenon
  <2>3. Left(list, i, out, m)
    BY <1>12, <2>1, <2>2, SMTT(30) DEF PassInv, SeamAt
  <2> QED
    BY <1>1, <2>2, <2>3, LeftStays, Zenon
<1>13. IsList(new)
  BY <1>5, <1>7, Zenon DEF IsList
<1>14. i + 1 # 0
  BY <1>1, SMTT(30)
<1> QED
  BY <1>10, <1>11, <1>12, <1>13, <1>14, Zenon DEF PassInv

(* A block becomes the last one of the result.                             *)
LEMMA PassAppends ==
  ASSUME NEW list, IsList(list), NEW i \in 0 .. Len(list) - 1, NEW out, NEW merged,
         PassInv(list, i, out, merged),
         merged = 1 \/ Len(out) = 0 \/ End(out[Len(out)]) # list[i + 1].addr
  PROVE  PassInv(list, i + 1, Append(out, list[i + 1]), 0)
<1> DEFINE n == Len(out)
           b == list[i + 1]
           new == Append(out, b)
<1>1. /\ list \in Seq(FreeBlock) /\ Sorted(list) /\ out \in Seq(FreeBlock) /\ Sorted(out)
      /\ n \in Nat /\ Len(list) \in Nat /\ i \in Nat /\ i + 1 \in 1 .. Len(list)
  BY DEF PassInv, IsList
<1>2. b \in FreeBlock
  BY <1>1, SMTT(30)
<1> HIDE DEF b
<1>3. /\ new \in Seq(FreeBlock) /\ Len(new) = n + 1 /\ new[n + 1] = b
      /\ \A k \in 1 .. n : new[k] = out[k]
  BY <1>1, <1>2, SMTT(30)
<1> HIDE DEF new
<1>4. n > 0 => i > 0 /\ LastIs(list, i, out, merged)
  BY <1>1, SMTT(30) DEF PassInv
<1>5. ASSUME NEW j \in 1 .. n PROVE End(out[j]) <= b.addr
  <2>1. i > 0 /\ End(out[n]) = End(list[i]) /\ n \in 1 .. n
    BY <1>1, <1>4, SMTT(30) DEF LastIs
  <2>2. End(list[i]) <= b.addr
    BY <1>1, <2>1, SMTT(30) DEF Sorted, b
  <2>3. CASE j = n
    BY <2>1, <2>2, <2>3, SMTT(30)
  <2>4. CASE j # n
    <3>1. End(out[j]) <= out[n].addr
      BY <1>1, <2>1, <2>4, SMTT(30) DEF Sorted
    <3>2. End(out[j]) \in Nat /\ End(out[n]) \in Nat /\ out[n].addr < End(out[n])
          /\ out[n].addr \in Nat /\ b.addr \in Nat
      BY <1>1, <2>1, BlockOf, SMTT(30) DEF b
    <3> HIDE DEF n
    <3> QED
      BY <2>1, <2>2, <3>1, <3>2, SMTT(30)
  <2> QED
    BY <2>3, <2>4, SMTT(30)
<1>6. Sorted(new)
  <2> SUFFICES ASSUME NEW j \in 1 .. n + 1, NEW k \in 1 .. n + 1, j < k
               PROVE  End(new[j]) <= new[k].addr
    BY <1>3, SMTT(30) DEF Sorted
  <2>1. j \in 1 .. n /\ new[j] = out[j]
    BY <1>1, <1>3, SMTT(30)
  <2>2. CASE k = n + 1
    BY <1>3, <1>5, <2>1, <2>2, SMTT(30)
  <2>3. CASE k # n + 1
    <3>1. k \in 1 .. n /\ new[k] = out[k]
      BY <1>1, <1>3, <2>3, SMTT(30)
    <3> QED
      BY <1>1, <2>1, <3>1, SMTT(30) DEF Sorted
  <2> QED
    BY <2>2, <2>3, SMTT(30)
<1>7. ASSUME NEW c \in Nat PROVE Covers(new, c) <=> Covers(out, c) \/ In(c, b)
  <2>1. \A k : k \in 1 .. n + 1 <=> k \in 1 .. n \/ k = n + 1
    BY <1>1, SMTT(30)
  <2>2. \A k \in 1 .. n : In(c, new[k]) <=> In(c, out[k])
    BY <1>3, SMTT(30)
  <2>3. In(c, new[n + 1]) <=> In(c, b)
    BY <1>3, SMTT(30)
  <2>4. Covers(new, c) <=> \E k \in 1 .. n + 1 : In(c, new[k])
    BY <1>3, Zenon DEF Covers
  <2> QED
    BY <2>1, <2>2, <2>3, <2>4, Zenon DEF Covers
<1>8. ASSUME NEW c \in Nat PROVE (\E k \in 1 .. i + 1 : In(c, list[k])) <=>
                                 (\E k \in 1 .. i : In(c, list[k])) \/ In(c, b)
  BY <1>1, SMTT(30) DEF b
<1>9. \A c \in Nat : Covers(new, c) <=> \E k \in 1 .. i + 1 : In(c, list[k])
  BY <1>7, <1>8, SMTT(30) DEF PassInv
<1>10. LastIs(list, i + 1, new, 0)
  BY <1>1, <1>3, SMTT(30) DEF LastIs, b
<1>11. ASSUME NEW m \in 1 .. Len(new) - 1, SeamAt(new, m) PROVE Left(list, i + 1, new, m)
  <2>1. m \in 1 .. n /\ (m = n \/ (m \in 1 .. n - 1 /\ m + 1 \in 1 .. n))
    <3>1. Len(new) = n + 1 /\ n \in Nat
      BY <1>1, <1>3
    <3> HIDE DEF n
    <3> QED
      BY <3>1, SMTT(30)
  <2>2. new[m] = out[m]
    BY <1>3, <2>1, SMTT(30)
  <2>3. CASE m = n
    <3>1. n > 0 /\ i > 0 /\ LastIs(list, i, out, merged)
      BY <1>4, <2>1, <2>3, SMTT(30)
    <3>2. End(out[n]) = b.addr
      BY <1>3, <1>11, <2>2, <2>3, SMTT(30) DEF SeamAt
    <3>3. merged = 1
      BY <3>1, <3>2, SMTT(30) DEF b
    <3>4. /\ i \in 2 .. (i + 1) - 1 /\ SeamAt(list, i - 1)
          /\ out[n].addr = list[i - 1].addr /\ End(out[n]) = End(list[i])
      BY <1>1, <3>1, <3>3, SMTT(30) DEF LastIs
    <3>5. SeamAt(list, i)
      BY <3>2, <3>4, SMTT(30) DEF SeamAt, b
    <3> QED
      BY <2>2, <2>3, <3>4, <3>5, SMTT(30) DEF Left
  <2>4. CASE m # n
    <3>1. new[m + 1] = out[m + 1]
      BY <1>3, <2>1, <2>4, SMTT(30)
    <3>2. Left(list, i, out, m)
      BY <1>11, <2>1, <2>2, <2>4, <3>1, SMTT(30) DEF PassInv, SeamAt
    <3> QED
      BY <1>1, <2>2, <3>2, LeftStays, SMTT(30)
  <2> QED
    BY <2>3, <2>4, SMTT(30)
<1>12. IsList(new) /\ i + 1 # 0
  BY <1>1, <1>3, <1>6, SMTT(30) DEF IsList
<1>13. PassInv(list, i + 1, new, 0)
  BY <1>9, <1>10, <1>11, <1>12, Zenon DEF PassInv
<1> QED
  BY <1>13, SMTT(30) DEF new, b

LEMMA CoalesceResult ==
  ASSUME NEW list, IsList(list)
  PROVE  LET new == Coalesce(list)
         IN  /\ IsList(new)
             /\ \A c \in Nat : Covers(new, c) <=> Covers(list, c)
             /\ \A m \in 1 .. Len(new) - 1 : SeamAt(new, m) => Left(list, Len(list), new, m)
<1>1. list \in Seq(FreeBlock) /\ Len(list) \in Nat
  BY DEF IsList
<1>2. PICK f : IsPass(f, list, Len(list)) /\ Coalesce(list) = f[Len(list)].out
  BY <1>1, CoalesceIs, SMTT(30)
<1> DEFINE S == {i \in Nat : i <= Len(list) => PassInv(list, i, f[i].out, f[i].merged)}
<1>3. 0 \in S
  <2>1. f[0].out = <<>> /\ f[0].merged = 0
    BY <1>2, SMTT(30) DEF IsPass, Start
  <2> QED
    BY <2>1, PassStart, SMTT(30)
<1>4. ASSUME NEW i \in Nat, i \in S PROVE i + 1 \in S
  <2> SUFFICES ASSUME i + 1 <= Len(list)
               PROVE  PassInv(list, i + 1, f[i + 1].out, f[i + 1].merged)
    OBVIOUS
  <2>1. i \in 0 .. Len(list) - 1 /\ i + 1 \in 1 .. Len(list) /\ (i + 1) - 1 = i
    BY <1>1, SMTT(30)
  <2>2. PassInv(list, i, f[i].out, f[i].merged)
    BY <1>1, <1>4, <2>1, SMTT(30)
  <2>3. f[i + 1] = coalesce_forward(f[i], list[i + 1])
    BY <1>2, <2>1, SMTT(30) DEF IsPass
  <2> DEFINE out == f[i].out
             merged == f[i].merged
  <2>4. merged \in {0, 1} /\ Len(out) \in Nat
    BY <2>2, SMTT(30) DEF PassInv, IsList
  <2>5. CASE Len(out) > 0 /\ merged = 0 /\ End(out[Len(out)]) = list[i + 1].addr
    <3>1. /\ f[i + 1].out = [out EXCEPT ![Len(out)] = Absorb(@, list[i + 1])]
          /\ f[i + 1].merged = 1
      BY <2>3, <2>5, SMTT(30) DEF coalesce_forward
    <3> HIDE DEF out, merged
    <3>2. PassInv(list, i, out, 0)
      BY <2>2, <2>5, SMTT(30) DEF out, merged
    <3>3. PassInv(list, i + 1, f[i + 1].out, 1)
      BY <2>1, <2>5, <3>1, <3>2, PassAbsorbs, SMTT(30)
    <3> QED
      BY <3>1, <3>3, SMTT(30)
  <2>6. CASE ~ (Len(out) > 0 /\ merged = 0 /\ End(out[Len(out)]) = list[i + 1].addr)
    <3>1. f[i + 1].out = Append(out, list[i + 1]) /\ f[i + 1].merged = 0
      BY <2>3, <2>6, SMTT(30) DEF coalesce_forward
    <3>2. PassInv(list, i, out, merged)
      BY <2>2, SMTT(30)
    <3> HIDE DEF out, merged
    <3>3. merged = 1 \/ Len(out) = 0 \/ End(out[Len(out)]) # list[i + 1].addr
      BY <2>4, <2>6, SMTT(30)
    <3>4. PassInv(list, i + 1, Append(out, list[i + 1]), 0)
      BY <2>1, <3>2, <3>3, PassAppends, SMTT(30)
    <3> QED
      BY <3>1, <3>4, SMTT(30)
  <2> QED
    BY <2>5, <2>6, SMTT(30)
<1> HIDE DEF S
<1>5. Nat \subseteq S
  BY <1>3, <1>4, Induction, SMTT(30)
<1>6. PassInv(list, Len(list), f[Len(list)].out, f[Len(list)].merged)
  BY <1>1, <1>5, SMTT(30) DEF S
<1> QED
  BY <1>2, <1>6, Zenon DEF PassInv, Covers

OneSeamIn(list) ==
  \A i, j \in 1 .. Len(list) - 1 : SeamAt(list, i) /\ SeamAt(list, j) => i = j

(* Two seams that the pass leaves come from four seams of the list.        *)
LEMMA FourSeams ==
  ASSUME NEW list, IsList(list), NEW new, IsList(new),
         \A m \in 1 .. Len(new) - 1 : SeamAt(new, m) => Left(list, Len(list), new, m),
         NEW m \in 1 .. Len(new) - 1, NEW o \in 1 .. Len(new) - 1, m < o,
         SeamAt(new, m), SeamAt(new, o)
  PROVE  \E j, k \in 1 .. Len(list) - 2 :
            /\ j + 1 < k
            /\ SeamAt(list, j) /\ SeamAt(list, j + 1) /\ SeamAt(list, k) /\ SeamAt(list, k + 1)
<1>1. /\ list \in Seq(FreeBlock) /\ Sorted(list) /\ Len(list) \in Nat
      /\ new \in Seq(FreeBlock) /\ Sorted(new) /\ Len(new) \in Nat
  BY SMTT(30) DEF IsList
<1>2. PICK j \in 2 .. Len(list) - 1 :
              /\ SeamAt(list, j - 1) /\ SeamAt(list, j)
              /\ new[m].addr = list[j - 1].addr /\ End(new[m]) = End(list[j])
  BY SMTT(30) DEF Left
<1>3. PICK k \in 2 .. Len(list) - 1 :
              /\ SeamAt(list, k - 1) /\ SeamAt(list, k)
              /\ new[o].addr = list[k - 1].addr /\ End(new[o]) = End(list[k])
  BY SMTT(30) DEF Left
<1>4. m \in 1 .. Len(new) /\ o \in 1 .. Len(new) /\ j \in 1 .. Len(list) /\ k - 1 \in 1 .. Len(list)
  BY <1>1, SMTT(30)
<1>5. End(list[j]) <= list[k - 1].addr
  <2>1. End(new[m]) <= new[o].addr
    BY <1>1, <1>4, SMTT(30) DEF Sorted
  <2> QED
    BY <1>2, <1>3, <2>1, SMTT(30)
<1>6. j < k - 1
  <2> SUFFICES ASSUME k - 1 <= j PROVE FALSE
    BY <1>1, SMTT(30)
  <2>1. list[j].addr < End(list[j]) /\ list[j].addr \in Nat /\ End(list[j]) \in Nat
        /\ list[k - 1].addr < End(list[k - 1]) /\ list[k - 1].addr \in Nat
        /\ End(list[k - 1]) \in Nat
    BY <1>1, <1>4, BlockOf, Zenon
  <2>2. CASE k - 1 = j
    BY <1>5, <2>1, <2>2, SMTT(30)
  <2>3. CASE k - 1 # j
    <3>1. End(list[k - 1]) <= list[j].addr
      BY <1>1, <1>4, <2>3, SMTT(30) DEF Sorted
    <3>2. \A a, b, c, d \in Nat : ~ (a < b /\ c < d /\ d <= a /\ b <= c)
      BY SMTT(30)
    <3> QED
      BY <1>5, <2>1, <3>1, <3>2, Zenon
  <2> QED
    BY <2>2, <2>3, SMTT(30)
<1>7. /\ j - 1 \in 1 .. Len(list) - 2 /\ k - 1 \in 1 .. Len(list) - 2 /\ (j - 1) + 1 = j
      /\ (k - 1) + 1 = k /\ (j - 1) + 1 < k - 1
  BY <1>1, <1>6, SMTT(30)
<1> QED
  BY <1>2, <1>3, <1>7, SMTT(30)

(* Linking a block into a list with one seam makes at most three, and the  *)
(* pass that follows leaves one of them.                                   *)
LEMMA InsertCoalesce ==
  ASSUME NEW list, IsList(list), OneSeamIn(list), NEW b \in FreeBlock,
         \A k \in 1 .. Len(list) : Apart(list[k], b)
  PROVE  LET new == Coalesce(list_insert(list, b))
         IN  /\ IsList(new) /\ OneSeamIn(new)
             /\ \A c \in Nat : Covers(new, c) <=> Covers(list, c) \/ In(c, b)
<1>1. PICK i : Fits(list, b, i) /\ list_insert(list, b) = Insertion(list, b, i)
  BY InsertWhere, SMTT(30)
<1> DEFINE mid == Insertion(list, b, i)
           new == Coalesce(mid)
<1>2. IsList(mid) /\ Len(mid) = Len(list) + 1 /\ \A c : Covers(mid, c) <=> Covers(list, c) \/ In(c, b)
  BY <1>1, InsertionIs, SMTT(30)
<1>3. Len(list) \in Nat /\ i \in 1 .. Len(list) + 1
  BY <1>1, SMTT(30) DEF IsList, Fits
<1>4. ASSUME NEW k \in 1 .. Len(list), SeamAt(mid, k), k # i, k # i - 1
      PROVE  LET o == IF k < i THEN k ELSE k - 1
             IN  o \in 1 .. Len(list) - 1 /\ SeamAt(list, o)
  <2>1. \A j \in 1 .. Len(list) + 1 :
           mid[j] = IF j < i THEN list[j] ELSE IF j = i THEN b ELSE list[j - 1]
    BY SMTT(30) DEF Insertion
  <2> HIDE DEF mid
  <2>2. CASE k < i
    <3>1. k \in 1 .. Len(list) + 1 /\ k + 1 \in 1 .. Len(list) + 1 /\ k + 1 < i
          /\ k \in 1 .. Len(list) - 1
      BY <1>3, <1>4, <2>2, SMTT(30)
    <3>2. mid[k] = list[k] /\ mid[k + 1] = list[k + 1]
      BY <2>1, <2>2, <3>1, SMTT(30)
    <3> QED
      BY <1>4, <2>2, <3>1, <3>2, SMTT(30) DEF SeamAt
  <2>3. CASE ~ (k < i)
    <3>1. k \in 1 .. Len(list) + 1 /\ k + 1 \in 1 .. Len(list) + 1 /\ ~ (k + 1 < i) /\ k + 1 # i
          /\ k - 1 \in 1 .. Len(list) - 1 /\ (k + 1) - 1 = k /\ (k - 1) + 1 = k
      BY <1>3, <1>4, <2>3, SMTT(30)
    <3>2. mid[k] = list[k - 1] /\ mid[k + 1] = list[k]
      BY <1>4, <2>1, <2>3, <3>1, SMTT(30)
    <3> QED
      BY <1>4, <2>3, <3>1, <3>2, SMTT(30) DEF SeamAt
  <2> QED
    BY <2>2, <2>3, SMTT(30)
<1> HIDE DEF mid
<1>5. ASSUME NEW k \in 1 .. Len(list), NEW l \in 1 .. Len(list), SeamAt(mid, k), SeamAt(mid, l),
             k # i, k # i - 1, l # i, l # i - 1
      PROVE  k = l
  <2> DEFINE o == IF k < i THEN k ELSE k - 1
             q == IF l < i THEN l ELSE l - 1
  <2>1. o \in 1 .. Len(list) - 1 /\ SeamAt(list, o)
    BY <1>4, <1>5, SMTT(30)
  <2>2. q \in 1 .. Len(list) - 1 /\ SeamAt(list, q)
    BY <1>4, <1>5, SMTT(30)
  <2>3. o = q
    BY <2>1, <2>2, SMTT(30) DEF OneSeamIn
  <2> QED
    BY <1>3, <1>5, <2>3, SMTT(30)
<1>6. /\ IsList(new) /\ \A c \in Nat : Covers(new, c) <=> Covers(mid, c)
      /\ \A m \in 1 .. Len(new) - 1 : SeamAt(new, m) => Left(mid, Len(mid), new, m)
  BY <1>2, CoalesceResult, SMTT(30)
<1> HIDE DEF new
<1>7. ASSUME NEW m \in 1 .. Len(new) - 1, NEW o \in 1 .. Len(new) - 1, m < o,
             SeamAt(new, m), SeamAt(new, o)
      PROVE  FALSE
  <2>1. PICK j, k \in 1 .. Len(mid) - 2 :
            /\ j + 1 < k
            /\ SeamAt(mid, j) /\ SeamAt(mid, j + 1) /\ SeamAt(mid, k) /\ SeamAt(mid, k + 1)
    BY <1>2, <1>6, <1>7, FourSeams, Zenon
  <2>2. /\ j \in 1 .. Len(list) /\ j + 1 \in 1 .. Len(list) /\ k \in 1 .. Len(list)
        /\ k + 1 \in 1 .. Len(list)
    BY <1>2, <1>3, SMTT(30)
  <2>3. (j = i \/ j = i - 1) \/ (k = i \/ k = i - 1)
    BY <1>3, <1>5, <2>1, <2>2, SMTT(30)
  <2>4. (j + 1 = i \/ j + 1 = i - 1) \/ (k = i \/ k = i - 1)
    BY <1>3, <1>5, <2>1, <2>2, SMTT(30)
  <2>5. (j = i \/ j = i - 1) \/ (k + 1 = i \/ k + 1 = i - 1)
    BY <1>3, <1>5, <2>1, <2>2, SMTT(30)
  <2>6. (j + 1 = i \/ j + 1 = i - 1) \/ (k + 1 = i \/ k + 1 = i - 1)
    BY <1>3, <1>5, <2>1, <2>2, SMTT(30)
  <2>7. (j = i \/ j = i - 1) \/ (j + 1 = i \/ j + 1 = i - 1)
    BY <1>3, <1>5, <2>1, <2>2, SMTT(30)
  <2>8. (k = i \/ k = i - 1) \/ (k + 1 = i \/ k + 1 = i - 1)
    BY <1>3, <1>5, <2>1, <2>2, SMTT(30)
  <2> QED
    BY <1>3, <2>1, <2>2, <2>3, <2>4, <2>5, <2>6, <2>7, <2>8, SMTT(30)
<1>8. OneSeamIn(new)
  <2> SUFFICES ASSUME NEW m \in 1 .. Len(new) - 1, NEW o \in 1 .. Len(new) - 1,
                      SeamAt(new, m), SeamAt(new, o), m # o
               PROVE  FALSE
    BY DEF OneSeamIn
  <2>1. m < o \/ o < m
    BY SMTT(30)
  <2> QED
    BY <1>7, <2>1, SMTT(30)
<1>9. \A c \in Nat : Covers(new, c) <=> Covers(list, c) \/ In(c, b)
  BY <1>2, <1>6, SMTT(30)
<1> QED
  BY <1>1, <1>6, <1>8, <1>9, SMTT(30) DEF mid, new
-----------------------------------------------------------------------------
(* kmalloc takes block i out of the list, or leaves the rest of it there.  *)
Removal(list, i) == [k \in 1 .. Len(list) - 1 |-> IF k < i THEN list[k] ELSE list[k + 1]]

LEMMA RemoveAtIs ==
  ASSUME NEW S, NEW s \in Seq(S), NEW i \in 1 .. Len(s)
  PROVE  RemoveAt(s, i) = Removal(s, i) /\ Removal(s, i) \in Seq(S) /\ Len(Removal(s, i)) = Len(s) - 1
<1>1. Len(s) \in Nat /\ i \in Nat /\ Len(s) - 1 \in Nat
  BY SMTT(30)
<1> DEFINE l == SubSeq(s, 1, i - 1)
           r == SubSeq(s, i + 1, Len(s))
<1>2. l \in Seq(S) /\ Len(l) = i - 1 /\ \A k \in 1 .. i - 1 : l[k] = s[k]
  BY <1>1, SMTT(30)
<1>3. r \in Seq(S) /\ Len(r) = Len(s) - i /\ \A k \in 1 .. Len(s) - i : r[k] = s[i + k]
  BY <1>1, SMTT(30)
<1> HIDE DEF l, r
<1> DEFINE t == l \o r
<1>4. /\ t \in Seq(S) /\ Len(t) = Len(s) - 1
      /\ \A k \in 1 .. i - 1 : t[k] = l[k]
      /\ \A k \in i .. Len(s) - 1 : t[k] = r[k - (i - 1)]
  <2>1. /\ t \in Seq(S) /\ Len(t) = Len(l) + Len(r)
        /\ \A k \in 1 .. Len(l) : t[k] = l[k]
        /\ \A k \in Len(l) + 1 .. Len(l) + Len(r) : t[k] = r[k - Len(l)]
    BY <1>2, <1>3, Concatenation, Zenon
  <2>2. Len(l) = i - 1 /\ Len(l) + 1 = i /\ Len(l) + Len(r) = Len(s) - 1
    BY <1>1, <1>2, <1>3, SMTT(30)
  <2> QED
    BY <2>1, <2>2, SMTT(30)
<1> HIDE DEF t
<1>5. ASSUME NEW k \in 1 .. Len(s) - 1 PROVE t[k] = Removal(s, i)[k]
  <2>1. CASE k < i
    BY <1>1, <1>2, <1>4, <2>1, SMTT(30) DEF Removal
  <2>2. CASE ~ (k < i)
    <3>1. k \in i .. Len(s) - 1 /\ k - (i - 1) \in 1 .. Len(s) - i /\ i + (k - (i - 1)) = k + 1
      BY <1>1, <2>2, SMTT(30)
    <3>2. t[k] = s[k + 1]
      BY <1>3, <1>4, <3>1, SMTT(30)
    <3> QED
      BY <1>1, <2>2, <3>2, SMTT(30) DEF Removal
  <2> QED
    BY <2>1, <2>2, SMTT(30)
<1>6. t = Removal(s, i)
  <2>1. Removal(s, i) = [k \in 1 .. Len(s) - 1 |-> Removal(s, i)[k]]
    BY SMTT(30) DEF Removal
  <2>2. t = [k \in 1 .. Len(s) - 1 |-> t[k]]
    BY <1>4, SeqIsFunction, SMTT(30)
  <2> HIDE DEF Removal
  <2> QED
    BY <1>5, <2>1, <2>2, SMTT(30)
<1> QED
  BY <1>4, <1>6, Zenon DEF RemoveAt, l, r, t

LEMMA RemovalIs ==
  ASSUME NEW list, IsList(list), OneSeamIn(list), NEW i \in 1 .. Len(list)
  PROVE  LET new == RemoveAt(list, i)
         IN  /\ IsList(new) /\ OneSeamIn(new)
             /\ \A c \in Nat : Covers(list, c) <=> Covers(new, c) \/ In(c, list[i])
             /\ \A c \in Nat : ~ (Covers(new, c) /\ In(c, list[i]))
<1> DEFINE new == RemoveAt(list, i)
           n == Len(list)
           Old(k) == IF k < i THEN k ELSE k + 1
<1>1. list \in Seq(FreeBlock) /\ Sorted(list) /\ n \in Nat /\ i \in Nat
  BY DEF IsList
<1>2. new = Removal(list, i) /\ new \in Seq(FreeBlock) /\ Len(new) = n - 1
  BY <1>1, RemoveAtIs, SMTT(30)
<1>3. ASSUME NEW k \in 1 .. n - 1 PROVE Old(k) \in 1 .. n /\ Old(k) # i /\ new[k] = list[Old(k)]
  BY <1>1, <1>2, SMTT(30) DEF Removal
<1> HIDE DEF new
<1>4. Sorted(new)
  <2> SUFFICES ASSUME NEW j \in 1 .. n - 1, NEW k \in 1 .. n - 1, j < k
               PROVE  End(new[j]) <= new[k].addr
    BY <1>2, SMTT(30) DEF Sorted
  <2>1. Old(j) < Old(k)
    BY <1>1, SMTT(30)
  <2>2. End(list[Old(j)]) <= list[Old(k)].addr
    BY <1>1, <1>3, <2>1, SMTT(30) DEF Sorted
  <2> QED
    BY <1>3, <2>2, SMTT(30)
<1>5. ASSUME NEW m \in 1 .. n - 2, SeamAt(new, m) PROVE m + 1 # i /\ Old(m) \in 1 .. n - 1 /\ SeamAt(list, Old(m))
  <2>1. m \in 1 .. n - 1 /\ m + 1 \in 1 .. n - 1
    BY <1>1, SMTT(30)
  <2>2. new[m] = list[Old(m)] /\ new[m + 1] = list[Old(m + 1)]
    BY <1>3, <2>1, SMTT(30)
  <2>3. End(list[Old(m)]) = list[Old(m + 1)].addr
    BY <1>5, <2>2, SMTT(30) DEF SeamAt
  <2>4. m + 1 # i
    <3> SUFFICES ASSUME m + 1 = i PROVE FALSE
      OBVIOUS
    <3>1. Old(m) = i - 1 /\ Old(m + 1) = i + 1 /\ i - 1 \in 1 .. n /\ i + 1 \in 1 .. n
      BY <1>1, <2>1, SMTT(30)
    <3>2. End(list[i - 1]) <= list[i].addr /\ End(list[i]) <= list[i + 1].addr
      BY <1>1, <3>1, SMTT(30) DEF Sorted
    <3>3. list[i].addr < End(list[i]) /\ list[i].addr \in Nat /\ End(list[i]) \in Nat
          /\ End(list[i - 1]) \in Nat /\ list[i + 1].addr \in Nat
      BY <1>1, <3>1, BlockOf, SMTT(30)
    <3>4. End(list[i - 1]) = list[i + 1].addr
      BY <2>3, <3>1, SMTT(30)
    <3>5. \A a, b, c \in Nat : ~ (a <= b /\ b < c /\ c <= a)
      BY SMTT(30)
    <3> QED
      BY <3>2, <3>3, <3>4, <3>5, Zenon
  <2>5. Old(m + 1) = Old(m) + 1 /\ Old(m) \in 1 .. n - 1
    BY <1>1, <2>1, <2>4, SMTT(30)
  <2> QED
    BY <2>3, <2>4, <2>5, SMTT(30) DEF SeamAt
<1>6. OneSeamIn(new)
  <2> SUFFICES ASSUME NEW m \in 1 .. n - 2, NEW o \in 1 .. n - 2, SeamAt(new, m), SeamAt(new, o)
               PROVE  m = o
    BY <1>1, <1>2, SMTT(30) DEF OneSeamIn
  <2>1. Old(m) = Old(o)
    BY <1>5, SMTT(30) DEF OneSeamIn
  <2> QED
    BY <1>1, <2>1, SMTT(30)
<1>7. ASSUME NEW c \in Nat, Covers(list, c) PROVE Covers(new, c) \/ In(c, list[i])
  <2>1. PICK k \in 1 .. n : In(c, list[k])
    BY <1>7, SMTT(30) DEF Covers
  <2>2. CASE k = i
    BY <2>1, <2>2, SMTT(30)
  <2>3. CASE k # i
    <3>1. PICK j \in 1 .. n - 1 : Old(j) = k
      <4>1. CASE k < i
        <5>1. k \in 1 .. n - 1 /\ Old(k) = k
          BY <1>1, <4>1, SMTT(30)
        <5> QED
          BY <5>1, SMTT(30)
      <4>2. CASE k > i
        <5>1. k - 1 \in 1 .. n - 1 /\ Old(k - 1) = k
          BY <1>1, <4>2, SMTT(30)
        <5> QED
          BY <5>1, SMTT(30)
      <4> QED
        BY <1>1, <2>3, <4>1, <4>2, SMTT(30)
    <3> QED
      BY <1>2, <1>3, <2>1, <3>1, Zenon DEF Covers
  <2> QED
    BY <2>2, <2>3, SMTT(30)
<1>8. ASSUME NEW c \in Nat, Covers(new, c) PROVE Covers(list, c) /\ ~In(c, list[i])
  <2>1. PICK k \in 1 .. n - 1 : In(c, new[k])
    BY <1>2, <1>8, SMTT(30) DEF Covers
  <2> DEFINE o == Old(k)
  <2>2. o \in 1 .. n /\ o # i /\ In(c, list[o])
    BY <1>3, <2>1, SMTT(30)
  <2> HIDE DEF o
  <2>3. Apart(list[o], list[i])
    BY <1>1, <2>2, SMTT(30) DEF Sorted, Apart
  <2>4. list[o].addr \in Nat /\ list[o].size \in Nat /\ list[i].addr \in Nat /\ list[i].size \in Nat
    BY <1>1, <2>2, BlockOf, SMTT(30)
  <2>5. ~In(c, list[i])
    BY <2>2, <2>3, <2>4, ApartMeans, Zenon
  <2> QED
    BY <2>2, <2>5, SMTT(30) DEF Covers
<1>9. ASSUME NEW c \in Nat, In(c, list[i]) PROVE Covers(list, c)
  BY <1>9, SMTT(30) DEF Covers
<1> QED
  BY <1>2, <1>4, <1>6, <1>7, <1>8, <1>9, SMTT(30) DEF IsList, new

(* What kmalloc hands out from block b.                                    *)
Granted(b, size) == [addr |-> b.addr, size |-> Cut(b, size).size]

LEMMA SplitIs ==
  ASSUME NEW b \in FreeBlock, NEW size \in Nat, Splits(b, size)
  PROVE  LET g == Granted(b, size)
             r == Rest(b, size)
         IN  /\ g \in FreeBlock /\ r \in FreeBlock /\ g.size = size /\ g.addr = b.addr
             /\ r.addr = End(g) /\ End(r) = End(b) /\ b.addr < r.addr
<1> DEFINE g == Granted(b, size)
           r == Rest(b, size)
<1>1. b.addr \in Nat /\ b.size \in Nat /\ End(b) = b.addr + HEADER_SIZE + b.size
  BY EndIs, SMTT(30) DEF FreeBlock
<1>2. MIN_ALLOC \in Nat /\ HEADER_SIZE \in Nat /\ HEADER_SIZE > 0
  BY HeapAssumption, SMTT(30)
<1>3. Cut(b, size).size = size
  BY SMTT(30) DEF Cut, FreeBlock
<1>4. g.addr = b.addr /\ g.size = size
  BY <1>3, SMTT(30) DEF Granted
<1>5. r.addr = b.addr + HEADER_SIZE + size /\ r.size = b.size - size - HEADER_SIZE
  BY SMTT(30) DEF Rest
<1>6. b.size - size - HEADER_SIZE \in Nat
  BY <1>1, <1>2, SMTT(30) DEF Splits
<1>7. g \in FreeBlock /\ r \in FreeBlock
  BY <1>1, <1>2, <1>3, <1>6, SMTT(30) DEF FreeBlock, Granted, Rest
<1> HIDE DEF g, r
<1>8. End(g) = b.addr + HEADER_SIZE + size
  BY <1>1, <1>4, EndIs, SMTT(30)
<1>9. End(r) = (b.addr + HEADER_SIZE + size) + HEADER_SIZE + (b.size - size - HEADER_SIZE)
  BY <1>1, <1>2, <1>5, <1>6, EndIs, SMTT(30)
<1> QED
  BY <1>1, <1>2, <1>4, <1>5, <1>7, <1>8, <1>9, SMTT(30) DEF g, r

LEMMA CutIs ==
  ASSUME NEW list, IsList(list), OneSeamIn(list), NEW i \in 1 .. Len(list),
         NEW g \in FreeBlock, NEW r \in FreeBlock, g.addr = list[i].addr,
         r.addr = End(g), End(r) = End(list[i]), list[i].addr < r.addr
  PROVE  LET new == [list EXCEPT ![i] = r]
         IN  /\ IsList(new) /\ OneSeamIn(new)
             /\ \A c \in Nat : Covers(list, c) <=> Covers(new, c) \/ In(c, g)
             /\ \A c \in Nat : ~ (Covers(new, c) /\ In(c, g))
<1> DEFINE new == [list EXCEPT ![i] = r]
           n == Len(list)
<1>1. list \in Seq(FreeBlock) /\ Sorted(list) /\ n \in Nat /\ i \in Nat
  BY SMTT(30) DEF IsList
<1>2. /\ new \in Seq(FreeBlock) /\ Len(new) = n /\ new[i] = r
      /\ \A k \in 1 .. n : k # i => new[k] = list[k]
  BY <1>1
<1> HIDE DEF new
<1>3. ASSUME NEW k \in 1 .. n PROVE End(new[k]) = End(list[k]) /\ list[k].addr <= new[k].addr
  <2>1. list[k].addr \in Nat /\ r.addr \in Nat
    BY <1>1, BlockOf, Zenon DEF FreeBlock
  <2> QED
    BY <1>2, <2>1
<1>4. \A k \in 1 .. n : list[k].addr \in Nat /\ End(list[k]) \in Nat /\ new[k].addr \in Nat
                         /\ list[k].addr < End(list[k])
  BY <1>1, <1>2, BlockOf
<1>5. Sorted(new)
  <2> SUFFICES ASSUME NEW j \in 1 .. n, NEW k \in 1 .. n, j < k
               PROVE  End(new[j]) <= new[k].addr
    BY <1>2 DEF Sorted
  <2>1. End(list[j]) <= list[k].addr
    BY <1>1 DEF Sorted
  <2>2. \A a, b, c \in Nat : a <= b /\ b <= c => a <= c
    OBVIOUS
  <2>3. End(list[j]) <= new[k].addr
    BY <1>3, <1>4, <2>1, <2>2, Zenon
  <2> QED
    BY <1>3, <2>3
<1>6. ASSUME NEW m \in 1 .. n - 1, SeamAt(new, m) PROVE SeamAt(list, m)
  <2>1. m \in 1 .. n /\ m + 1 \in 1 .. n
    BY <1>1
  <2>2. End(list[m]) = new[m + 1].addr
    BY <1>3, <1>6, <2>1 DEF SeamAt
  <2>3. CASE m + 1 # i
    BY <1>2, <2>1, <2>2, <2>3 DEF SeamAt
  <2>4. CASE m + 1 = i
    <3>1. End(list[m]) <= list[i].addr
      BY <1>1, <2>1, <2>4 DEF Sorted
    <3>2. End(list[m]) = r.addr
      BY <1>2, <2>2, <2>4
    <3>3. list[i].addr \in Nat /\ r.addr \in Nat
      BY <1>4 DEF FreeBlock
    <3> QED
      BY <3>1, <3>2, <3>3
  <2> QED
    BY <2>3, <2>4
<1>7. OneSeamIn(new)
  BY <1>2, <1>6, SMTT(30) DEF OneSeamIn
<1>8. ASSUME NEW c \in Nat
      PROVE  /\ In(c, list[i]) <=> In(c, r) \/ In(c, g)
             /\ ~ (In(c, r) /\ In(c, g))
  <2>1. r.addr \in Nat /\ g.addr \in Nat /\ End(r) \in Nat /\ End(g) \in Nat /\ r.addr < End(r)
        /\ g.addr < End(g)
    BY EndIs DEF FreeBlock
  <2> QED
    BY <2>1 DEF In
<1>9. ASSUME NEW c \in Nat, NEW k \in 1 .. n, k # i, In(c, list[k])
      PROVE  ~In(c, g)
  <2>1. Apart(list[k], list[i])
    BY <1>1, <1>9 DEF Sorted, Apart
  <2>2. list[k].addr \in Nat /\ list[k].size \in Nat /\ list[i].addr \in Nat /\ list[i].size \in Nat
    BY <1>1, BlockOf
  <2>3. ~In(c, list[i])
    BY <1>9, <2>1, <2>2, ApartMeans
  <2> QED
    BY <1>8, <2>3
<1>10. ASSUME NEW c \in Nat PROVE Covers(list, c) <=> Covers(new, c) \/ In(c, g)
  <2>1. \A k \in 1 .. n : k # i => (In(c, new[k]) <=> In(c, list[k]))
    BY <1>2
  <2>2. In(c, new[i]) <=> In(c, r)
    BY <1>2
  <2>3. Covers(new, c) <=> \E k \in 1 .. n : In(c, new[k])
    BY <1>2, Zenon DEF Covers
  <2> QED
    BY <1>8, <2>1, <2>2, <2>3, Zenon DEF Covers
<1>11. ASSUME NEW c \in Nat, Covers(new, c) PROVE ~In(c, g)
  <2>1. PICK k \in 1 .. n : In(c, new[k])
    BY <1>2, <1>11 DEF Covers
  <2>2. CASE k = i
    BY <1>2, <1>8, <2>1, <2>2
  <2>3. CASE k # i
    BY <1>2, <1>9, <2>1, <2>3, SMTT(30)
  <2> QED
    BY <2>2, <2>3
<1> QED
  BY <1>2, <1>5, <1>7, <1>10, <1>11, Zenon DEF IsList, new

LEMMA UnlinkIs ==
  ASSUME NEW list, IsList(list), OneSeamIn(list), NEW i \in 1 .. Len(list), NEW size \in Nat,
         list[i].size >= size
  PROVE  LET new == Unlink(list, i, size)
             g == Granted(list[i], size)
         IN  /\ IsList(new) /\ OneSeamIn(new) /\ g \in FreeBlock /\ g.size >= size
             /\ \A c \in Nat : Covers(list, c) <=> Covers(new, c) \/ In(c, g)
             /\ \A c \in Nat : ~ (Covers(new, c) /\ In(c, g))
<1> DEFINE g == Granted(list[i], size)
           r == Rest(list[i], size)
<1>1. list[i] \in FreeBlock /\ list[i].addr \in Nat /\ list[i].size \in Nat
  BY BlockOf DEF IsList
<1>2. CASE Splits(list[i], size)
  <2>1. /\ g \in FreeBlock /\ r \in FreeBlock /\ g.size = size /\ g.addr = list[i].addr
        /\ r.addr = End(g) /\ End(r) = End(list[i]) /\ list[i].addr < r.addr
    BY <1>1, <1>2, SplitIs
  <2>2. Unlink(list, i, size) = [list EXCEPT ![i] = r]
    BY <1>2 DEF Unlink
  <2> HIDE DEF g, r
  <2>3. g.size >= size
    BY <2>1
  <2> DEFINE new == [list EXCEPT ![i] = r]
  <2>4. /\ IsList(new) /\ OneSeamIn(new)
        /\ \A c \in Nat : Covers(list, c) <=> Covers(new, c) \/ In(c, g)
        /\ \A c \in Nat : ~ (Covers(new, c) /\ In(c, g))
    BY <2>1, CutIs, Zenon
  <2> QED
    BY <2>1, <2>2, <2>3, <2>4, Zenon DEF g
<1>3. CASE ~Splits(list[i], size)
  <2>1. g = list[i]
    BY <1>1, <1>3 DEF Granted, Cut, FreeBlock
  <2>2. Unlink(list, i, size) = RemoveAt(list, i)
    BY <1>3 DEF Unlink
  <2> HIDE DEF g
  <2> QED
    BY <1>1, <2>1, <2>2, RemovalIs DEF g
<1> QED
  BY <1>2, <1>3
-----------------------------------------------------------------------------
(* pmm_alloc, and the block heap_add_page makes of a page.                 *)
LEMMA AllocFree ==
  ASSUME NEW map, pmm_alloc(map) # 0
  PROVE  pmm_alloc(map) \in Pages \ map
<1> DEFINE S == Pages \ map
<1>1. ~ (Pages \subseteq map)
  BY DEF pmm_alloc
<1>2. S \subseteq Nat /\ S # {}
  BY <1>1, PmmAssumption DEF Pages
<1> HIDE DEF S
<1>3. \E p \in S : \A q \in S : p <= q
  BY <1>2, LowestExists, Zenon
<1>4. pmm_alloc(map) = CHOOSE p \in S : \A q \in S : p <= q
  BY <1>1 DEF pmm_alloc, S
<1> QED
  BY <1>3, <1>4 DEF S

LEMMA PageSize == PAGE_SIZE \in Nat \ {0} /\ HEADER_SIZE <= PAGE_SIZE
  BY HeapAssumption

LEMMA Quotient ==
  ASSUME NEW w \in Nat \ {0}, NEW c \in Nat, NEW p \in Nat
  PROVE  c \div w \in Nat /\ (c \div w = p <=> p * w <= c /\ c < p * w + w)
<1>1. c = (c \div w) * w + (c % w) /\ c \div w \in Nat /\ c % w \in 0 .. w - 1
  OBVIOUS
<1> DEFINE q == c \div w
           r == c % w
<1> HIDE DEF q, r
<1>2. c = q * w + r /\ q \in Nat /\ r \in 0 .. w - 1
  BY <1>1 DEF q, r
<1>3. q = p => p * w <= c /\ c < p * w + w
  BY <1>2
<1>4. p * w <= c /\ c < p * w + w => q = p
  <2> SUFFICES ASSUME p * w <= c, c < p * w + w PROVE q = p
    OBVIOUS
  <2>1. CASE q < p
    <3>1. (q + 1) * w <= p * w
      BY <2>1, <1>2
    <3> QED
      BY <1>2, <3>1
  <2>2. CASE q > p
    <3>1. (p + 1) * w <= q * w
      BY <2>2, <1>2
    <3> QED
      BY <1>2, <3>1
  <2> QED
    BY <1>2, <2>1, <2>2
<1> QED
  BY <1>2, <1>3, <1>4 DEF q

LEMMA PageBlock ==
  ASSUME NEW page \in Pages
  PROVE  LET b == [addr |-> page * PAGE_SIZE, size |-> PAGE_SIZE - HEADER_SIZE]
         IN  b \in FreeBlock /\ \A c \in Nat : In(c, b) <=> c \div PAGE_SIZE = page
<1> DEFINE b == [addr |-> page * PAGE_SIZE, size |-> PAGE_SIZE - HEADER_SIZE]
           a == page * PAGE_SIZE
<1>1. page \in Nat
  BY PmmAssumption DEF Pages
<1>2. a \in Nat /\ PAGE_SIZE - HEADER_SIZE \in Nat
  BY <1>1, PageSize, HeaderSize
<1> HIDE DEF a
<1>3. b \in FreeBlock /\ b.addr = a /\ b.size = PAGE_SIZE - HEADER_SIZE
  BY <1>2 DEF FreeBlock, a
<1>4. End(b) = a + PAGE_SIZE
  <2> HIDE DEF b
  <2>1. End(b) = b.addr + HEADER_SIZE + b.size
    BY <1>2, <1>3, EndIs
  <2> QED
    BY <1>2, <1>3, <2>1, HeaderSize, PageSize
<1>5. ASSUME NEW c \in Nat PROVE In(c, b) <=> c \div PAGE_SIZE = page
  <2>1. c \div PAGE_SIZE = page <=> a <= c /\ c < a + PAGE_SIZE
    BY <1>1, PageSize, Quotient DEF a
  <2> QED
    BY <1>3, <1>4, <2>1 DEF In
<1> QED
  BY <1>3, <1>5
-----------------------------------------------------------------------------
(* AddPages, from a heap with this map and this list.  Every page of the   *)
(* heap is marked used, and the list covers what it did and the new pages. *)
Owned(map, list) == \A c \in Nat : Covers(list, c) => c \div PAGE_SIZE \in map

Grown(map, list, h) ==
  /\ h.map \subseteq Pages /\ map \subseteq h.map
  /\ IsList(h.list) /\ OneSeamIn(h.list) /\ h.failed \in {0, 1}
  /\ \A c \in Nat : Covers(h.list, c) <=> Covers(list, c) \/ c \div PAGE_SIZE \in h.map \ map

(* The heap has counted its new pages.                                     *)
Cells(pages) == {c \in Nat : c \div PAGE_SIZE \in pages}
CountIs(pages, n) ==
  n \in Nat /\ IsFiniteSet(Cells(pages)) /\ Cardinality(Cells(pages)) = n * PAGE_SIZE
Counted(map, n, h) == \E k \in Nat : h.pages = n + k /\ CountIs(h.map \ map, k)

LEMMA CountNone == CountIs({}, 0)
<1>1. Cells({}) = {}
  BY DEF Cells
<1> QED
  BY <1>1, FS_EmptySet, PageSize DEF CountIs

LEMMA CountMore ==
  ASSUME NEW P, NEW Q, P \cap Q = {}, NEW n, NEW k, CountIs(P, n), CountIs(Q, k)
  PROVE  CountIs(P \cup Q, n + k)
<1> DEFINE p == Cells(P)
           q == Cells(Q)
<1>1. Cells(P \cup Q) = p \cup q /\ p \cap q = {}
  BY DEF Cells
<1>2. /\ n \in Nat /\ IsFiniteSet(p) /\ Cardinality(p) = n * PAGE_SIZE
      /\ k \in Nat /\ IsFiniteSet(q) /\ Cardinality(q) = k * PAGE_SIZE
  BY DEF CountIs
<1> HIDE DEF p, q
<1>3. /\ IsFiniteSet(p \cup q)
      /\ Cardinality(p \cup q) = Cardinality(p) + Cardinality(q) - Cardinality(p \cap q)
  BY <1>2, FS_Union
<1>4. Cardinality(p \cap q) = 0
  BY <1>1, FS_EmptySet
<1>5. n * PAGE_SIZE + k * PAGE_SIZE - 0 = (n + k) * PAGE_SIZE /\ n + k \in Nat
  BY <1>2, PageSize
<1> QED
  BY <1>1, <1>2, <1>3, <1>4, <1>5, Zenon DEF CountIs

LEMMA CountOne == ASSUME NEW page \in Nat PROVE CountIs({page}, 1)
<1> DEFINE a == page * PAGE_SIZE
           b == a + PAGE_SIZE - 1
<1>1. a \in Nat
  BY PageSize
<1> HIDE DEF a
<1>2. \A c \in Nat : c \div PAGE_SIZE = page <=> a <= c /\ c < a + PAGE_SIZE
  BY PageSize, Quotient DEF a
<1>3. b \in Nat /\ a <= b /\ b - a + 1 = PAGE_SIZE
  BY <1>1, PageSize
<1>4. Cells({page}) = a .. b
  BY <1>1, <1>2, PageSize DEF Cells
<1> HIDE DEF b
<1>5. IsFiniteSet(a .. b) /\ Cardinality(a .. b) = PAGE_SIZE
  <2>1. IsFiniteSet(a .. b) /\ Cardinality(a .. b) = IF a > b THEN 0 ELSE b - a + 1
    BY <1>1, <1>3, FS_Interval
  <2> QED
    BY <1>1, <1>3, <2>1
<1>6. 1 * PAGE_SIZE = PAGE_SIZE
  BY PageSize
<1> QED
  BY <1>4, <1>5, <1>6 DEF CountIs

LEMMA CountByPage ==
  ASSUME NEW map, NEW n \in Nat, NEW h, Counted(map, n, h), map \subseteq h.map,
         h = [map |-> h.map, list |-> h.list, pages |-> h.pages, failed |-> h.failed]
  PROVE  Counted(map, n, heap_add_page(h))
<1> DEFINE page == pmm_alloc(h.map)
           g == heap_add_page(h)
<1>1. CASE page = 0
  <2>1. g = [h EXCEPT !.failed = 1]
    BY <1>1 DEF heap_add_page
  <2>2. g.map = h.map /\ g.pages = h.pages
    BY <2>1
  <2> HIDE DEF g
  <2> QED
    BY <2>2 DEF Counted, g
<1>2. CASE page # 0
  <2>1. page \in Pages /\ page \notin h.map /\ page \in Nat
    BY <1>2, AllocFree, PmmAssumption DEF Pages
  <2>2. g.map = h.map \cup {page} /\ g.pages = h.pages + 1
    BY <1>2 DEF heap_add_page, MarkUsed
  <2> HIDE DEF page, g
  <2>3. g.map \ map = (h.map \ map) \cup {page} /\ (h.map \ map) \cap {page} = {}
    BY <2>1, <2>2
  <2>4. PICK k \in Nat : h.pages = n + k /\ CountIs(h.map \ map, k)
    BY DEF Counted
  <2>5. CountIs(g.map \ map, k + 1)
    <3> DEFINE P == h.map \ map
    <3>1. CountIs({page}, 1) /\ CountIs(P, k) /\ P \cap {page} = {} /\ g.map \ map = P \cup {page}
      BY <2>1, <2>3, <2>4, CountOne
    <3> HIDE DEF P
    <3>2. CountIs(P \cup {page}, k + 1)
      BY <3>1, CountMore, Zenon
    <3> QED
      BY <3>1, <3>2
  <2>6. k + 1 \in Nat /\ g.pages = n + (k + 1)
    BY <2>2, <2>4
  <2>7. Counted(map, n, g)
    BY <2>5, <2>6 DEF Counted
  <2> QED
    BY <2>7 DEF g
<1> QED
  BY <1>1, <1>2

LEMMA GrowByPage ==
  ASSUME NEW map, NEW list, Owned(map, list), NEW h, Grown(map, list, h), h.failed = 0,
         h = [map |-> h.map, list |-> h.list, pages |-> h.pages, failed |-> h.failed]
  PROVE  /\ Grown(map, list, heap_add_page(h))
         /\ LET g == heap_add_page(h)
            IN  g = [map |-> g.map, list |-> g.list, pages |-> g.pages, failed |-> g.failed]
<1> DEFINE page == pmm_alloc(h.map)
           g == heap_add_page(h)
<1>1. CASE page = 0
  <2>1. g = [h EXCEPT !.failed = 1]
    BY <1>1 DEF heap_add_page
  <2>2. g = [map |-> h.map, list |-> h.list, pages |-> h.pages, failed |-> 1]
    BY <2>1
  <2> HIDE DEF g
  <2>3. g.map = h.map /\ g.list = h.list /\ g.pages = h.pages /\ g.failed = 1
    BY <2>2
  <2>4. Grown(map, list, g)
    BY <2>3 DEF Grown
  <2> QED
    BY <2>2, <2>3, <2>4 DEF g
<1>2. CASE page # 0
  <2> DEFINE b == [addr |-> page * PAGE_SIZE, size |-> PAGE_SIZE - HEADER_SIZE]
             new == Coalesce(list_insert(h.list, b))
  <2>1. page \in Pages /\ page \notin h.map
    BY <1>2, AllocFree
  <2>2. g = [map |-> h.map \cup {page}, list |-> new, pages |-> h.pages + 1, failed |-> h.failed]
    BY <1>2 DEF heap_add_page, MarkUsed
  <2> HIDE DEF page
  <2>3. b \in FreeBlock /\ \A c \in Nat : In(c, b) <=> c \div PAGE_SIZE = page
    BY <2>1, PageBlock
  <2> HIDE DEF b
  <2>4. ASSUME NEW k \in 1 .. Len(h.list) PROVE Apart(h.list[k], b)
    <3>1. /\ h.list[k].addr \in Nat /\ h.list[k].size \in Nat /\ b.addr \in Nat /\ b.size \in Nat
      BY <2>3, BlockOf DEF Grown, IsList, FreeBlock
    <3>2. ASSUME NEW c \in Nat, In(c, h.list[k]), In(c, b) PROVE FALSE
      <4>1. Covers(h.list, c) /\ c \div PAGE_SIZE = page
        BY <2>3, <3>2 DEF Covers
      <4>2. c \div PAGE_SIZE \in h.map
        BY <4>1 DEF Grown, Owned
      <4> QED
        BY <2>1, <4>1, <4>2
    <3> QED
      BY <3>1, <3>2, ApartFrom
  <2>5. /\ IsList(new) /\ OneSeamIn(new)
        /\ \A c \in Nat : Covers(new, c) <=> Covers(h.list, c) \/ In(c, b)
    BY <2>3, <2>4, InsertCoalesce DEF Grown
  <2> HIDE DEF new, g
  <2>6. g.map = h.map \cup {page} /\ g.list = new /\ g.failed = h.failed /\ g.pages = h.pages + 1
    BY <2>2
  <2>7. ASSUME NEW c \in Nat
        PROVE  Covers(g.list, c) <=> Covers(list, c) \/ c \div PAGE_SIZE \in g.map \ map
    <3>1. Covers(g.list, c) <=> Covers(list, c) \/ c \div PAGE_SIZE \in h.map \ map
                                \/ c \div PAGE_SIZE = page
      BY <2>3, <2>5, <2>6 DEF Grown
    <3>2. page \notin map
      BY <2>1 DEF Grown
    <3> QED
      BY <2>6, <3>1, <3>2
  <2>8. Grown(map, list, g)
    BY <2>1, <2>5, <2>6, <2>7 DEF Grown
  <2> QED
    BY <2>2, <2>6, <2>8 DEF g
<1> QED
  BY <1>1, <1>2

IsHeap(h) == h = [map |-> h.map, list |-> h.list, pages |-> h.pages, failed |-> h.failed]

AddPage(h) == IF h.failed = 1 THEN h ELSE heap_add_page(h)

LEMMA GrowthExists ==
  ASSUME NEW h
  PROVE  \A n \in Nat : \E f : f = [i \in 0 .. n |-> IF i = 0 THEN h ELSE AddPage(f[i - 1])]
<1> DEFINE Value(f, i) == IF i = 0 THEN h ELSE AddPage(f[i - 1])
           S == {n \in Nat : \E f : f = [i \in 0 .. n |-> Value(f, i)]}
<1>1. 0 \in S
  <2> DEFINE f == [i \in 0 .. 0 |-> h]
  <2>1. \A i \in 0 .. 0 : Value(f, i) = h
    OBVIOUS
  <2>2. f = [i \in 0 .. 0 |-> Value(f, i)]
    BY <2>1, Zenon
  <2> QED
    BY <2>2, Zenon
<1>2. ASSUME NEW n \in Nat, n \in S PROVE n + 1 \in S
  <2>1. PICK f : f = [i \in 0 .. n |-> Value(f, i)]
    BY <1>2
  <2> DEFINE g == [i \in 0 .. n + 1 |-> IF i = n + 1 THEN AddPage(f[n]) ELSE f[i]]
  <2>2. ASSUME NEW i \in 0 .. n + 1 PROVE g[i] = Value(g, i)
    <3>1. CASE i = n + 1
      <4>1. i # 0 /\ i - 1 = n /\ g[n] = f[n]
        BY <3>1
      <4> QED
        BY <3>1, <4>1
    <3>2. CASE i # n + 1
      <4>1. i \in 0 .. n /\ g[i] = f[i]
        BY <3>2
      <4>2. f[i] = Value(f, i)
        BY <2>1, <4>1, Zenon
      <4>3. CASE i = 0
        BY <4>1, <4>2, <4>3
      <4>4. CASE i # 0
        <5>1. g[i - 1] = f[i - 1]
          BY <4>1, <4>4
        <5> QED
          BY <4>1, <4>2, <4>4, <5>1
      <4> QED
        BY <4>3, <4>4
    <3> QED
      BY <3>1, <3>2
  <2>3. g = [i \in 0 .. n + 1 |-> g[i]]
    OBVIOUS
  <2> HIDE DEF g, Value
  <2>4. g = [i \in 0 .. n + 1 |-> Value(g, i)]
    BY <2>2, <2>3, Zenon
  <2> QED
    BY <2>4
<1> HIDE DEF S
<1>3. Nat \subseteq S
  BY <1>1, <1>2, Induction
<1> QED
  BY <1>3, Zenon DEF S

(* heap_add_page, as often as it takes or until there is no page.          *)
LEMMA AddPagesIs ==
  ASSUME NEW map, NEW list, Owned(map, list), NEW h, IsHeap(h), Grown(map, list, h), NEW n \in Nat,
         NEW m \in Nat, Counted(map, m, h)
  PROVE  Grown(map, list, AddPages(h, n)) /\ Counted(map, m, AddPages(h, n))
<1> DEFINE Value(f, i) == IF i = 0 THEN h ELSE AddPage(f[i - 1])
           grown == CHOOSE f : f = [i \in 0 .. n |-> Value(f, i)]
<1>1. AddPages(h, n) = grown[n]
  BY Zenon DEF AddPages, AddPage
<1>2. \E f : f = [i \in 0 .. n |-> Value(f, i)]
  BY GrowthExists, Zenon
<1>3. grown = [i \in 0 .. n |-> Value(grown, i)]
  BY <1>2, Zenon
<1> HIDE DEF grown
<1>4. grown[0] = h
  <2>1. 0 \in 0 .. n
    OBVIOUS
  <2> QED
    BY <1>3, <2>1, Zenon
<1>5. ASSUME NEW i \in 1 .. n PROVE grown[i] = AddPage(grown[i - 1])
  <2>1. i \in 0 .. n /\ i # 0
    OBVIOUS
  <2> QED
    BY <1>3, <2>1, Zenon DEF AddPage
<1> DEFINE S == {i \in Nat : i <= n => /\ Grown(map, list, grown[i]) /\ IsHeap(grown[i])
                                       /\ Counted(map, m, grown[i])}
<1>6. 0 \in S
  BY <1>4
<1>7. ASSUME NEW i \in Nat, i \in S PROVE i + 1 \in S
  <2> SUFFICES ASSUME i + 1 <= n
               PROVE  /\ Grown(map, list, grown[i + 1]) /\ IsHeap(grown[i + 1])
                      /\ Counted(map, m, grown[i + 1])
    BY SMTT(30)
  <2> DEFINE g == grown[i]
  <2>1. /\ Grown(map, list, g) /\ IsHeap(g) /\ g.failed \in {0, 1} /\ map \subseteq g.map
        /\ Counted(map, m, g)
    BY <1>7 DEF Grown
  <2>2. i + 1 \in 1 .. n /\ (i + 1) - 1 = i
    OBVIOUS
  <2>3. grown[i + 1] = AddPage(g)
    BY <1>5, <2>2
  <2> HIDE DEF g
  <2>4. CASE g.failed = 1
    BY <2>1, <2>3, <2>4 DEF AddPage
  <2>5. CASE g.failed = 0
    <3>1. grown[i + 1] = heap_add_page(g)
      BY <2>3, <2>5 DEF AddPage
    <3>2. Counted(map, m, heap_add_page(g))
      BY <2>1, CountByPage, Zenon DEF IsHeap
    <3> QED
      BY <2>1, <2>5, <3>1, <3>2, GrowByPage, Zenon DEF IsHeap
  <2> QED
    BY <2>1, <2>4, <2>5
<1> HIDE DEF S
<1>8. Nat \subseteq S
  BY <1>6, <1>7, Induction
<1>9. Grown(map, list, grown[n]) /\ Counted(map, m, grown[n])
  BY <1>8 DEF S
<1> QED
  BY <1>1, <1>9
-----------------------------------------------------------------------------
(* The inductive invariant.  The bitmap and the holders agree; the free    *)
(* list is sorted with at most one seam; the blocks in use are apart from  *)
(* each other and from the list; and a unit of memory is in a block, free  *)
(* or in use, exactly when its page is one that the heap holds.            *)
HeapPages == {p \in Pages : holders[p] = 1 /\ p \notin others}

PagesInv ==
  /\ PmmTypeOK /\ HeldOnce
  /\ \A p \in Pages : p \notin ClearedByInit => p \in bitmap
  /\ others \subseteq {p \in Pages : holders[p] = 1}

(* The blocks of the list and of the set tile the pages.                   *)
Tiling(list, blocks, pages) ==
  /\ IsList(list) /\ OneSeamIn(list) /\ blocks \subseteq LiveBlock
  /\ \A b, d \in blocks : b # d => Apart(b, d)
  /\ \A c \in Nat : ~ (Covers(list, c) /\ InUse(blocks, c))
  /\ \A c \in Nat : Covers(list, c) \/ InUse(blocks, c) <=> c \div PAGE_SIZE \in pages

(* The heap has counted its pages.                                         *)
CountInv == CountIs(HeapPages, heap_pages) /\ IsFiniteSet(live)

HeapInv == PagesInv /\ Tiling(free_list, live, HeapPages) /\ CountInv

LEMMA NothingCounted ==
  ASSUME NEW h, NEW n \in Nat, h.pages = n
  PROVE  Counted(h.map, n, h)
<1>1. 0 \in Nat /\ h.pages = n + 0 /\ h.map \ h.map = {}
  OBVIOUS
<1> QED
  BY <1>1, CountNone DEF Counted

LEMMA EmptyHeap ==
  /\ IsList(<<>>) /\ OneSeamIn(<<>>) /\ \A c : ~Covers(<<>>, c)
<1>1. <<>> \in Seq(FreeBlock) /\ Len(<<>>) = 0
  OBVIOUS
<1> QED
  BY <1>1 DEF IsList, Sorted, OneSeamIn, Covers

LEMMA HeapInitInv == Init => HeapInv
<1> SUFFICES ASSUME Init PROVE HeapInv
  OBVIOUS
<1> DEFINE map == Pages \ ClearedByInit
           h0 == Heap(map, <<>>, 0)
           h == AddPages(h0, INITIAL_PAGES)
<1>1. IsHeap(h0) /\ h0.map = map /\ h0.list = <<>> /\ h0.failed = 0 /\ h0.pages = 0
  BY DEF IsHeap, Heap
<1>2. /\ live = {} /\ others = {} /\ bitmap = h.map /\ free_list = h.list /\ heap_pages = h.pages
      /\ holders = [p \in Pages |-> IF p \in h.map /\ p \in ClearedByInit THEN 1 ELSE 0]
  BY Zenon DEF Init
<1>3. /\ Owned(map, <<>>) /\ Grown(map, <<>>, h0) /\ INITIAL_PAGES \in Nat
      /\ Counted(map, 0, h0)
  <2> HIDE DEF h0, map
  <2>1. h0.map = map /\ h0.list = <<>> /\ h0.failed = 0 /\ map \subseteq Pages
    BY <1>1 DEF map
  <2>2. Owned(map, <<>>)
    BY EmptyHeap DEF Owned
  <2>3. Grown(map, <<>>, h0)
    BY <2>1, EmptyHeap DEF Grown
  <2>4. Counted(h0.map, 0, h0)
    BY <1>1, NothingCounted
  <2> QED
    BY <2>1, <2>2, <2>3, <2>4, HeapAssumption
<1> HIDE DEF h0
<1>4. Grown(map, <<>>, h) /\ Counted(map, 0, h)
  BY <1>1, <1>3, AddPagesIs
<1> HIDE DEF h, map
<1>5. map \subseteq h.map /\ h.map \subseteq Pages
  BY <1>4 DEF Grown
<1>6. PagesInv
  BY <1>2, <1>5 DEF PagesInv, PmmTypeOK, HeldOnce, map
<1>7. ASSUME NEW p PROVE p \in HeapPages <=> p \in h.map \ map
  BY <1>2, <1>5, SMTT(30) DEF HeapPages, map
<1>8. Tiling(free_list, live, HeapPages)
  <2>1. IsList(free_list) /\ OneSeamIn(free_list)
    BY <1>2, <1>4 DEF Grown
  <2>2. \A c : ~InUse(live, c)
    BY <1>2 DEF InUse
  <2>3. \A c \in Nat : Covers(free_list, c) <=> c \div PAGE_SIZE \in HeapPages
    BY <1>2, <1>4, <1>7, EmptyHeap DEF Grown
  <2> QED
    BY <1>2, <2>1, <2>2, <2>3 DEF Tiling
<1>9. CountInv
  <2>1. PICK k \in Nat : h.pages = 0 + k /\ CountIs(h.map \ map, k)
    BY <1>4 DEF Counted
  <2>2. HeapPages = h.map \ map /\ heap_pages = k
    BY <1>2, <1>7, <2>1
  <2> QED
    BY <1>2, <2>1, <2>2, FS_EmptySet DEF CountInv
<1> QED
  BY <1>6, <1>8, <1>9 DEF HeapInv

(* A page of somebody else comes or goes.                                  *)
LEMMA OtherInv == HeapInv /\ (OtherAlloc \/ OtherFree) => PagesInv' /\ HeapPages' = HeapPages
<1> SUFFICES ASSUME HeapInv, OtherAlloc \/ OtherFree PROVE PagesInv' /\ HeapPages' = HeapPages
  OBVIOUS
<1>1. bitmap \subseteq Pages /\ holders \in [Pages -> Nat] /\ HeldOnce
      /\ (\A p \in Pages : p \notin ClearedByInit => p \in bitmap)
      /\ others \subseteq {p \in Pages : holders[p] = 1}
  BY DEF HeapInv, PagesInv, PmmTypeOK
<1>2. CASE OtherAlloc
  <2> DEFINE page == pmm_alloc(bitmap)
  <2>1. CASE page = 0
    <3>1. bitmap' = bitmap /\ holders' = holders
      BY <1>2, <2>1 DEF OtherAlloc, PmmAlloc
    <3>2. others' = others
      BY <1>2, <3>1 DEF OtherAlloc
    <3> QED
      BY <1>1, <3>1, <3>2 DEF PagesInv, PmmTypeOK, HeldOnce, HeapPages
  <2>2. CASE page # 0
    <3>1. page \in Pages /\ page \notin bitmap
      BY <2>2, AllocFree
    <3>2. bitmap' = bitmap \cup {page} /\ holders' = [holders EXCEPT ![page] = @ + 1]
      BY <1>2, <2>2 DEF OtherAlloc, PmmAlloc, MarkUsed
    <3> HIDE DEF page
    <3>3. others' = others \cup {page}
      BY <1>2, <3>1, <3>2 DEF OtherAlloc
    <3>4. page \in ClearedByInit /\ holders[page] = 0
      BY <1>1, <3>1 DEF HeldOnce
    <3>5. \A p \in Pages : holders'[p] = IF p = page THEN 1 ELSE holders[p]
      BY <1>1, <3>1, <3>2, <3>4
    <3>6. PagesInv'
      <4>1. holders' \in [Pages -> Nat]
        BY <1>1, <3>1, <3>2
      <4> QED
        BY <1>1, <3>1, <3>2, <3>3, <3>4, <3>5, <4>1 DEF PagesInv, PmmTypeOK, HeldOnce
    <3> QED
      BY <3>1, <3>3, <3>4, <3>5, <3>6 DEF HeapPages
  <2> QED
    BY <2>1, <2>2
<1>3. CASE OtherFree
  <2>1. PICK page \in others \cup {0} : FreePage(page) /\ others' = others \ {page}
    BY <1>3 DEF OtherFree
  <2>2. 0 \in Pages /\ 0 \notin ClearedByInit
    BY PmmAssumption DEF Pages, ClearedByInit
  <2>3. 0 \notin others
    BY <1>1, <2>2 DEF HeldOnce
  <2>4. CASE page = 0
    <3>1. bitmap' = bitmap /\ holders' = holders /\ others' = others
      BY <2>1, <2>3, <2>4 DEF FreePage, pmm_free
    <3> QED
      BY <1>1, <3>1 DEF PagesInv, PmmTypeOK, HeldOnce, HeapPages
  <2>5. CASE page # 0
    <3>1. page \in Pages /\ holders[page] = 1 /\ page \in ClearedByInit
      BY <1>1, <2>1, <2>5 DEF HeldOnce
    <3>2. bitmap' = bitmap \ {page} /\ holders' = [holders EXCEPT ![page] = @ - 1]
      BY <2>1, <2>5, <3>1, PmmAssumption DEF FreePage, pmm_free, Pages
    <3>3. \A p \in Pages : holders'[p] = IF p = page THEN 0 ELSE holders[p]
      BY <1>1, <3>1, <3>2
    <3>4. PagesInv'
      <4>1. holders' \in [Pages -> Nat]
        BY <1>1, <3>1, <3>2
      <4> QED
        BY <1>1, <2>1, <3>1, <3>2, <3>3, <4>1 DEF PagesInv, PmmTypeOK, HeldOnce
    <3> QED
      BY <1>1, <2>1, <2>5, <3>3, <3>4 DEF HeapPages
  <2> QED
    BY <2>4, <2>5
<1> QED
  BY <1>2, <1>3

(* kfree: the block goes from the set to the list.                         *)
LEMMA FreeTiling ==
  ASSUME NEW list, NEW blocks, NEW pages, Tiling(list, blocks, pages), NEW b \in blocks
  PROVE  Tiling(Coalesce(list_insert(list, [addr |-> b.addr, size |-> b.size])), blocks \ {b}, pages)
<1> DEFINE f == [addr |-> b.addr, size |-> b.size]
           new == Coalesce(list_insert(list, f))
<1>1. b.addr \in Nat /\ b.size \in Nat
  BY DEF Tiling, LiveBlock
<1>2. f \in FreeBlock /\ f.addr = b.addr /\ f.size = b.size
  BY <1>1 DEF FreeBlock
<1> HIDE DEF f
<1>3. ASSUME NEW c PROVE In(c, f) <=> In(c, b)
  BY <1>2, SMTT(30) DEF In, End
<1>4. ASSUME NEW k \in 1 .. Len(list) PROVE Apart(list[k], f)
  <2>1. list[k].addr \in Nat /\ list[k].size \in Nat
    BY BlockOf DEF Tiling, IsList
  <2>2. ASSUME NEW c \in Nat, In(c, list[k]), In(c, f) PROVE FALSE
    BY <1>3, <2>2, SMTT(30) DEF Tiling, Covers, InUse
  <2> QED
    BY <1>1, <1>2, <2>1, <2>2, ApartFrom, SMTT(30)
<1>5. /\ IsList(new) /\ OneSeamIn(new)
      /\ \A c \in Nat : Covers(new, c) <=> Covers(list, c) \/ In(c, f)
  BY <1>2, <1>4, InsertCoalesce DEF Tiling
<1> HIDE DEF new
<1>6. ASSUME NEW c \in Nat PROVE InUse(blocks, c) <=> InUse(blocks \ {b}, c) \/ In(c, b)
  BY DEF InUse
<1>7. ASSUME NEW c \in Nat, In(c, b), InUse(blocks \ {b}, c) PROVE FALSE
  <2>1. PICK d \in blocks : d # b /\ In(c, d)
    BY <1>7 DEF InUse
  <2>2. d.addr \in Nat /\ d.size \in Nat /\ Apart(b, d)
    BY <2>1 DEF Tiling, LiveBlock
  <2> QED
    BY <1>1, <1>7, <2>1, <2>2, ApartMeans
<1>8. Tiling(new, blocks \ {b}, pages)
  <2>1. ASSUME NEW c \in Nat PROVE ~ (Covers(new, c) /\ InUse(blocks \ {b}, c))
    BY <1>3, <1>5, <1>6, <1>7, Zenon DEF Tiling
  <2>2. ASSUME NEW c \in Nat
        PROVE  Covers(new, c) \/ InUse(blocks \ {b}, c) <=> c \div PAGE_SIZE \in pages
    BY <1>3, <1>5, <1>6, Zenon DEF Tiling
  <2> QED
    BY <1>5, <2>1, <2>2 DEF Tiling
<1> QED
  BY <1>8 DEF new, f

(* kmalloc: a block goes from the list to the set.                         *)
LEMMA GrantTiling ==
  ASSUME NEW list, NEW blocks, NEW pages, Tiling(list, blocks, pages), NEW i \in 1 .. Len(list),
         NEW size \in Nat, list[i].size >= size, NEW asked \in Nat
  PROVE  LET g == [addr |-> list[i].addr, size |-> Cut(list[i], size).size, asked |-> asked]
         IN  /\ Tiling(Unlink(list, i, size), blocks \cup {g}, pages)
             /\ g \in LiveBlock /\ g.size >= size /\ \A b \in blocks : Apart(g, b)
<1> DEFINE g == [addr |-> list[i].addr, size |-> Cut(list[i], size).size, asked |-> asked]
           f == Granted(list[i], size)
           new == Unlink(list, i, size)
<1>1. /\ IsList(new) /\ OneSeamIn(new) /\ f \in FreeBlock /\ f.size >= size
      /\ \A c \in Nat : Covers(list, c) <=> Covers(new, c) \/ In(c, f)
      /\ \A c \in Nat : ~ (Covers(new, c) /\ In(c, f))
  BY UnlinkIs, Zenon DEF Tiling
<1>2. g.addr = f.addr /\ g.size = f.size
  BY SMTT(30) DEF Granted
<1>3. f.addr \in Nat /\ f.size \in Nat
  BY <1>1, SMTT(30) DEF FreeBlock
<1>4. g \in LiveBlock
  BY <1>2, <1>3 DEF LiveBlock
<1> HIDE DEF f, new, g
<1>5. ASSUME NEW c PROVE In(c, g) <=> In(c, f)
  BY <1>2 DEF In, End
<1>6. ASSUME NEW b \in blocks PROVE Apart(g, b) /\ Apart(b, g)
  <2>1. b.addr \in Nat /\ b.size \in Nat
    BY SMTT(30) DEF Tiling, LiveBlock
  <2>2. ASSUME NEW c \in Nat, In(c, g), In(c, b) PROVE FALSE
    BY <1>1, <1>5, <2>2, SMTT(30) DEF Tiling, InUse
  <2>3. Apart(g, b)
    BY <1>2, <1>3, <2>1, <2>2, ApartFrom, SMTT(30)
  <2> QED
    BY <2>3 DEF Apart
<1>7. ASSUME NEW c \in Nat PROVE InUse(blocks \cup {g}, c) <=> InUse(blocks, c) \/ In(c, f)
  BY <1>5, SMTT(30) DEF InUse
<1>8. Tiling(new, blocks \cup {g}, pages)
  <2>1. ASSUME NEW c \in Nat PROVE ~ (Covers(new, c) /\ InUse(blocks \cup {g}, c))
    BY <1>1, <1>7, Zenon DEF Tiling
  <2>2. ASSUME NEW c \in Nat
        PROVE  Covers(new, c) \/ InUse(blocks \cup {g}, c) <=> c \div PAGE_SIZE \in pages
    BY <1>1, <1>7, Zenon DEF Tiling
  <2>3. \A b, d \in blocks \cup {g} : b # d => Apart(b, d)
    BY <1>6 DEF Tiling
  <2> QED
    BY <1>1, <1>4, <2>1, <2>2, <2>3, Zenon DEF Tiling
<1> QED
  BY <1>1, <1>2, <1>4, <1>6, <1>8, Zenon DEF g, new

(* The heap has grown before kmalloc looks for a block again.              *)
LEMMA GrowTiling ==
  ASSUME NEW list, NEW blocks, NEW pages, Tiling(list, blocks, pages),
         NEW map, pages \subseteq map, NEW h, Grown(map, list, h)
  PROVE  Tiling(h.list, blocks, pages \cup (h.map \ map))
<1>1. ASSUME NEW c \in Nat PROVE ~ (Covers(h.list, c) /\ InUse(blocks, c))
  BY SMTT(30) DEF Tiling, Grown
<1>2. ASSUME NEW c \in Nat
      PROVE  Covers(h.list, c) \/ InUse(blocks, c) <=> c \div PAGE_SIZE \in pages \cup (h.map \ map)
  BY DEF Tiling, Grown
<1> QED
  BY <1>1, <1>2 DEF Tiling, Grown

LEMMA FirstFitIs ==
  ASSUME NEW list, list \in Seq(FreeBlock), NEW size \in Nat, FirstFit(list, size) # 0
  PROVE  FirstFit(list, size) \in 1 .. Len(list) /\ list[FirstFit(list, size)].size >= size
<1> DEFINE I == {k \in 1 .. Len(list) : list[k].size >= size}
<1>1. FirstFit(list, size) = IF I # {} THEN Min(I) ELSE 0
  BY Zenon DEF FirstFit, SelectInSeq
<1>2. I \subseteq Nat /\ \A k \in I : k \in 1 .. Len(list) /\ list[k].size >= size
  OBVIOUS
<1> HIDE DEF I
<1>3. I # {} /\ FirstFit(list, size) = Min(I)
  BY <1>1
<1>4. Min(I) \in I
  BY <1>2, <1>3, LowestExists DEF Min
<1> QED
  BY <1>2, <1>3, <1>4, Zenon

LEMMA Sizes ==
  /\ ALIGN \in Nat \ {0} /\ WORD \in Nat \ {0} /\ MIN_ALLOC \in Nat
  /\ \A size \in Requests : size \in Nat
  BY HeapAssumption

LEMMA Remainder ==
  ASSUME NEW a \in Nat, NEW w \in Nat \ {0}
  PROVE  a % w \in 0 .. w - 1 /\ a % w <= a /\ (a < w => a % w = a) /\ a \div w \in Nat
<1>1. a % w \in 0 .. w - 1 /\ a \div w \in Nat /\ a = (a \div w) * w + (a % w)
  OBVIOUS
<1>2. (a \div w) * w \in Nat /\ (a < w => a \div w = 0)
  BY <1>1
<1> QED
  BY <1>1, <1>2

LEMMA RoundUpIs ==
  ASSUME NEW size \in Requests
  PROVE  RoundUp(size) \in Nat /\ (size + ALIGN - 1 < WORD => RoundUp(size) >= size)
<1> DEFINE sum == size + ALIGN - 1
           up == sum % WORD
           low == up % ALIGN
<1>1. size \in Nat /\ sum \in Nat
  BY Sizes
<1> HIDE DEF sum
<1>2. up \in Nat /\ (sum < WORD => up = sum)
  BY <1>1, Remainder, Sizes
<1> HIDE DEF up
<1>3. low \in 0 .. ALIGN - 1 /\ low <= up
  BY <1>2, Remainder, Sizes, Zenon
<1>4. RoundUp(size) = IF up - low < MIN_ALLOC THEN MIN_ALLOC ELSE up - low
  BY DEF RoundUp, up, sum
<1> HIDE DEF low
<1>5. up - low \in Nat /\ (sum < WORD => up - low >= size)
  BY <1>1, <1>2, <1>3, Sizes DEF sum
<1> QED
  BY <1>1, <1>4, <1>5, Sizes DEF sum

LEMMA PagesNeededIs == ASSUME NEW size \in Nat PROVE PagesNeeded(size) \in Nat
<1> DEFINE sum == size + HEADER_SIZE + PAGE_SIZE - 1
           r == sum % WORD
<1>1. sum \in Nat
  BY HeaderSize, PageSize
<1> HIDE DEF sum
<1>2. r \in Nat
  BY <1>1, Remainder, Sizes
<1> HIDE DEF r
<1>3. r \div PAGE_SIZE \in Nat
  BY <1>2, Remainder, PageSize, Zenon
<1> QED
  BY <1>3 DEF PagesNeeded, r, sum

(* What kmalloc adds to the blocks in use.                                 *)
Grants(g) ==
  /\ g \in LiveBlock /\ g.asked \in Requests /\ g.size >= RoundUp(g.asked)
  /\ \A b \in live : Apart(g, b)

(* Every page that the heap or somebody else holds is marked used.         *)
LEMMA HeldIsUsed ==
  ASSUME PagesInv
  PROVE  HeapPages \subseteq bitmap /\ others \subseteq bitmap
  BY DEF PagesInv, HeldOnce, HeapPages

LEMMA KmallocStep ==
  HeapInv /\ kmalloc => HeapInv' /\ (live' = live \/ \E g : Grants(g) /\ live' = live \cup {g})
<1> SUFFICES ASSUME HeapInv, kmalloc
             PROVE  HeapInv' /\ (live' = live \/ \E g : Grants(g) /\ live' = live \cup {g})
  OBVIOUS
<1> DEFINE h0 == Heap(bitmap, free_list, heap_pages)
           H(size) == IF FirstFit(free_list, RoundUp(size)) # 0 THEN h0
                      ELSE AddPages(h0, PagesNeeded(RoundUp(size)))
<1>1. PICK asked \in Requests \ {0} : Grant(H(asked), asked)
  BY Zenon DEF kmalloc
<1> DEFINE h == H(asked)
           size == RoundUp(asked)
           i == FirstFit(h.list, size)
<1>2. asked \in Nat /\ size \in Nat
  BY Sizes, RoundUpIs
<1>3. /\ PagesInv /\ Tiling(free_list, live, HeapPages)
      /\ bitmap \subseteq Pages /\ holders \in [Pages -> Nat] /\ HeldOnce
      /\ \A p \in Pages : p \notin ClearedByInit => p \in bitmap
      /\ others \subseteq {p \in Pages : holders[p] = 1}
      /\ HeapPages \subseteq bitmap /\ others \subseteq bitmap
      /\ CountInv /\ heap_pages \in Nat
  BY HeldIsUsed DEF HeapInv, PagesInv, PmmTypeOK, CountInv, CountIs
<1>4. Grown(bitmap, free_list, h) /\ Counted(bitmap, heap_pages, h)
  <2>1. /\ IsHeap(h0) /\ h0.map = bitmap /\ h0.list = free_list /\ h0.failed = 0
        /\ h0.pages = heap_pages
    BY DEF IsHeap, Heap
  <2> HIDE DEF h0
  <2>2. Owned(bitmap, free_list) /\ Grown(bitmap, free_list, h0)
    BY <1>3, <2>1 DEF Owned, Grown, Tiling
  <2>2a. Counted(bitmap, heap_pages, h0)
    BY <1>3, <2>1, NothingCounted
  <2>3. PagesNeeded(size) \in Nat
    BY <1>2, PagesNeededIs, SMTT(30)
  <2> DEFINE m == PagesNeeded(size)
  <2> HIDE DEF m
  <2>4. Grown(bitmap, free_list, AddPages(h0, m)) /\ Counted(bitmap, heap_pages, AddPages(h0, m))
    BY <1>3, <2>1, <2>2, <2>2a, <2>3, AddPagesIs DEF m
  <2> QED
    BY <2>2, <2>2a, <2>4 DEF m
<1> HIDE DEF h
<1>5. /\ bitmap' = h.map /\ others' = others /\ heap_pages' = h.pages
      /\ holders' = [p \in Pages |-> IF p \in h.map \ bitmap THEN holders[p] + 1 ELSE holders[p]]
      /\ (i = 0 \/ h.failed = 1) => free_list' = h.list /\ live' = live
      /\ ~ (i = 0 \/ h.failed = 1) =>
           /\ free_list' = Unlink(h.list, i, size)
           /\ live' = live \cup {[addr |-> h.list[i].addr, size |-> Cut(h.list[i], size).size,
                                 asked |-> asked]}
  BY <1>1, Zenon DEF Grant, h
<1>6. h.map \subseteq Pages /\ bitmap \subseteq h.map
  BY <1>4 DEF Grown
<1>7. ASSUME NEW p \in Pages
      PROVE  holders'[p] = IF p \in h.map \ bitmap THEN 1 ELSE holders[p]
  <2>1. holders'[p] = IF p \in h.map \ bitmap THEN holders[p] + 1 ELSE holders[p]
    BY <1>5
  <2>2. p \notin bitmap => holders[p] = 0
    BY <1>3, SMTT(30) DEF HeldOnce
  <2> QED
    BY <2>1, <2>2, SMTT(30)
<1>8. PagesInv'
  <2>1. holders' \in [Pages -> Nat]
    <3>1. \A p \in Pages : holders[p] \in Nat /\ holders[p] + 1 \in Nat
      BY <1>3
    <3> QED
      BY <1>5, <3>1
  <2>2. HeldOnce'
    BY <1>3, <1>5, <1>6, <1>7, Zenon DEF HeldOnce
  <2>3. others' \subseteq {p \in Pages : holders'[p] = 1}
    BY <1>3, <1>5, <1>7, Zenon
  <2> QED
    BY <1>3, <1>5, <1>6, <2>1, <2>2, <2>3, Zenon DEF PagesInv, PmmTypeOK
<1>9. HeapPages' = HeapPages \cup (h.map \ bitmap)
  BY <1>3, <1>5, <1>6, <1>7, Zenon DEF HeapPages
<1>10. Tiling(h.list, live, HeapPages')
  BY <1>3, <1>4, <1>9, GrowTiling, SMTT(30)
<1>10a. CountIs(HeapPages', heap_pages')
  <2> DEFINE new == h.map \ bitmap
  <2>1. PICK k \in Nat : h.pages = heap_pages + k /\ CountIs(new, k)
    BY <1>4 DEF Counted
  <2>2. HeapPages \cap new = {} /\ CountIs(HeapPages, heap_pages)
    BY <1>3 DEF CountInv
  <2> HIDE DEF new
  <2>3. CountIs(HeapPages \cup new, heap_pages + k)
    BY <2>1, <2>2, CountMore, Zenon
  <2> QED
    BY <1>5, <1>9, <2>1, <2>3, SMTT(30) DEF new
<1>11. CASE i = 0 \/ h.failed = 1
  BY <1>3, <1>5, <1>8, <1>10, <1>10a, <1>11, Zenon DEF HeapInv, CountInv
<1>12. CASE ~ (i = 0 \/ h.failed = 1)
  <2> DEFINE g == [addr |-> h.list[i].addr, size |-> Cut(h.list[i], size).size, asked |-> asked]
  <2>1. i \in 1 .. Len(h.list) /\ h.list[i].size >= size
    BY <1>2, <1>4, <1>12, FirstFitIs, Zenon DEF Grown, IsList
  <2>2. free_list' = Unlink(h.list, i, size) /\ live' = live \cup {g}
    BY <1>5, <1>12
  <2>3. g.asked = asked
    BY SMTT(30)
  <2> HIDE DEF i, size
  <2>4. /\ Tiling(Unlink(h.list, i, size), live \cup {g}, HeapPages')
        /\ g \in LiveBlock /\ g.size >= size /\ \A b \in live : Apart(g, b)
    BY <1>2, <1>10, <2>1, GrantTiling, Zenon
  <2> HIDE DEF g
  <2>5. Grants(g)
    BY <2>3, <2>4 DEF Grants, size
  <2>6. IsFiniteSet(live')
    BY <1>3, <2>2, FS_AddElement DEF CountInv
  <2> QED
    BY <1>8, <1>10a, <2>2, <2>4, <2>5, <2>6, SMTT(30) DEF HeapInv, CountInv
<1> QED
  BY <1>11, <1>12

LEMMA KfreeStep == HeapInv /\ kfree => HeapInv' /\ \E b \in live : live' = live \ {b}
<1> SUFFICES ASSUME HeapInv, kfree PROVE HeapInv' /\ \E b \in live : live' = live \ {b}
  OBVIOUS
<1>1. PICK b \in live :
         /\ live' = live \ {b}
         /\ free_list' = Coalesce(list_insert(free_list, [addr |-> b.addr, size |-> b.size]))
         /\ bitmap' = bitmap /\ holders' = holders /\ others' = others
         /\ heap_pages' = heap_pages
  BY DEF kfree
<1>2. PagesInv' /\ HeapPages' = HeapPages
  BY <1>1 DEF HeapInv, PagesInv, PmmTypeOK, HeldOnce, HeapPages
<1>3. Tiling(free_list', live', HeapPages)
  BY <1>1, FreeTiling DEF HeapInv
<1>4. IsFiniteSet(live')
  BY <1>1, FS_RemoveElement DEF HeapInv, CountInv
<1> QED
  BY <1>1, <1>2, <1>3, <1>4 DEF HeapInv, CountInv

LEMMA HeapStep == HeapInv /\ [Next]_heapVars => HeapInv'
<1> SUFFICES ASSUME HeapInv, [Next]_heapVars PROVE HeapInv'
  OBVIOUS
<1>1. CASE kmalloc
  BY <1>1, KmallocStep
<1>2. CASE kfree
  BY <1>2, KfreeStep
<1>3. CASE OtherAlloc \/ OtherFree
  <2>1. PagesInv' /\ HeapPages' = HeapPages
    BY <1>3, OtherInv
  <2>2. free_list' = free_list /\ live' = live /\ heap_pages' = heap_pages
    BY <1>3 DEF OtherAlloc, OtherFree
  <2> QED
    BY <2>1, <2>2 DEF HeapInv, CountInv
<1>4. CASE UNCHANGED heapVars
  BY <1>4 DEF heapVars, HeapInv, PagesInv, PmmTypeOK, HeldOnce, HeapPages, CountInv
<1> QED
  BY <1>1, <1>2, <1>3, <1>4 DEF Next

(* The bitmap, the free list and the blocks in use agree for ever.         *)
THEOREM HeapInvariant == Spec => []HeapInv
  BY HeapInitInv, HeapStep, PTL DEF Spec

LEMMA PageInRange ==
  ASSUME NEW c \in Nat
  PROVE  c \div PAGE_SIZE \in Pages <=> c \in 0 .. TOTAL_PAGES * PAGE_SIZE - 1
<1> DEFINE p == c \div PAGE_SIZE
           w == PAGE_SIZE
           n == TOTAL_PAGES
<1>1. w \in Nat \ {0} /\ n \in Nat
  BY PageSize, PmmAssumption
<1>2. p \in Nat
  BY PageSize, Remainder, Zenon
<1>3. p * w <= c /\ c < p * w + w
  BY <1>1, <1>2, Quotient, Zenon
<1> HIDE DEF p, w, n
<1>4. CASE p < n
  <2>1. (p + 1) * w <= n * w /\ (p + 1) * w = p * w + w
    BY <1>1, <1>2, <1>4
  <2>2. p * w \in Nat /\ n * w \in Nat
    BY <1>1, <1>2
  <2>3. c < n * w
    BY <1>1, <1>3, <2>1, <2>2
  <2> QED
    BY <1>1, <1>2, <1>4, <2>2, <2>3 DEF Pages, p, n, w
<1>5. CASE ~ (p < n)
  <2>1. n * w <= p * w
    BY <1>1, <1>2, <1>5
  <2>2. p * w \in Nat /\ n * w \in Nat
    BY <1>1, <1>2
  <2>3. ~ (c < n * w)
    BY <1>1, <1>3, <2>1, <2>2
  <2> QED
    BY <1>1, <1>2, <1>5, <2>2, <2>3 DEF Pages, p, n, w
<1> QED
  BY <1>4, <1>5

(* The blocks, free and in use, always tile the pages that the heap holds: *)
(* list_insert, coalesce_forward, the split in kmalloc and heap_add_page   *)
(* neither overlap two blocks nor lose memory.                             *)
THEOREM HeapNoOverlap == Spec => []NoOverlap
<1>1. HeapInv => NoOverlap
  <2> SUFFICES ASSUME HeapInv PROVE NoOverlap
    OBVIOUS
  <2>1. free_list \in Seq(FreeBlock) /\ Sorted(free_list) /\ live \subseteq LiveBlock
    BY DEF HeapInv, Tiling, IsList
  <2>2. \A b : b \in Blocks <=> b \in live \/ \E i \in 1 .. Len(free_list) : b = free_list[i]
    BY <2>1 DEF Blocks, Range
  <2>3. ASSUME NEW b \in Blocks
        PROVE  b.addr \in Nat /\ b.size \in Nat /\ \A c : c \in Extent(b) <=> c \in Nat /\ In(c, b)
    <3>1. b.addr \in Nat /\ b.size \in Nat
      BY <2>1, <2>2, BlockOf, SMTT(30) DEF LiveBlock
    <3>2. End(b) \in Nat
      BY <3>1, EndIs
    <3>3. ASSUME NEW c PROVE c \in b.addr .. End(b) - 1 <=> c \in Nat /\ In(c, b)
      BY <3>1, <3>2 DEF In
    <3> QED
      BY <3>1, <3>3 DEF Extent
  <2>4. ASSUME NEW c \in Nat
        PROVE  (\E b \in Blocks : In(c, b)) <=> c \div PAGE_SIZE \in HeapPages
    <3>1. (\E b \in Blocks : In(c, b)) <=> Covers(free_list, c) \/ InUse(live, c)
      BY <2>2, Zenon DEF Covers, InUse
    <3> QED
      BY <3>1 DEF HeapInv, Tiling
  <2>5. \A c : c \in HeapCells <=> c \in Nat /\ c \div PAGE_SIZE \in HeapPages
    <3>1. \A c : c \in 0 .. TOTAL_PAGES * PAGE_SIZE - 1 <=> c \in Nat /\ c \div PAGE_SIZE \in Pages
      BY PageInRange
    <3> QED
      BY <3>1, Zenon DEF HeapCells, HeapPages
  <2>6. UNION {Extent(b) : b \in Blocks} = HeapCells
    BY <2>3, <2>4, <2>5
  <2>7. ASSUME NEW b \in Blocks, NEW d \in Blocks, b # d, NEW c \in Nat, In(c, b), In(c, d)
        PROVE  FALSE
    <3>1. CASE b \in live /\ d \in live
      <4>1. Apart(b, d)
        BY <2>7, <3>1 DEF HeapInv, Tiling
      <4> QED
        BY <2>3, <2>7, <4>1, ApartMeans, SMTT(30)
    <3>2. CASE ~ (b \in live) /\ ~ (d \in live)
      <4>1. PICK i \in 1 .. Len(free_list) : b = free_list[i]
        BY <2>2, <3>2
      <4>2. PICK j \in 1 .. Len(free_list) : d = free_list[j]
        BY <2>2, <3>2
      <4>3. i < j \/ j < i
        BY <2>7, <4>1, <4>2, SMTT(30)
      <4>4. Apart(b, d)
        BY <2>1, <4>1, <4>2, <4>3 DEF Sorted, Apart
      <4> QED
        BY <2>3, <2>7, <4>4, ApartMeans
    <3>3. CASE (b \in live /\ ~ (d \in live)) \/ (d \in live /\ ~ (b \in live))
      <4>1. Covers(free_list, c) /\ InUse(live, c)
        BY <2>2, <2>7, <3>3 DEF Covers, InUse
      <4> QED
        BY <4>1 DEF HeapInv, Tiling
    <3> QED
      BY <3>1, <3>2, <3>3
  <2>8. \A b, d \in Blocks : b # d => Extent(b) \cap Extent(d) = {}
    BY <2>3, <2>7, SMTT(30)
  <2> QED
    BY <2>6, <2>8 DEF NoOverlap
<1> QED
  BY <1>1, HeapInvariant, PTL

(* However kmalloc and kfree are mixed, at most one pair of free blocks    *)
(* touches, although coalesce_forward makes a single pass.                 *)
THEOREM HeapOneSeam == Spec => []OneSeam
<1>1. HeapInv => OneSeam
  BY DEF HeapInv, Tiling, OneSeamIn, SeamAt, OneSeam, Seams
<1> QED
  BY <1>1, HeapInvariant, PTL

(* The heap takes a page from pmm_alloc at most once, and it and the other *)
(* users of pmm.c never hold the same page.                                *)
THEOREM HeapHeldOnce == Spec => []HeldOnce
<1>1. HeapInv => HeldOnce
  BY DEF HeapInv, PagesInv
<1> QED
  BY <1>1, HeapInvariant, PTL

(* The heap grows into no page that pmm_init keeps back.                   *)
THEOREM HeapReserved == Spec => []ReservedNeverHeld
<1>1. HeapInv => ReservedNeverHeld
  <2>1. \A p \in Pages : (\/ p < KEND_PAGE \/ p \in BIOS_LO .. BIOS_HI
                          \/ p \in KSTACK_PAGE .. USER_END_PAGE - 1)
                         => p \notin ClearedByInit
    BY PmmAssumption, SMT DEF Pages, ClearedByInit
  <2> QED
    BY <2>1 DEF HeapInv, PagesInv, HeldOnce, ReservedNeverHeld
<1> QED
  BY <1>1, HeapInvariant, PTL

(* heap_add_page fails only when every page is taken.                      *)
THEOREM HeapZeroMeansFull == Spec => []ZeroMeansFull
<1>1. HeapInv => ZeroMeansFull
  <2> SUFFICES ASSUME HeapInv, pmm_alloc(bitmap) = 0, ~ (Pages \subseteq bitmap) PROVE FALSE
    BY DEF ZeroMeansFull
  <2> DEFINE S == Pages \ bitmap
  <2>1. S \subseteq Nat /\ S # {}
    BY PmmAssumption DEF Pages
  <2>2. pmm_alloc(bitmap) = CHOOSE p \in S : \A q \in S : p <= q
    BY DEF pmm_alloc
  <2> HIDE DEF S
  <2>3. 0 \in S
    BY <2>1, <2>2, LowestExists, Zenon
  <2>4. 0 \in Pages /\ 0 \notin ClearedByInit
    BY PmmAssumption DEF Pages, ClearedByInit
  <2> QED
    BY <2>3, <2>4 DEF HeapInv, PagesInv, S
<1> QED
  BY <1>1, HeapInvariant, PTL
-----------------------------------------------------------------------------
(* kmalloc and kfree keep the promise of Allocator as long as rounding a   *)
(* request up to ALIGN stays below 2^32.                                   *)
NoWrap == \A size \in Requests : size + ALIGN - 1 < WORD

Region(b) == [ptr |-> b.addr + HEADER_SIZE, size |-> b.size, asked |-> b.asked]
Regions(blocks) == {Region(b) : b \in blocks}

(* Blocks that are apart are different regions, with no unit in common.    *)
LEMMA ApartRegions ==
  ASSUME NEW b \in LiveBlock, NEW d \in LiveBlock, Apart(b, d)
  PROVE  Region(b) # Region(d) /\ Promise!Cells(Region(b)) \cap Promise!Cells(Region(d)) = {}
<1>1. /\ b.addr \in Nat /\ b.size \in Nat /\ End(b) = b.addr + HEADER_SIZE + b.size
      /\ d.addr \in Nat /\ d.size \in Nat /\ End(d) = d.addr + HEADER_SIZE + d.size
  BY EndIs DEF LiveBlock
<1>2. /\ Region(b).ptr = b.addr + HEADER_SIZE /\ Region(b).size = b.size
      /\ Region(d).ptr = d.addr + HEADER_SIZE /\ Region(d).size = d.size
  BY DEF Region
<1>3. Region(b).ptr # Region(d).ptr
  BY <1>1, <1>2, HeaderSize DEF Apart
<1>4. ASSUME NEW c, c \in Promise!Cells(Region(b)), c \in Promise!Cells(Region(d)) PROVE FALSE
  <2>1. /\ c \in (b.addr + HEADER_SIZE) .. (b.addr + HEADER_SIZE + b.size - 1)
        /\ c \in (d.addr + HEADER_SIZE) .. (d.addr + HEADER_SIZE + d.size - 1)
    BY <1>2, <1>4 DEF Promise!Cells
  <2> QED
    BY <1>1, <2>1, HeaderSize, SMTT(30) DEF Apart
<1> QED
  BY <1>3, <1>4

LEMMA PromisedStep ==
  ASSUME NoWrap, HeapInv, [Next]_heapVars
  PROVE  [Promise!Alloc \/ Promise!Free]_(Regions(live))
<1>1. live \subseteq LiveBlock /\ \A b, d \in live : b # d => Apart(b, d)
  BY DEF HeapInv, Tiling
<1>2. \/ live' = live
      \/ \E g : Grants(g) /\ live' = live \cup {g}
      \/ \E b \in live : live' = live \ {b}
  BY KmallocStep, KfreeStep DEF Next, OtherAlloc, OtherFree, heapVars
<1>3. CASE live' = live
  BY <1>3 DEF Regions
<1>4. CASE \E g : Grants(g) /\ live' = live \cup {g}
  <2>1. PICK g : Grants(g) /\ live' = live \cup {g}
    BY <1>4
  <2>2. g \in LiveBlock /\ g.asked \in Requests /\ g.size >= RoundUp(g.asked)
    BY <2>1 DEF Grants
  <2>3. g.size >= g.asked
    <3>1. RoundUp(g.asked) \in Nat /\ RoundUp(g.asked) >= g.asked
      BY <2>2, RoundUpIs DEF NoWrap
    <3>2. g.size \in Nat /\ g.asked \in Nat
      BY <2>2 DEF LiveBlock
    <3> QED
      BY <2>2, <3>1, <3>2
  <2>4. \A b \in live : /\ Region(g) # Region(b)
                        /\ Promise!Cells(Region(g)) \cap Promise!Cells(Region(b)) = {}
    BY <1>1, <2>1, <2>2, ApartRegions DEF Grants
  <2>5. Regions(live') = Regions(live) \cup {Region(g)}
    BY <2>1 DEF Regions
  <2>6. Region(g) \in Regions(live') \ Regions(live)
    BY <2>4, <2>5 DEF Regions
  <2>7. Region(g).asked \in Requests /\ Region(g).size >= Region(g).asked
    BY <2>2, <2>3 DEF Region
  <2>8. \A other \in Regions(live) : Promise!Cells(Region(g)) \cap Promise!Cells(other) = {}
    BY <2>4 DEF Regions
  <2>9. Promise!Alloc
    BY <2>5, <2>6, <2>7, <2>8, Zenon DEF Promise!Alloc, Regions, Region, Promise!Cells
  <2> QED
    BY <2>9
<1>5. CASE \E b \in live : live' = live \ {b}
  <2>1. PICK b \in live : live' = live \ {b}
    BY <1>5
  <2>2. \A d \in live : d # b => Region(b) # Region(d)
    BY <1>1, ApartRegions
  <2>3. Regions(live') = Regions(live) \ {Region(b)} /\ Region(b) \in Regions(live)
    BY <2>1, <2>2 DEF Regions
  <2>4. Promise!Free
    BY <2>3, Zenon DEF Promise!Free, Regions, Region
  <2> QED
    BY <2>4
<1> QED
  BY <1>2, <1>3, <1>4, <1>5

(* What kmalloc returns is at least as long as the request and shares      *)
(* nothing with any other block in use, and only kfree ends that.          *)
THEOREM HeapImplementsAllocator == ASSUME NoWrap PROVE Spec => ImplementsAllocator
<1>1. Init => Promise!Init
  BY Zenon DEF Init, Promise!Init
<1>2. HeapInv /\ [Next]_heapVars => [Promise!Alloc \/ Promise!Free]_(Regions(live))
  BY PromisedStep
<1> QED
  BY <1>1, <1>2, HeapInvariant, PTL DEF Spec, ImplementsAllocator, Promise!Spec, Regions, Region

(* heap_get_stats always accounts for every byte of the pages the heap     *)
(* holds: what it does not report as free is in use or a header.           *)
THEOREM HeapStatsExact == Spec => []StatsExact
<1>1. HeapInv => StatsExact
  <2> SUFFICES ASSUME HeapInv PROVE StatsExact
    OBVIOUS
  <2> DEFINE fu == {c \in Nat : Covers(free_list, c)}
             lu == {c \in Nat : InUse(live, c)}
             ls == MapThenSumSet(LAMBDA b : b.size, live)
             total == heap_pages * PAGE_SIZE
  <2>1. /\ IsList(free_list) /\ IsFiniteSet(live) /\ live \subseteq LiveBlock
        /\ \A b, d \in live : b # d => Apart(b, d)
        /\ heap_pages \in Nat /\ IsFiniteSet(Cells(HeapPages)) /\ Cardinality(Cells(HeapPages)) = total
    BY DEF HeapInv, Tiling, CountInv, CountIs
  <2>2. free_bytes \in Nat /\ IsFiniteSet(fu) /\ Cardinality(fu) = free_bytes + HEADER_SIZE * Len(free_list)
    BY <2>1, FreeBytesIs, Zenon DEF free_bytes
  <2>3. ls \in Nat /\ IsFiniteSet(lu) /\ Cardinality(lu) = ls + HEADER_SIZE * Cardinality(live)
    BY <2>1, LiveBytesIs
  <2>4. Cells(HeapPages) = fu \cup lu /\ fu \cap lu = {}
    BY DEF HeapInv, Tiling, Cells
  <2>5. used_bytes = total - free_bytes
    BY DEF used_bytes
  <2>6. StatsExact <=> used_bytes = ls + HEADER_SIZE * (Len(free_list) + Cardinality(live))
    BY Zenon DEF StatsExact
  <2> DEFINE n == Len(free_list)
             m == Cardinality(live)
  <2>7. n \in Nat /\ m \in Nat /\ total \in Nat
    BY <2>1, PageSize, FS_CardinalityType DEF IsList
  <2> HIDE DEF fu, lu, ls, total, n, m
  <2>8. Cardinality(fu \cup lu) = Cardinality(fu) + Cardinality(lu) - Cardinality(fu \cap lu)
    BY <2>2, <2>3, FS_Union
  <2>9. Cardinality(fu \cap lu) = 0
    BY <2>4, FS_EmptySet
  <2>10. total = (free_bytes + HEADER_SIZE * n) + (ls + HEADER_SIZE * m) - 0
    BY <2>1, <2>2, <2>3, <2>4, <2>8, <2>9, SMTT(30) DEF n, m
  <2>11. HEADER_SIZE * (n + m) = HEADER_SIZE * n + HEADER_SIZE * m
         /\ HEADER_SIZE * n \in Nat /\ HEADER_SIZE * m \in Nat
    BY <2>7, HeaderSize
  <2>12. total - free_bytes = ls + HEADER_SIZE * (n + m)
    <3> DEFINE hn == HEADER_SIZE * n
               hm == HEADER_SIZE * m
               h == HEADER_SIZE * (n + m)
    <3>1. hn \in Nat /\ hm \in Nat /\ h = hn + hm /\ total = (free_bytes + hn) + (ls + hm) - 0
      BY <2>10, <2>11
    <3> HIDE DEF hn, hm, h
    <3>2. total - free_bytes = ls + h
      BY <2>2, <2>3, <3>1
    <3> QED
      BY <3>2 DEF h
  <2> QED
    BY <2>5, <2>6, <2>12 DEF n, m
<1> QED
  BY <1>1, HeapInvariant, PTL
=============================================================================
