---------------------------- MODULE Fat32Proofs ----------------------------
(***************************************************************************)
(* What fat32_open finds and what fat32_read delivers, for every volume    *)
(* that the assumptions of Fat32 describe, every sequence of calls and     *)
(* every pattern of disk errors.  The argument: fat32_open is always at a  *)
(* slot of the directory before which it had no reason to stop, and        *)
(* current_cluster is always the one that position is in, unless the chain *)
(* is cut.  A chain is a recursive function; that it exists, and what can  *)
(* be said of all its clusters, is by induction on the natural numbers.    *)
(***************************************************************************)
EXTENDS Fat32, WellFoundedInduction, TLAPS

(* Every set of numbers that is not empty has a least element.             *)
LEMMA LowestExists ==
  ASSUME NEW T, T \subseteq Nat, T # {}
  PROVE  \E x \in T : \A y \in T : x <= y
<1> DEFINE R == OpToRel(<, Nat)
<1>1. \A x, y \in Nat : x < y => <<x, y>> \in R
  BY DEF OpToRel
<1>2. IsWellFoundedOn(R, Nat)
  BY NatLessThanWellFounded
<1> HIDE DEF R
<1>3. \E x \in T : \A y \in T : ~ (<<y, x>> \in R)
  BY <1>2, WFMin, Zenon
<1>4. PICK x \in T : \A y \in T : ~ (<<y, x>> \in R)
  BY <1>3
<1>5. \A y \in T : ~ (y < x)
  BY <1>1, <1>4, Zenon
<1> QED
  BY <1>5

(* Induction, for a set of numbers.                                        *)
LEMMA Induction ==
  ASSUME NEW S, 0 \in S, \A n \in Nat : n \in S => n + 1 \in S
  PROVE  Nat \subseteq S
<1> SUFFICES ASSUME Nat \ S # {} PROVE FALSE
  OBVIOUS
<1>1. PICK x \in Nat \ S : \A y \in Nat \ S : x <= y
  BY LowestExists, Zenon
<1>2. x # 0 /\ x - 1 \in Nat /\ x - 1 + 1 = x
  BY <1>1
<1> QED
  BY <1>1, <1>2
-----------------------------------------------------------------------------
(* The cluster after c in a chain.                                         *)
After(c) == IF c >= EOC THEN EOC ELSE Fat[c]

(* h is the chain of c up to its n-th cluster.                             *)
IsPrefixOfChain(h, c, n) ==
  /\ h[0] = c
  /\ \A k \in 0 .. n - 1 : h[k + 1] = After(h[k])

LEMMA PrefixExists ==
  ASSUME NEW c
  PROVE  \A n \in Nat : \E h : IsPrefixOfChain(h, c, n)
<1> DEFINE S == {n \in Nat : \E h : IsPrefixOfChain(h, c, n)}
<1>1. 0 \in S
  <2>1. IsPrefixOfChain([k \in {0} |-> c], c, 0)
    BY DEF IsPrefixOfChain
  <2> QED
    BY <2>1
<1>2. ASSUME NEW n \in Nat, n \in S PROVE n + 1 \in S
  <2>1. PICK h : IsPrefixOfChain(h, c, n)
    BY <1>2
  <2> DEFINE g == [k \in 0 .. n + 1 |-> IF k = n + 1 THEN After(h[n]) ELSE h[k]]
  <2>2. g[0] = c
    BY <2>1 DEF IsPrefixOfChain
  <2>3. ASSUME NEW k \in 0 .. (n + 1) - 1 PROVE g[k + 1] = After(g[k])
    <3>1. g[k] = h[k] /\ k \in 0 .. n
      OBVIOUS
    <3>2. CASE k = n
      BY <3>1, <3>2
    <3>3. CASE k # n
      <4>1. k \in 0 .. n - 1 /\ g[k + 1] = h[k + 1]
        BY <3>1, <3>3
      <4>2. h[k + 1] = After(h[k])
        BY <4>1, <2>1 DEF IsPrefixOfChain
      <4> QED
        BY <4>1, <4>2, <3>1, Zenon
    <3> QED
      BY <3>2, <3>3
  <2>4. IsPrefixOfChain(g, c, n + 1)
    BY <2>2, <2>3 DEF IsPrefixOfChain
  <2> QED
    BY <2>4
<1> HIDE DEF S
<1>3. Nat \subseteq S
  BY <1>1, <1>2, Induction
<1> QED
  BY <1>3 DEF S

LEMMA PrefixUnique ==
  ASSUME NEW c, NEW n \in Nat, NEW m \in Nat, n <= m, NEW g, NEW h,
         IsPrefixOfChain(g, c, n), IsPrefixOfChain(h, c, m)
  PROVE  g[n] = h[n]
<1> DEFINE S == {k \in Nat : k <= n => g[k] = h[k]}
<1>1. 0 \in S
  BY DEF IsPrefixOfChain
<1>2. ASSUME NEW k \in Nat, k \in S PROVE k + 1 \in S
  <2> SUFFICES ASSUME k + 1 <= n PROVE g[k + 1] = h[k + 1]
    OBVIOUS
  <2>1. k \in 0 .. n - 1 /\ k \in 0 .. m - 1 /\ g[k] = h[k]
    BY <1>2
  <2>2. g[k + 1] = After(g[k]) /\ h[k + 1] = After(h[k])
    BY <2>1 DEF IsPrefixOfChain
  <2> QED
    BY <2>1, <2>2
<1> HIDE DEF S
<1>3. Nat \subseteq S
  BY <1>1, <1>2, Induction
<1> QED
  BY <1>3 DEF S

LEMMA ChainExists ==
  ASSUME NEW c
  PROVE  \E f : f = [n \in Nat |-> IF n = 0 THEN c ELSE After(f[n - 1])]
<1> DEFINE P(n) == CHOOSE h : IsPrefixOfChain(h, c, n)
           f == [n \in Nat |-> P(n)[n]]
<1>1. \A n \in Nat : IsPrefixOfChain(P(n), c, n)
  BY PrefixExists, Zenon
<1> HIDE DEF P
<1>2. f[0] = c
  BY <1>1 DEF IsPrefixOfChain
<1>3. ASSUME NEW n \in Nat, n # 0 PROVE f[n] = After(f[n - 1])
  <2>1. n - 1 \in Nat /\ n - 1 <= n /\ n - 1 \in 0 .. n - 1 /\ n - 1 + 1 = n
    BY <1>3
  <2>2. P(n - 1)[n - 1] = P(n)[n - 1]
    BY <1>1, <2>1, PrefixUnique
  <2>3. P(n)[n] = After(P(n)[n - 1])
    BY <1>1, <2>1 DEF IsPrefixOfChain
  <2> QED
    BY <2>1, <2>2, <2>3
<1> HIDE DEF f
<1>4. f = [n \in Nat |-> f[n]]
  BY DEF f
<1>5. \A n \in Nat : f[n] = IF n = 0 THEN c ELSE After(f[n - 1])
  BY <1>2, <1>3, Zenon
<1>6. f = [n \in Nat |-> IF n = 0 THEN c ELSE After(f[n - 1])]
  BY <1>4, <1>5, Zenon
<1> QED
  BY <1>6

LEMMA NthIs ==
  ASSUME NEW c
  PROVE  Nth(c)[0] = c /\ \A n \in Nat : Nth(c)[n + 1] = After(Nth(c)[n])
<1> DEFINE Rest(f, n) == IF f[n - 1] >= EOC THEN EOC ELSE Fat[f[n - 1]]
           Chain == CHOOSE f : f = [n \in Nat |-> IF n = 0 THEN c ELSE Rest(f, n)]
<1>0. Nth(c) = Chain
  BY Zenon DEF Nth
<1>a. \E f : f = [n \in Nat |-> IF n = 0 THEN c ELSE Rest(f, n)]
  BY ChainExists, Zenon DEF After
<1>b. Chain = [n \in Nat |-> IF n = 0 THEN c ELSE Rest(Chain, n)]
  BY <1>a, Zenon
<1>1. Nth(c) = [n \in Nat |-> IF n = 0 THEN c ELSE After(Nth(c)[n - 1])]
  BY <1>0, <1>b, Zenon DEF After
<1>2. \A n \in Nat : Nth(c)[n] = IF n = 0 THEN c ELSE After(Nth(c)[n - 1])
  BY <1>1, Zenon
<1> HIDE DEF After, Nth
<1>3. Nth(c)[0] = c
  BY <1>2
<1>4. ASSUME NEW n \in Nat PROVE Nth(c)[n + 1] = After(Nth(c)[n])
  <2>1. n + 1 \in Nat /\ n + 1 # 0 /\ n + 1 - 1 = n
    OBVIOUS
  <2> QED
    BY <2>1, <1>2
<1> QED
  BY <1>3, <1>4
-----------------------------------------------------------------------------
Stop(e) == e.name = "END" \/ Matches(e)

LEMMA StopsAtFirst ==
  ASSUME EntriesHere \in Seq(DirEntry)
  PROVE  \/ StopsAt = 0 /\ \A k \in 1 .. Len(EntriesHere) : ~Stop(EntriesHere[k])
         \/ /\ StopsAt \in 1 .. Len(EntriesHere) /\ Stop(EntriesHere[StopsAt])
            /\ \A k \in 1 .. StopsAt - 1 : ~Stop(EntriesHere[k])
<1> DEFINE I == {k \in 1 .. Len(EntriesHere) : Stop(EntriesHere[k])}
<1>1. StopsAt = IF I # {} THEN Min(I) ELSE 0
  BY Zenon DEF StopsAt, SelectInSeq, Stop
<1>2. I \subseteq 1 .. Len(EntriesHere) /\ I \subseteq Nat /\ Len(EntriesHere) \in Nat
  OBVIOUS
<1>3. \A k \in 1 .. Len(EntriesHere) : k \in I <=> Stop(EntriesHere[k])
  OBVIOUS
<1> HIDE DEF I
<1>4. CASE I = {}
  BY <1>1, <1>3, <1>4
<1>5. CASE I # {}
  <2>1. Min(I) \in I /\ \A k \in I : Min(I) <= k
    BY <1>2, <1>5, LowestExists, Zenon DEF Min
  <2>2. StopsAt = Min(I)
    BY <1>1, <1>5, Zenon
  <2>3. StopsAt \in 1 .. Len(EntriesHere) /\ Stop(EntriesHere[StopsAt])
    BY <1>2, <1>3, <2>1, <2>2, Zenon
  <2>4. ASSUME NEW k \in 1 .. StopsAt - 1 PROVE ~Stop(EntriesHere[k])
    <3>1. k \in 1 .. Len(EntriesHere) /\ ~ (StopsAt <= k)
      BY <1>2, <2>3
    <3> QED
      BY <3>1, <1>3, <2>1, <2>2
  <2> QED
    BY <2>3, <2>4
<1> QED
  BY <1>4, <1>5
-----------------------------------------------------------------------------
(* A cluster in use, or the end of a chain.                                *)
InChain(v) == v \in DOMAIN Fat \/ (v \in Nat /\ v >= EOC)

LEMMA ClusterInUse ==
  ASSUME NEW c \in DOMAIN Fat
  PROVE  c \in Nat /\ c >= 2 /\ c < RESERVED /\ c < EOC /\ InChain(Fat[c])
  BY ConstantsAssumption, FatAssumption DEF InChain

LEMMA ChainStays ==
  ASSUME NEW c \in DOMAIN Fat
  PROVE  \A n \in Nat : InChain(Nth(c)[n])
<1> DEFINE S == {n \in Nat : InChain(Nth(c)[n])}
<1>1. 0 \in S
  BY NthIs DEF InChain
<1>2. ASSUME NEW n \in Nat, n \in S PROVE n + 1 \in S
  <2> DEFINE v == Nth(c)[n]
  <2>1. Nth(c)[n + 1] = After(v) /\ InChain(v)
    BY <1>2, NthIs
  <2> HIDE DEF v
  <2>2. InChain(After(v))
    BY <2>1, ClusterInUse, ConstantsAssumption DEF InChain, After
  <2> QED
    BY <2>1, <2>2
<1> HIDE DEF S
<1>3. Nat \subseteq S
  BY <1>1, <1>2, Induction
<1> QED
  BY <1>3 DEF S

(* After its end a chain has no more clusters.                             *)
LEMMA ChainEnds ==
  ASSUME NEW c \in DOMAIN Fat, NEW n \in Nat, Nth(c)[n] >= EOC
  PROVE  \A m \in Nat : m >= n => Nth(c)[m] >= EOC
<1> DEFINE S == {m \in Nat : m >= n => Nth(c)[m] >= EOC}
<1>1. 0 \in S
  <2> SUFFICES ASSUME 0 >= n PROVE Nth(c)[0] >= EOC
    OBVIOUS
  <2>1. n = 0
    OBVIOUS
  <2> QED
    BY <2>1
<1>2. ASSUME NEW m \in Nat, m \in S PROVE m + 1 \in S
  <2> SUFFICES ASSUME m + 1 >= n PROVE Nth(c)[m + 1] >= EOC
    OBVIOUS
  <2>1. CASE m + 1 = n
    BY <2>1
  <2>2. CASE m + 1 # n
    <3>1. Nth(c)[m] >= EOC /\ Nth(c)[m + 1] = After(Nth(c)[m])
      BY <1>2, <2>2, NthIs
    <3> QED
      BY <3>1, ConstantsAssumption DEF After
  <2> QED
    BY <2>1, <2>2
<1> HIDE DEF S
<1>3. Nat \subseteq S
  BY <1>1, <1>2, Induction, SMTT(30)
<1> QED
  BY <1>3 DEF S

(* fat32_get_next_cluster follows the chain, or says it has ended.         *)
LEMMA NextCluster ==
  ASSUME NEW c \in DOMAIN Fat, NEW n \in Nat, NEW failed, NEW d \in DOMAIN Fat,
         d = Nth(c)[n]
  PROVE  LET next == fat32_get_next_cluster(d, failed)
         IN  /\ next \in Nat
             /\ next < EOC => next = Nth(c)[n + 1] /\ next \in DOMAIN Fat
             /\ next >= EOC /\ failed # 1 => Nth(c)[n + 1] >= EOC
<1>1. Nth(c)[n + 1] = Fat[d]
  BY NthIs, ClusterInUse, ConstantsAssumption, SMTT(30) DEF After
<1>2. InChain(Fat[d]) /\ d >= 2 /\ d < RESERVED /\ d \in Nat
  BY ClusterInUse
<1>3. fat32_get_next_cluster(d, failed) =
        IF failed = 1 \/ Fat[d] >= EOC THEN EOC ELSE Fat[d]
  BY <1>2, ConstantsAssumption DEF fat32_get_next_cluster
<1>4. Fat[d] \in Nat /\ (Fat[d] < EOC => Fat[d] \in DOMAIN Fat)
  BY <1>2, ClusterInUse, ConstantsAssumption, SMTT(30) DEF InChain
<1> QED
  BY <1>1, <1>3, <1>4, ConstantsAssumption, SMTT(30)
-----------------------------------------------------------------------------
(* Positions in a file: cluster, sector and byte.                          *)
LEMMA QuotientRemainder ==
  ASSUME NEW w \in Nat \ {0}, NEW a \in Nat
  PROVE  /\ a \div w \in Nat /\ a % w \in 0 .. w - 1
         /\ a = (a \div w) * w + (a % w)
  OBVIOUS

LEMMA QuotientUnique ==
  ASSUME NEW w \in Nat \ {0}, NEW q \in Nat, NEW r \in 0 .. w - 1, NEW a, a = q * w + r
  PROVE  a \div w = q /\ a % w = r
<1>1. a \in Nat
  OBVIOUS
<1>2. a = (a \div w) * w + (a % w) /\ a \div w \in Nat /\ a % w \in 0 .. w - 1
  BY <1>1, QuotientRemainder, Zenon
<1> QED
  BY <1>2

LEMMA SectorSize == SECTOR_SIZE \in Nat \ {0}
  BY ConstantsAssumption

LEMMA ClusterSize == CLUSTER_SIZE \in Nat \ {0}
  BY ConstantsAssumption DEF CLUSTER_SIZE

(* The bytes from p to the end of its sector are in p's cluster and sector.*)
LEMMA SameSector ==
  ASSUME NEW p \in Nat, NEW j \in Nat, ((p % CLUSTER_SIZE) % SECTOR_SIZE) + j < SECTOR_SIZE,
         (p % CLUSTER_SIZE) + j < CLUSTER_SIZE
  PROVE  /\ (p + j) \div CLUSTER_SIZE = p \div CLUSTER_SIZE
         /\ ((p + j) % CLUSTER_SIZE) \div SECTOR_SIZE = (p % CLUSTER_SIZE) \div SECTOR_SIZE
         /\ (p + j) % SECTOR_SIZE = ((p % CLUSTER_SIZE) % SECTOR_SIZE) + j
<1> DEFINE q == p \div CLUSTER_SIZE
           r == p % CLUSTER_SIZE
           a == r \div SECTOR_SIZE
           b == r % SECTOR_SIZE
<1>1. q \in Nat /\ r \in 0 .. CLUSTER_SIZE - 1 /\ p = q * CLUSTER_SIZE + r
  BY ClusterSize, QuotientRemainder, Zenon
<1>2. a \in Nat /\ b \in 0 .. SECTOR_SIZE - 1 /\ r = a * SECTOR_SIZE + b
  <2>1. r \in Nat
    BY <1>1, ClusterSize, SMTT(30)
  <2> HIDE DEF r
  <2> QED
    BY <2>1, ConstantsAssumption, QuotientRemainder, Zenon
<1>3. r + j \in 0 .. CLUSTER_SIZE - 1 /\ b + j \in 0 .. SECTOR_SIZE - 1
  BY <1>1, <1>2, ClusterSize, ConstantsAssumption, SMTT(30)
<1> HIDE DEF q, r, a, b
<1>4. p + j = q * CLUSTER_SIZE + (r + j) /\ r + j = a * SECTOR_SIZE + (b + j)
  BY <1>1, <1>2, ClusterSize, ConstantsAssumption, SMTT(30)
<1>5. (p + j) \div CLUSTER_SIZE = q /\ (p + j) % CLUSTER_SIZE = r + j
  <2> DEFINE x == p + j
             y == r + j
  <2>1. q \in Nat /\ y \in 0 .. CLUSTER_SIZE - 1 /\ x = q * CLUSTER_SIZE + y
    BY <1>1, <1>3, <1>4, SMTT(30)
  <2> HIDE DEF x, y
  <2>2. x \div CLUSTER_SIZE = q /\ x % CLUSTER_SIZE = y
    BY <2>1, ClusterSize, QuotientUnique, Zenon
  <2> QED
    BY <2>2 DEF x, y
<1>6. (r + j) \div SECTOR_SIZE = a
  <2> DEFINE x == r + j
             y == b + j
  <2>1. a \in Nat /\ y \in 0 .. SECTOR_SIZE - 1 /\ x = a * SECTOR_SIZE + y
    BY <1>2, <1>3, <1>4, SMTT(30)
  <2> HIDE DEF x, y
  <2>2. x \div SECTOR_SIZE = a
    BY <2>1, SectorSize, QuotientUnique, Zenon
  <2> QED
    BY <2>2 DEF x, y
<1>7. p + j = (q * SPC + a) * SECTOR_SIZE + (b + j) /\ q * SPC + a \in Nat
  <2>1. p + j = (q * CLUSTER_SIZE) + (a * SECTOR_SIZE) + (b + j)
    BY <1>1, <1>2, <1>4, ClusterSize, ConstantsAssumption, SMTT(30)
  <2>2. q * CLUSTER_SIZE = (q * SPC) * SECTOR_SIZE
    BY <1>1, ConstantsAssumption, SMTT(30) DEF CLUSTER_SIZE
  <2>3. q * SPC \in Nat /\ q * SPC + a \in Nat
    BY <1>1, <1>2, ConstantsAssumption, SMTT(30)
  <2>4. (q * SPC + a) * SECTOR_SIZE = (q * SPC) * SECTOR_SIZE + (a * SECTOR_SIZE)
    BY <1>2, <2>3, ConstantsAssumption, SMTT(30)
  <2> QED
    BY <2>1, <2>2, <2>3, <2>4, SMTT(30)
<1>8. (p + j) % SECTOR_SIZE = b + j
  <2> DEFINE x == p + j
             y == b + j
             z == q * SPC + a
  <2>1. z \in Nat /\ y \in 0 .. SECTOR_SIZE - 1 /\ x = z * SECTOR_SIZE + y
    BY <1>3, <1>7, SMTT(30)
  <2> HIDE DEF x, y, z
  <2>2. x % SECTOR_SIZE = y
    BY <2>1, SectorSize, QuotientUnique, Zenon
  <2> QED
    BY <2>2, SMTT(30) DEF x, y
<1> QED
  BY <1>5, <1>6, <1>8 DEF q, r, a, b

(* Reading on to the end of the cluster at most: the position is in the    *)
(* next cluster just when it is at a boundary.                             *)
LEMMA SameCluster ==
  ASSUME NEW p \in Nat, NEW n \in Nat \ {0}, (p % CLUSTER_SIZE) + n <= CLUSTER_SIZE
  PROVE  (p + n) \div CLUSTER_SIZE =
           IF LeavesCluster(p + n) THEN (p \div CLUSTER_SIZE) + 1 ELSE p \div CLUSTER_SIZE
<1> DEFINE q == p \div CLUSTER_SIZE
           r == p % CLUSTER_SIZE
<1>1. q \in Nat /\ r \in 0 .. CLUSTER_SIZE - 1 /\ p = q * CLUSTER_SIZE + r
  BY ClusterSize, QuotientRemainder, Zenon
<1> HIDE DEF q
<1>2. CASE r + n < CLUSTER_SIZE
  <2> HIDE DEF r
  <2>1. p + n = q * CLUSTER_SIZE + (r + n) /\ r + n \in 0 .. CLUSTER_SIZE - 1 /\ r + n # 0
    BY <1>1, <1>2, ClusterSize, SMTT(30)
  <2>2. (p + n) \div CLUSTER_SIZE = q /\ (p + n) % CLUSTER_SIZE = r + n
    <3> DEFINE x == p + n
               y == r + n
    <3>1. y \in 0 .. CLUSTER_SIZE - 1 /\ x = q * CLUSTER_SIZE + y
      BY <2>1, SMTT(30)
    <3> HIDE DEF x, y
    <3>2. x \div CLUSTER_SIZE = q /\ x % CLUSTER_SIZE = y
      BY <1>1, <3>1, ClusterSize, QuotientUnique, Zenon
    <3> QED
      BY <3>2, SMTT(30) DEF x, y
  <2> QED
    BY <2>1, <2>2 DEF LeavesCluster, q
<1>3. CASE r + n = CLUSTER_SIZE
  <2> HIDE DEF r
  <2>1. 0 \in 0 .. CLUSTER_SIZE - 1 /\ q + 1 \in Nat
    BY <1>1, ClusterSize, SMTT(30)
  <2>0. (q + 1) * CLUSTER_SIZE = (q * CLUSTER_SIZE) + CLUSTER_SIZE
    BY <1>1, ClusterSize, SMTT(30)
  <2>3. p + n = (q + 1) * CLUSTER_SIZE + 0
    BY <1>1, <1>3, <2>0, ClusterSize, SMTT(30)
  <2>2. (p + n) \div CLUSTER_SIZE = q + 1 /\ (p + n) % CLUSTER_SIZE = 0
    <3> DEFINE x == p + n
               y == q + 1
    <3>1. y \in Nat /\ x = y * CLUSTER_SIZE + 0
      BY <2>1, <2>3
    <3> HIDE DEF x, y
    <3>2. x \div CLUSTER_SIZE = y /\ x % CLUSTER_SIZE = 0
      BY <2>1, <3>1, ClusterSize, QuotientUnique, Zenon
    <3> QED
      BY <3>2 DEF x, y
  <2> QED
    BY <2>2, SMTT(30) DEF LeavesCluster, q
<1> QED
  BY <1>1, <1>2, <1>3, ClusterSize, SMTT(30)
-----------------------------------------------------------------------------
File == [first_cluster : Nat, current_cluster : Nat, size : 0 .. WORD - 1,
         position : Nat, valid : {0, 1}]

TypeInv ==
  /\ initialized \in {0, 1} /\ clean \in {0, 1} /\ sound \in {0, 1}
  /\ file \in File /\ current_file \in {"NULL", "file"}
  /\ call \in {"boot", "idle", "open", "read", "list"}
  /\ todo \in Nat /\ out \in Seq(Int \X Int)
  /\ current_file = "file" <=> file.valid = 1
  /\ call = "read" => file.valid = 1 /\ ret \in [op : {"read"}, value : Nat]

(* fat32_open has passed neither an end mark nor an entry of the name.     *)
Passed(i, s) ==
  \A q \in Slots : q[1] < i \/ (q[1] = i /\ q[2] < s) => ~Stop(EntryAt(q))
ScanInv ==
  call = "open" =>
    /\ name \in Names /\ sector \in 0 .. SPC - 1
    /\ \E i \in 0 .. RESERVED :
         cluster = Nth(ROOT)[i] /\ cluster < EOC /\ Passed(i, sector)

(* An open file that is not empty has a chain with room for all its bytes; *)
(* nothing is read of an empty one.                                        *)
HasChain(first, length) ==
  /\ first \in DOMAIN Fat
  /\ \A k \in 0 .. length - 1 : Nth(first)[k \div CLUSTER_SIZE] < EOC
FileInv ==
  file.valid = 1 =>
    /\ file.size > 0 => HasChain(file.first_cluster, file.size)
    /\ file.size = 0 => file.position = 0 /\ (call = "read" => todo = 0)

(* current_cluster is where position is in the chain, unless the chain has *)
(* ended or a disk error has cut it.                                       *)
ClusterInv ==
  file.valid = 1 /\ file.size > 0 /\ file.current_cluster < EOC =>
    file.current_cluster = Nth(file.first_cluster)[file.position \div CLUSTER_SIZE]

OrderInv == TypeInv /\ ScanInv /\ FileInv /\ ClusterInv /\ ReadsInOrder

(* Requests that do not wrap fat32_read's 32-bit position + size.          *)
NoWrap == \A p \in Live, n \in ReadSizes : EntryAt(p).size + n < WORD

(* With no disk error since the open, current_cluster is at or past EOC    *)
(* only at the end of the chain, and a read in progress has got all but    *)
(* todo of what it was asked, or of the rest of the file.                  *)
ProgressInv ==
  /\ call = "boot" => initialized = 0
  /\ current_file = "file" \/ call = "open" => initialized = 1
  /\ file.position <= file.size
  /\ file.valid = 1 =>
       /\ \A n \in ReadSizes : file.size + n < WORD
       /\ file.size > 0 /\ sound = 1 /\ file.current_cluster >= EOC =>
            Nth(file.first_cluster)[file.position \div CLUSTER_SIZE] >= EOC
  /\ call = "read" =>
       /\ file.position + todo <= file.size
       /\ ret.value + todo = size \/ file.position + todo = file.size
EofInv == OrderInv /\ ProgressInv /\ ShortReadIsEof
-----------------------------------------------------------------------------
LEMMA InitOrder == Init => OrderInv
<1> SUFFICES ASSUME Init PROVE OrderInv
  BY SMTT(30)
<1>1. TypeInv
  BY ConstantsAssumption, SMTT(30) DEF Init, TypeInv, File
<1>2. ScanInv /\ FileInv /\ ClusterInv /\ ReadsInOrder
  BY SMTT(30) DEF Init, ScanInv, FileInv, ClusterInv, ReadsInOrder
<1> QED
  BY <1>1, <1>2, SMTT(30) DEF OrderInv

LEMMA FileKept ==
  ASSUME OrderInv, UNCHANGED <<file, out>>, call' # "read"
  PROVE  FileInv' /\ ClusterInv' /\ ReadsInOrder'
<1>1. FileInv'
  BY DEF OrderInv, FileInv, HasChain
<1>2. ClusterInv'
  BY DEF OrderInv, ClusterInv
<1>3. ReadsInOrder'
  BY DEF OrderInv, ReadsInOrder, FileByte
<1> QED
  BY <1>1, <1>2, <1>3, SMTT(30)

LEMMA FileClosed ==
  ASSUME file'.valid # 1
  PROVE  FileInv' /\ ClusterInv' /\ ReadsInOrder'
  BY DEF FileInv, ClusterInv, ReadsInOrder

LEMMA Order_fat32_init == ASSUME OrderInv, fat32_init PROVE OrderInv'
<1>1. /\ call' \in {"idle", "list"} /\ initialized' \in {0, 1} /\ clean' = 1
      /\ UNCHANGED <<file, current_file, out, sound, todo>>
  BY DEF fat32_init, Return, ListRoot, Arguments, fileVars
<1>2. TypeInv'
  BY <1>1, SMTT(30) DEF OrderInv, TypeInv
<1>3. ScanInv'
  BY <1>1 DEF ScanInv
<1> QED
  BY <1>1, <1>2, <1>3, FileKept, SMTT(30) DEF OrderInv

LEMMA Order_ListDir == ASSUME OrderInv, ListDir PROVE OrderInv'
<1>1. /\ call' \in {"idle", "list"} /\ clean' = 1
      /\ UNCHANGED <<initialized, file, current_file, out, sound, todo>>
  BY DEF ListDir, Return, Arguments, fileVars
<1>2. TypeInv'
  BY <1>1 DEF OrderInv, TypeInv
<1>3. ScanInv'
  BY <1>1 DEF ScanInv
<1> QED
  BY <1>1, <1>2, <1>3, FileKept, SMTT(30) DEF OrderInv

LEMMA Order_ListSector == ASSUME OrderInv, ListSector PROVE OrderInv'
<1>1. /\ call' \in {"idle", "list"} /\ clean' \in {0, 1}
      /\ UNCHANGED <<initialized, file, current_file, out, sound, todo>>
  BY Zenon DEF ListSector, Return, Continue, NoteFault, fileVars, OrderInv, TypeInv
<1>2. TypeInv'
  BY <1>1 DEF OrderInv, TypeInv
<1>3. ScanInv'
  BY <1>1 DEF ScanInv
<1> QED
  BY <1>1, <1>2, <1>3, FileKept, SMTT(30) DEF OrderInv

LEMMA Order_FileClose == ASSUME OrderInv, FileClose PROVE OrderInv'
<1>1. /\ call' = "idle" /\ clean' = 1 /\ current_file' = "NULL"
      /\ UNCHANGED <<initialized, out, sound, todo>>
  BY SMTT(30) DEF FileClose, Return, Arguments
<1>2. file' \in File /\ file'.valid = 0
  BY SMTT(30) DEF FileClose, OrderInv, TypeInv, File
<1>3. TypeInv'
  BY <1>1, <1>2, SMTT(30) DEF OrderInv, TypeInv
<1>4. ScanInv'
  BY <1>1, SMTT(30) DEF ScanInv
<1> QED
  BY <1>2, <1>3, <1>4, FileClosed, SMTT(30) DEF OrderInv
-----------------------------------------------------------------------------
LEMMA SlotIs ==
  ASSUME NEW q \in Slots
  PROVE  /\ q[1] \in 0 .. RESERVED /\ Nth(ROOT)[q[1]] < EOC /\ q[2] \in 0 .. SPC - 1
         /\ Dir[RootSector(q[1], q[2])] \in Seq(DirEntry)
         /\ q[3] \in 1 .. Len(Dir[RootSector(q[1], q[2])])
         /\ EntryAt(q) \in DirEntry
         /\ q = <<q[1], q[2], q[3]>>
<1> DEFINE At(p) == {<<p[1], p[2], k>> : k \in 1 .. Len(Dir[RootSector(p[1], p[2])])}
<1>0. PICK p \in RootSectors : q \in At(p)
  BY DEF Slots
<1> DEFINE i == p[1]
           s == p[2]
<1>1. i \in 0 .. RESERVED /\ Nth(ROOT)[i] < EOC /\ s \in 0 .. SPC - 1
  BY <1>0, SMTT(30) DEF RootSectors
<1>a. PICK k \in 1 .. Len(Dir[RootSector(i, s)]) : q = <<i, s, k>>
  BY <1>0, SMTT(30)
<1>2. q[1] = i /\ q[2] = s /\ q[3] = k
  BY <1>a, SMTT(30)
<1> HIDE DEF i, s
<1>3. Dir[RootSector(i, s)] \in Seq(DirEntry)
  BY <1>1, DirAssumption, SMTT(30)
<1>4. Dir[RootSector(i, s)][k] \in DirEntry
  BY <1>a, <1>3, SMTT(30)
<1>5. EntryAt(q) = Dir[RootSector(i, s)][k]
  BY <1>2, SMTT(30) DEF EntryAt
<1> QED
  BY <1>1, <1>a, <1>2, <1>3, <1>4, <1>5, SMTT(30)

LEMMA SlotFrom ==
  ASSUME NEW i \in 0 .. RESERVED, Nth(ROOT)[i] < EOC, NEW s \in 0 .. SPC - 1,
         NEW k \in 1 .. Len(Dir[RootSector(i, s)])
  PROVE  /\ <<i, s, k>> \in Slots
         /\ EntryAt(<<i, s, k>>) = Dir[RootSector(i, s)][k]
<1> DEFINE p == <<i, s>>
           At(r) == {<<r[1], r[2], m>> : m \in 1 .. Len(Dir[RootSector(r[1], r[2])])}
<1>1. p \in RootSectors /\ p[1] = i /\ p[2] = s
  BY SMTT(30) DEF RootSectors
<1>2. <<i, s, k>> \in At(p)
  BY <1>1, SMTT(30)
<1>3. Slots = UNION {At(r) : r \in RootSectors}
  BY Zenon DEF Slots
<1> HIDE DEF At, p
<1>4. <<i, s, k>> \in Slots
  BY <1>1, <1>2, <1>3, SMTT(30)
<1> QED
  BY <1>4, SMTT(30) DEF EntryAt

LEMMA Order_FileOpen == ASSUME OrderInv, FileOpen PROVE OrderInv'
<1>1. /\ call' \in {"idle", "open"} /\ clean' = 1 /\ current_file' = "NULL"
      /\ UNCHANGED <<initialized, out, sound, todo>>
      /\ call' = "open" => cluster' = ROOT /\ sector' = 0
  BY DEF FileOpen, Return, Arguments
<1>2. file' \in File /\ file'.valid = 0
  BY Zenon DEF FileOpen, OrderInv, TypeInv, File
<1>3. TypeInv'
  BY <1>1, <1>2 DEF OrderInv, TypeInv
<1>4. ScanInv'
  <2> SUFFICES ASSUME call' = "open" PROVE ScanInv'
    BY DEF ScanInv
  <2>1. name' \in Names
    BY DEF FileOpen, Arguments
  <2>2. cluster' = Nth(ROOT)[0] /\ cluster' < EOC /\ sector' = 0 /\ sector' \in 0 .. SPC - 1
        /\ 0 \in 0 .. RESERVED
    BY <1>1, NthIs, FatAssumption, ClusterInUse, ConstantsAssumption, SMTT(30)
  <2>3. ASSUME NEW q \in Slots PROVE ~ (q[1] < 0 \/ (q[1] = 0 /\ q[2] < 0))
    BY SlotIs, ConstantsAssumption, SMTT(30)
  <2>4. Passed(0, sector)'
    BY <2>2, <2>3, SMTT(30) DEF Passed
  <2> QED
    BY <2>1, <2>2, <2>4, SMTT(30) DEF ScanInv
<1> QED
  BY <1>2, <1>3, <1>4, FileClosed DEF OrderInv

(* What is left to read is never more than was asked, and nothing of an    *)
(* empty file.                                                             *)
LEMMA ClipType ==
  ASSUME TypeInv, NEW n \in ReadSizes
  PROVE  /\ Clip(n) \in Nat
         /\ file.size = 0 /\ file.position = 0 => Clip(n) = 0
<1>1. n \in 0 .. WORD - 1 /\ WORD \in Nat \ {0}
  BY ConstantsAssumption, SMTT(30)
<1>2. file.size \in Nat /\ file.position \in Nat
  BY ConstantsAssumption, SMTT(30) DEF TypeInv, File
<1>3. (file.size - file.position) % WORD \in Nat
  BY <1>1, <1>2, SMTT(30)
<1>4. (0 + n) % WORD = n /\ (0 - 0) % WORD = 0
  BY <1>1, SMTT(30)
<1> QED
  BY <1>1, <1>3, <1>4, SMTT(30) DEF Clip

LEMMA Order_FileRead == ASSUME OrderInv, FileRead PROVE OrderInv'
<1>1. /\ clean' = 1 /\ UNCHANGED <<initialized, file, current_file, out, sound>>
      /\ size' \in ReadSizes
  BY DEF FileRead, Arguments, fileVars
<1>2. CASE call' = "idle" /\ UNCHANGED todo
  <2>1. TypeInv'
    BY <1>1, <1>2, SMTT(30) DEF OrderInv, TypeInv
  <2>2. ScanInv'
    BY <1>2 DEF ScanInv
  <2> QED
    BY <1>1, <1>2, <2>1, <2>2, FileKept, SMTT(30) DEF OrderInv
<1>3. CASE /\ current_file = "file" /\ call' = "read" /\ todo' = Clip(size')
           /\ ret' = [op |-> "read", value |-> 0]
  <2>1. TypeInv /\ FileInv /\ ClusterInv /\ ReadsInOrder
    BY DEF OrderInv
  <2>2. todo' \in Nat /\ (file.size = 0 /\ file.position = 0 => todo' = 0)
    BY <1>1, <1>3, <2>1, ClipType
  <2>3. TypeInv'
    BY <1>1, <1>3, <2>1, <2>2 DEF TypeInv
  <2>4. ScanInv'
    BY <1>3 DEF ScanInv
  <2>5. FileInv'
    BY <1>1, <2>1, <2>2 DEF FileInv, HasChain
  <2>6. ClusterInv'
    BY <1>1, <2>1 DEF ClusterInv
  <2>7. ReadsInOrder'
    BY <1>1, <2>1 DEF ReadsInOrder, FileByte
  <2> QED
    BY <2>3, <2>4, <2>5, <2>6, <2>7 DEF OrderInv
<1>4. \/ call' = "idle" /\ UNCHANGED todo
      \/ /\ current_file = "file" /\ call' = "read" /\ todo' = Clip(size')
         /\ ret' = [op |-> "read", value |-> 0]
  BY DEF FileRead, Return, OrderInv, TypeInv
<1> QED
  BY <1>2, <1>3, <1>4, SMTT(30)
-----------------------------------------------------------------------------
(* Where fat32_open is in the directory.                                   *)
ScanAt(i) ==
  /\ i \in 0 .. RESERVED /\ cluster = Nth(ROOT)[i] /\ cluster \in DOMAIN Fat
  /\ sector \in 0 .. SPC - 1 /\ Passed(i, sector)
  /\ EntriesHere = Dir[RootSector(i, sector)] /\ EntriesHere \in Seq(DirEntry)

LEMMA ScanPosition ==
  ASSUME ScanInv, call = "open"
  PROVE  \E i : ScanAt(i)
<1>1. PICK i \in 0 .. RESERVED :
        cluster = Nth(ROOT)[i] /\ cluster < EOC /\ Passed(i, sector)
  BY DEF ScanInv
<1>2. i \in Nat /\ sector \in 0 .. SPC - 1
  BY <1>1, ConstantsAssumption DEF ScanInv
<1>3. InChain(cluster)
  BY <1>1, <1>2, ChainStays, FatAssumption
<1>4. cluster \in DOMAIN Fat
  BY <1>1, <1>3, ConstantsAssumption DEF InChain
<1>5. fat32_cluster_to_sector(cluster) = DATA_START + (cluster - 2) * SPC
  BY <1>4, ClusterInUse DEF fat32_cluster_to_sector
<1>6. EntriesHere = Dir[RootSector(i, sector)]
  BY <1>1, <1>5 DEF EntriesHere, RootSector
<1>7. EntriesHere \in Seq(DirEntry)
  BY <1>1, <1>2, <1>6, DirAssumption
<1> QED
  BY <1>1, <1>2, <1>4, <1>6, <1>7 DEF ScanAt

(* A slot in the sector fat32_open is at is one of the entries there.      *)
LEMMA SlotHere ==
  ASSUME NEW i, ScanAt(i), NEW q \in Slots, q[1] = i, q[2] = sector
  PROVE  q[3] \in 1 .. Len(EntriesHere) /\ EntryAt(q) = EntriesHere[q[3]]
  BY SlotIs DEF ScanAt, EntryAt

(* fat32_open stops at a slot before which there was no reason to stop.    *)
LEMMA StopSlot ==
  ASSUME NEW i, ScanAt(i), StopsAt # 0
  PROVE  LET p == <<i, sector, StopsAt>>
         IN  /\ p \in Slots /\ EntryAt(p) = EntriesHere[StopsAt] /\ Stop(EntryAt(p))
             /\ \A q \in Slots : Before(q, p) => ~Stop(EntryAt(q))
<1> DEFINE p == <<i, sector, StopsAt>>
<1>1. /\ StopsAt \in 1 .. Len(EntriesHere) /\ Stop(EntriesHere[StopsAt])
      /\ \A k \in 1 .. StopsAt - 1 : ~Stop(EntriesHere[k])
  BY StopsAtFirst DEF ScanAt
<1>2. Nth(ROOT)[i] < EOC
  BY ClusterInUse DEF ScanAt
<1>3. p \in Slots /\ EntryAt(p) = EntriesHere[StopsAt]
  BY <1>1, <1>2, SlotFrom DEF ScanAt
<1>4. ASSUME NEW q \in Slots, Before(q, p) PROVE ~Stop(EntryAt(q))
  <2>1. \/ q[1] < i \/ (q[1] = i /\ q[2] < sector)
        \/ q[1] = i /\ q[2] = sector /\ q[3] < StopsAt
    BY <1>4 DEF Before
  <2>2. CASE q[1] < i \/ (q[1] = i /\ q[2] < sector)
    BY <2>2 DEF ScanAt, Passed
  <2>3. CASE q[1] = i /\ q[2] = sector /\ q[3] < StopsAt
    <3>1. q[3] \in 1 .. StopsAt - 1 /\ EntryAt(q) = EntriesHere[q[3]]
      BY <1>1, <2>3, SlotHere DEF ScanAt
    <3> QED
      BY <1>1, <3>1, SMTT(30)
  <2> QED
    BY <2>1, <2>2, <2>3
<1> QED
  BY <1>1, <1>3, <1>4

(* Slots are ordered.                                                      *)
LEMMA BeforeTotal ==
  ASSUME NEW p \in Slots, NEW q \in Slots
  PROVE  Before(p, q) \/ p = q \/ Before(q, p)
<1>1. /\ p[1] \in Int /\ p[2] \in Int /\ p[3] \in Int /\ p = <<p[1], p[2], p[3]>>
      /\ q[1] \in Int /\ q[2] \in Int /\ q[3] \in Int /\ q = <<q[1], q[2], q[3]>>
  BY SlotIs, ConstantsAssumption
<1>2. CASE p[1] = q[1] /\ p[2] = q[2] /\ p[3] = q[3]
  BY <1>1, <1>2, Zenon
<1>3. CASE ~ (p[1] = q[1] /\ p[2] = q[2] /\ p[3] = q[3])
  BY <1>1, <1>3 DEF Before
<1> QED
  BY <1>2, <1>3

(* It stopped at an entry: the first one of the name before the end mark.  *)
LEMMA StopIsFirst ==
  ASSUME NEW i, ScanAt(i), StopsAt # 0, EntriesHere[StopsAt].name # "END"
  PROVE  \E p \in Entries(name) : /\ EntryAt(p) = EntriesHere[StopsAt]
                                  /\ \A q \in Entries(name) : ~Before(q, p)
<1> DEFINE p == <<i, sector, StopsAt>>
<1>1. /\ p \in Slots /\ EntryAt(p) = EntriesHere[StopsAt] /\ Stop(EntryAt(p))
      /\ \A q \in Slots : Before(q, p) => ~Stop(EntryAt(q))
  BY StopSlot
<1> HIDE DEF p
<1>2. EntryAt(p).name # "END" /\ Matches(EntryAt(p))
  BY <1>1 DEF Stop
<1>3. ASSUME NEW q \in Slots, EntryAt(q).name = "END" PROVE Before(p, q)
  <2>1. p # q /\ ~Before(q, p)
    BY <1>1, <1>2, <1>3 DEF Stop
  <2> QED
    BY <1>1, <2>1, BeforeTotal
<1>4. p \in Entries(name)
  BY <1>1, <1>2, <1>3 DEF Entries, Live, Matches
<1>5. ASSUME NEW q \in Entries(name) PROVE ~Before(q, p)
  <2>1. q \in Slots /\ Stop(EntryAt(q))
    BY DEF Entries, Live, Stop, Matches
  <2> QED
    BY <1>1, <2>1
<1> QED
  BY <1>1, <1>4, <1>5

(* It stopped at the end mark: there is no entry of the name.              *)
LEMMA StopIsEnd ==
  ASSUME NEW i, ScanAt(i), StopsAt # 0, EntriesHere[StopsAt].name = "END"
  PROVE  Entries(name) = {}
<1> DEFINE p == <<i, sector, StopsAt>>
<1>1. /\ p \in Slots /\ EntryAt(p) = EntriesHere[StopsAt]
      /\ \A q \in Slots : Before(q, p) => ~Stop(EntryAt(q))
  BY StopSlot
<1> HIDE DEF p
<1> SUFFICES ASSUME NEW q \in Entries(name) PROVE FALSE
  OBVIOUS
<1>2. q \in Slots /\ Before(q, p) /\ Stop(EntryAt(q))
  BY <1>1 DEF Entries, Live, Stop, Matches
<1> QED
  BY <1>1, <1>2

(* It did not stop: the sector is passed.                                  *)
LEMMA SectorPassed ==
  ASSUME NEW i, ScanAt(i), StopsAt = 0
  PROVE  Passed(i, sector + 1)
<1> SUFFICES ASSUME NEW q \in Slots, q[1] < i \/ (q[1] = i /\ q[2] < sector + 1)
             PROVE  ~Stop(EntryAt(q))
  BY DEF Passed
<1>1. CASE q[1] < i \/ (q[1] = i /\ q[2] < sector)
  BY <1>1 DEF ScanAt, Passed
<1>2. CASE q[1] = i /\ q[2] = sector
  <2>1. \A k \in 1 .. Len(EntriesHere) : ~Stop(EntriesHere[k])
    BY StopsAtFirst DEF ScanAt
  <2> QED
    BY <1>2, <2>1, SlotHere
<1>3. q[2] \in Int /\ sector \in Int
  BY SlotIs, ConstantsAssumption DEF ScanAt
<1> QED
  BY <1>1, <1>2, <1>3

(* The next sector of the scan; without a disk error, there is none only   *)
(* when the directory has no entry of the name.                            *)
LEMMA ScanGoesOn ==
  ASSUME NEW i, ScanAt(i), StopsAt = 0, NEW f \in {0, 1}
  PROVE  LET next == Advance(f)
         IN  /\ next.cluster \in Nat
             /\ next.cluster < EOC =>
                  /\ next.sector \in 0 .. SPC - 1
                  /\ \E j \in 0 .. RESERVED :
                       next.cluster = Nth(ROOT)[j] /\ Passed(j, next.sector)
             /\ next.cluster >= EOC /\ (next.sector = 0 => f # 1) => Entries(name) = {}
<1>1. /\ i \in 0 .. RESERVED /\ i \in Nat /\ cluster = Nth(ROOT)[i] /\ cluster \in DOMAIN Fat
      /\ sector \in 0 .. SPC - 1 /\ SPC \in Nat /\ ROOT \in DOMAIN Fat /\ EOC \in Nat
  BY ConstantsAssumption, FatAssumption DEF ScanAt
<1>2. cluster \in Nat /\ cluster < EOC
  BY <1>1, ClusterInUse
<1>3. Passed(i, sector + 1)
  BY SectorPassed
<1>4. CASE sector + 1 < SPC
  <2>1. Advance(f) = [cluster |-> cluster, sector |-> sector + 1]
    BY <1>4 DEF Advance
  <2> QED
    BY <1>1, <1>2, <1>3, <1>4, <2>1
<1>5. CASE ~ (sector + 1 < SPC)
  <2> DEFINE c == fat32_get_next_cluster(cluster, f)
  <2>1. Advance(f) = [cluster |-> c, sector |-> 0]
    BY <1>5 DEF Advance
  <2>2. /\ c \in Nat
        /\ c < EOC => c = Nth(ROOT)[i + 1]
        /\ c >= EOC /\ f # 1 => Nth(ROOT)[i + 1] >= EOC
    BY <1>1, NextCluster, Zenon
  <2> HIDE DEF c
  <2>3. ASSUME NEW q \in Slots, q[1] < i + 1 PROVE ~Stop(EntryAt(q))
    <3>1. q[1] \in Int /\ q[2] \in Int /\ q[2] < sector + 1
      BY <1>1, <1>5, SlotIs, ConstantsAssumption, SMTT(30)
    <3>2. q[1] < i \/ (q[1] = i /\ q[2] < sector + 1)
      BY <1>1, <2>3, <3>1
    <3> QED
      BY <1>3, <3>2 DEF Passed
  <2>4. ASSUME c < EOC
        PROVE  i + 1 \in 0 .. RESERVED /\ Passed(i + 1, 0)
    <3>1. PICK n \in 0 .. RESERVED : Nth(ROOT)[n] >= EOC
      BY FatAssumption
    <3>2. n \in Nat /\ i + 1 \in Nat
      BY <1>1, <3>1, ConstantsAssumption
    <3>3. ~ (Nth(ROOT)[i + 1] >= EOC)
      BY <1>1, <2>2, <2>4
    <3>4. ~ (i + 1 >= n)
      BY <1>1, <3>1, <3>2, <3>3, ChainEnds
    <3>5. i + 1 \in 0 .. RESERVED
      BY <3>1, <3>2, <3>4, ConstantsAssumption
    <3>6. ASSUME NEW q \in Slots, q[1] < i + 1 \/ (q[1] = i + 1 /\ q[2] < 0)
          PROVE  ~Stop(EntryAt(q))
      <4>1. ~ (q[2] < 0)
        BY SlotIs, ConstantsAssumption, SMTT(30)
      <4> QED
        BY <2>3, <3>6, <4>1
    <3> QED
      BY <3>5, <3>6 DEF Passed
  <2>5. ASSUME c >= EOC, f # 1 PROVE Entries(name) = {}
    <3> SUFFICES ASSUME NEW q \in Entries(name) PROVE FALSE
      OBVIOUS
    <3>1. q \in Slots /\ Stop(EntryAt(q))
      BY DEF Entries, Live, Stop, Matches
    <3>2. q[1] \in Nat /\ Nth(ROOT)[q[1]] < EOC
      BY <3>1, SlotIs, ConstantsAssumption
    <3>3. InChain(Nth(ROOT)[q[1]])
      BY <1>1, <3>2, ChainStays
    <3>4. ~ (Nth(ROOT)[q[1]] >= EOC)
      BY <1>1, <3>2, <3>3, ClusterInUse DEF InChain
    <3>5. Nth(ROOT)[i + 1] >= EOC /\ i + 1 \in Nat
      BY <1>1, <2>2, <2>5
    <3>6. ~ (q[1] >= i + 1)
      BY <1>1, <3>2, <3>4, <3>5, ChainEnds
    <3>7. q[1] < i + 1
      BY <3>2, <3>5, <3>6
    <3> QED
      BY <2>3, <3>1, <3>7
  <2>6. 0 \in 0 .. SPC - 1
    BY <1>1, SMTT(30)
  <2> QED
    BY <2>1, <2>2, <2>4, <2>5, <2>6
<1> QED
  BY <1>4, <1>5

(* How a step of fat32_open can end.                                       *)
NotFound ==
  /\ call' = "idle" /\ ret' = [op |-> "open", value |-> -1] /\ UNCHANGED fileVars
  /\ clean' = 1 => Entries(name) = {}
Found(p) ==
  /\ call' = "idle" /\ ret' = [op |-> "open", value |-> 0]
  /\ \A q \in Entries(name) : ~Before(q, p)
  /\ file' = [first_cluster |-> EntryAt(p).first, current_cluster |-> EntryAt(p).first,
              size |-> EntryAt(p).size, position |-> 0, valid |-> 1]
  /\ current_file' = "file" /\ out' = <<>> /\ sound' = 1
GoesOn == call' = "open" /\ ScanInv' /\ UNCHANGED fileVars /\ UNCHANGED ret

LEMMA OpenOutcome ==
  ASSUME OrderInv, OpenSector
  PROVE  /\ UNCHANGED <<initialized, todo, listed, name, size, max>> /\ clean' \in {0, 1}
         /\ NotFound \/ (\E p \in Entries(name) : Found(p)) \/ GoesOn
<1>1. PICK i : ScanAt(i)
  BY ScanPosition DEF OpenSector, OrderInv
<1>2. UNCHANGED <<initialized, todo, listed, name, size, max>>
  BY SMTT(30) DEF OpenSector, args
<1>0. clean \in {0, 1} /\ name \in Names
  BY DEF OrderInv, TypeInv, ScanInv, OpenSector
<1> DEFINE Fails1(failed) ==
             /\ failed = 1 \/ (StopsAt # 0 /\ EntriesHere[StopsAt].name = "END")
             /\ Return("open", -1) /\ NoteFault(failed) /\ UNCHANGED fileVars
           Finds(failed) ==
             /\ failed = 0 /\ StopsAt # 0 /\ EntriesHere[StopsAt].name # "END"
             /\ Return("open", 0)
             /\ file' = [first_cluster |-> EntriesHere[StopsAt].first,
                         current_cluster |-> EntriesHere[StopsAt].first,
                         size |-> EntriesHere[StopsAt].size, position |-> 0, valid |-> 1]
             /\ current_file' = "file" /\ out' = <<>> /\ sound' = 1
             /\ UNCHANGED clean
           Passes(failed, f) ==
             /\ failed = 0 /\ StopsAt = 0
             /\ IF Advance(f).cluster < EOC THEN Continue(Advance(f)) ELSE Return("open", -1)
             /\ NoteFault(IF Advance(f).sector = 0 THEN f ELSE 0)
             /\ UNCHANGED fileVars
<1>3. PICK failed \in Fails, f \in Fails : Fails1(failed) \/ Finds(failed) \/ Passes(failed, f)
  BY Zenon DEF OpenSector
<1>4. failed \in {0, 1} /\ f \in {0, 1}
  BY <1>3 DEF Fails
<1>5. CASE Fails1(failed)
  <2>1. call' = "idle" /\ ret' = [op |-> "open", value |-> -1] /\ UNCHANGED fileVars
    BY <1>5 DEF Return
  <2>2. clean' = IF failed = 1 THEN 0 ELSE clean
    BY <1>5 DEF NoteFault
  <2>3. ASSUME clean' = 1 PROVE Entries(name) = {}
    <3>1. StopsAt # 0 /\ EntriesHere[StopsAt].name = "END"
      BY <1>5, <2>2, <2>3, SMTT(30)
    <3> QED
      BY <1>1, <3>1, StopIsEnd
  <2> QED
    BY <1>0, <1>2, <2>1, <2>2, <2>3 DEF NotFound
<1>6. CASE Finds(failed)
  <2>1. PICK p \in Entries(name) : /\ EntryAt(p) = EntriesHere[StopsAt]
                                   /\ \A q \in Entries(name) : ~Before(q, p)
    BY <1>1, <1>6, StopIsFirst, SMTT(30)
  <2>2. Found(p)
    BY <1>6, <2>1 DEF Found, Return
  <2> QED
    BY <1>0, <1>2, <1>6, <2>1, <2>2, SMTT(30)
<1>7. CASE Passes(failed, f)
  <2> DEFINE next == Advance(f)
  <2>1. /\ next.cluster \in Nat
        /\ next.cluster < EOC =>
             /\ next.sector \in 0 .. SPC - 1
             /\ \E j \in 0 .. RESERVED :
                  next.cluster = Nth(ROOT)[j] /\ Passed(j, next.sector)
        /\ next.cluster >= EOC /\ (next.sector = 0 => f # 1) => Entries(name) = {}
    BY <1>1, <1>4, <1>7, ScanGoesOn, Zenon
  <2>2. /\ StopsAt = 0 /\ UNCHANGED fileVars
        /\ clean' = IF (IF next.sector = 0 THEN f ELSE 0) = 1 THEN 0 ELSE clean
        /\ next.cluster < EOC => Continue(next)
        /\ ~ (next.cluster < EOC) => Return("open", -1)
    BY <1>7 DEF NoteFault
  <2> HIDE DEF next
  <2>3. clean' \in {0, 1} /\ (clean' = 1 /\ next.sector = 0 => f # 1)
    BY <1>0, <2>2, SMTT(30)
  <2>4. CASE next.cluster < EOC
    <3>1. /\ call' = "open" /\ UNCHANGED ret /\ cluster' = next.cluster /\ sector' = next.sector
      BY <2>2, <2>4 DEF Continue, OpenSector
    <3>2. PICK j \in 0 .. RESERVED : next.cluster = Nth(ROOT)[j] /\ Passed(j, next.sector)
      BY <2>1, <2>4, SMTT(30)
    <3>3. Passed(j, sector)'
      BY <1>2, <3>1, <3>2, SMTT(30) DEF Passed, Stop, Matches
    <3>4. ScanInv'
      BY <1>0, <1>2, <2>1, <2>4, <3>1, <3>2, <3>3, SMTT(30) DEF ScanInv
    <3> QED
      BY <1>2, <2>2, <2>3, <3>1, <3>4, SMTT(30) DEF GoesOn
  <2>5. CASE ~ (next.cluster < EOC)
    <3>1. next.cluster >= EOC
      BY <2>1, <2>5, ConstantsAssumption
    <3>2. call' = "idle" /\ ret' = [op |-> "open", value |-> -1]
      BY <2>2, <2>5 DEF Return
    <3>3. NotFound
      BY <2>1, <2>2, <2>3, <3>1, <3>2 DEF NotFound
    <3> QED
      BY <1>2, <2>3, <3>3
  <2> QED
    BY <2>4, <2>5
<1> QED
  BY <1>3, <1>5, <1>6, <1>7, SMTT(30)

LEMMA Order_OpenSector == ASSUME OrderInv, OpenSector PROVE OrderInv'
<1>1. /\ UNCHANGED <<initialized, todo>> /\ clean' \in {0, 1}
      /\ NotFound \/ (\E p \in Entries(name) : Found(p)) \/ GoesOn
  BY OpenOutcome
<1>2. CASE NotFound \/ GoesOn
  <2>1. UNCHANGED <<file, current_file, out, sound>> /\ call' \in {"idle", "open"}
    BY <1>2 DEF NotFound, GoesOn, fileVars
  <2>2. TypeInv'
    BY <1>1, <2>1 DEF OrderInv, TypeInv
  <2>3. ScanInv'
    BY <1>2 DEF NotFound, GoesOn, ScanInv
  <2> QED
    BY <2>1, <2>2, <2>3, FileKept DEF OrderInv
<1>3. ASSUME NEW p \in Entries(name), Found(p) PROVE OrderInv'
  <2>1. p \in Live /\ EntryAt(p) \in DirEntry
    BY SlotIs DEF Entries, Live
  <2>2. EntryAt(p).first \in Nat /\ EntryAt(p).size \in 0 .. WORD - 1
    BY <2>1 DEF DirEntry
  <2>3. /\ file'.first_cluster = EntryAt(p).first /\ file'.current_cluster = EntryAt(p).first
        /\ file'.size = EntryAt(p).size /\ file'.position = 0 /\ file'.valid = 1
        /\ call' = "idle" /\ current_file' = "file" /\ out' = <<>> /\ sound' = 1
    BY <1>3, SMTT(30) DEF Found
  <2>4. file' \in File
    BY <1>3, <2>2, SMTT(30) DEF Found, File
  <2>5. TypeInv'
    BY <1>1, <2>3, <2>4, SMTT(30) DEF OrderInv, TypeInv
  <2>6. ScanInv'
    BY <2>3, SMTT(30) DEF ScanInv
  <2>7. FileInv'
    BY <2>1, <2>3, DirAssumption DEF FileInv, HasChain
  <2>8. ClusterInv'
    <3>1. 0 \div CLUSTER_SIZE = 0
      BY ClusterSize
    <3> QED
      BY <2>3, <3>1, NthIs DEF ClusterInv
  <2>9. ReadsInOrder'
    BY <2>3 DEF ReadsInOrder
  <2> QED
    BY <2>5, <2>6, <2>7, <2>8, <2>9 DEF OrderInv
<1> QED
  BY <1>1, <1>2, <1>3
-----------------------------------------------------------------------------
(* How a step of fat32_read can end: it returns, or it copies n bytes.     *)
Stops ==
  /\ call' = "idle" /\ ret' = [op |-> "read", value |-> ret.value]
  /\ todo' = 0 /\ UNCHANGED <<file, out>>
  /\ sound' = 1 => sound = 1 /\ (todo = 0 \/ file.current_cluster >= EOC)
Here ==
  fat32_cluster_to_sector(file.current_cluster) + (file.position % CLUSTER_SIZE) \div SECTOR_SIZE
InSector == (file.position % CLUSTER_SIZE) % SECTOR_SIZE
Copies(n, f) ==
  /\ todo > 0 /\ file.current_cluster < EOC
  /\ n \in Nat \ {0} /\ n <= todo /\ InSector + n <= SECTOR_SIZE
  /\ (file.position % CLUSTER_SIZE) + n <= CLUSTER_SIZE
  /\ call' = "read" /\ ret' = [op |-> "read", value |-> ret.value + n] /\ todo' = todo - n
  /\ out' = out \o [k \in 1 .. n |-> <<Here, InSector + k - 1>>]
  /\ file' = [file EXCEPT !.position = file.position + n,
                !.current_cluster = IF LeavesCluster(file.position + n)
                                    THEN fat32_get_next_cluster(@, f) ELSE @]
  /\ sound' = 1 => sound = 1 /\ (LeavesCluster(file.position + n) => f # 1)

LEMMA ReadOutcome ==
  ASSUME OrderInv, ReadSector
  PROVE  /\ UNCHANGED <<initialized, current_file, listed, clean, name, size, max>>
         /\ sound' \in {0, 1}
         /\ Stops \/ \E n \in Nat, f \in {0, 1} : Copies(n, f)
<1>1. UNCHANGED <<initialized, current_file, listed, clean, name, size, max>>
  BY SMTT(30) DEF ReadSector, args
<1>2. /\ sound \in {0, 1} /\ todo \in Nat /\ file \in File /\ ret \in [op : {"read"}, value : Nat]
      /\ call = "read"
  BY DEF OrderInv, TypeInv, ReadSector
<1> DEFINE r == file.position % CLUSTER_SIZE
           n == Min({SECTOR_SIZE - InSector, CLUSTER_SIZE - r, todo})
           Ends(failed) ==
             /\ todo = 0 \/ file.current_cluster >= EOC \/ failed = 1
             /\ Return("read", ret.value)
             /\ sound' = IF failed = 1 THEN 0 ELSE sound
             /\ todo' = 0 /\ UNCHANGED <<file, out>>
           Reads(failed, f) ==
             /\ todo > 0 /\ file.current_cluster < EOC /\ failed = 0
             /\ out' = out \o [k \in 1 .. n |-> <<Here, InSector + k - 1>>]
             /\ ret' = [ret EXCEPT !.value = @ + n] /\ UNCHANGED <<call, cluster, sector>>
             /\ todo' = todo - n
             /\ file' = [file EXCEPT !.position = file.position + n,
                           !.current_cluster = IF LeavesCluster(file.position + n)
                                               THEN fat32_get_next_cluster(@, f) ELSE @]
             /\ sound' = IF f = 1 /\ LeavesCluster(file.position + n) THEN 0 ELSE sound
<1>3. PICK failed \in Fails, f \in Fails : Ends(failed) \/ Reads(failed, f)
  BY Zenon DEF ReadSector, Here, InSector
<1>4. failed \in {0, 1} /\ f \in {0, 1}
  BY <1>3 DEF Fails
<1>5. CASE Ends(failed)
  <2>1. Stops /\ sound' \in {0, 1}
    BY <1>2, <1>4, <1>5 DEF Stops, Return
  <2> QED
    BY <1>1, <2>1, SMTT(30)
<1>6. CASE Reads(failed, f)
  <2>1. r \in 0 .. CLUSTER_SIZE - 1
    BY <1>2, ClusterSize, QuotientRemainder DEF File
  <2>2. InSector \in 0 .. SECTOR_SIZE - 1
    <3>1. r \in Nat
      BY <2>1, ClusterSize
    <3> HIDE DEF r
    <3>2. r % SECTOR_SIZE \in 0 .. SECTOR_SIZE - 1
      BY <3>1, SectorSize, QuotientRemainder
    <3> QED
      BY <3>2 DEF InSector, r
  <2>3. /\ n \in Nat \ {0} /\ n <= SECTOR_SIZE - InSector
        /\ n <= CLUSTER_SIZE - r /\ n <= todo
    <3> DEFINE x == SECTOR_SIZE - InSector
               y == CLUSTER_SIZE - r
    <3>1. x \in Nat \ {0} /\ y \in Nat \ {0} /\ todo \in Nat \ {0}
      BY <1>2, <1>6, <2>1, <2>2, ClusterSize, SectorSize, SMTT(30)
    <3> HIDE DEF x, y, r
    <3>2. \E m \in {x, y, todo} : \A k \in {x, y, todo} : m <= k
      BY <3>1
    <3>3. /\ Min({x, y, todo}) \in {x, y, todo}
          /\ \A k \in {x, y, todo} : Min({x, y, todo}) <= k
      BY <3>2 DEF Min
    <3> QED
      BY <3>1, <3>3 DEF x, y
  <2> HIDE DEF n
  <2>4. call' = "read" /\ ret' = [op |-> "read", value |-> ret.value + n]
    BY <1>2, <1>6
  <2>5. InSector + n <= SECTOR_SIZE /\ r + n <= CLUSTER_SIZE
    BY <2>1, <2>2, <2>3, ClusterSize, SectorSize
  <2>6. sound' \in {0, 1} /\ (sound' = 1 => sound = 1 /\ (LeavesCluster(file.position + n) => f # 1))
    BY <1>2, <1>6
  <2>7. Copies(n, f)
    BY <1>6, <2>3, <2>4, <2>5, <2>6, Zenon DEF Copies
  <2> QED
    BY <1>1, <1>4, <2>3, <2>6, <2>7
<1> QED
  BY <1>3, <1>5, <1>6, Zenon

(* A copy is from the cluster that position is in, and leaves the file at  *)
(* the cluster that the new position is in, or at the end of the chain.    *)
LEMMA CopyCluster ==
  ASSUME OrderInv, NEW n \in Nat, NEW f \in {0, 1}, Copies(n, f), call = "read"
  PROVE  LET chain == Nth(file.first_cluster)
             q == file.position \div CLUSTER_SIZE
         IN  /\ file.size > 0 /\ file.first_cluster \in DOMAIN Fat
             /\ file.current_cluster = chain[q] /\ file.current_cluster \in DOMAIN Fat
             /\ file' \in File /\ file'.first_cluster = file.first_cluster
             /\ file'.size = file.size /\ file'.position = file.position + n
             /\ file'.valid = file.valid
             /\ LET next == chain[file'.position \div CLUSTER_SIZE]
                IN  /\ file'.current_cluster < EOC => file'.current_cluster = next
                    /\ file'.current_cluster >= EOC /\ sound' = 1 => next >= EOC
<1> DEFINE p == file.position
           q == p \div CLUSTER_SIZE
           c == file.current_cluster
           a == file.first_cluster
           c1 == IF LeavesCluster(p + n) THEN fat32_get_next_cluster(c, f) ELSE c
<1>1. file \in File /\ file.valid = 1 /\ todo \in Nat
  BY DEF OrderInv, TypeInv
<1>2. p \in Nat /\ n \in Nat \ {0} /\ (p % CLUSTER_SIZE) + n <= CLUSTER_SIZE /\ c \in Nat /\ a \in Nat
      /\ c < EOC
  BY <1>1 DEF File, Copies
<1>3. file.size > 0 /\ a \in DOMAIN Fat
  <2>1. file.size # 0
    BY <1>1 DEF OrderInv, FileInv, Copies
  <2>2. file.size > 0
    BY <1>1, <2>1 DEF File
  <2> QED
    BY <1>1, <2>2 DEF OrderInv, FileInv, HasChain
<1>4. q \in Nat
  BY <1>2, ClusterSize, QuotientRemainder, Zenon
<1>5. c = Nth(a)[q]
  BY <1>1, <1>2, <1>3 DEF OrderInv, ClusterInv
<1>6. InChain(c)
  BY <1>3, <1>4, <1>5, ChainStays
<1>7. c \in DOMAIN Fat
  BY <1>2, <1>6, ConstantsAssumption DEF InChain
<1>8. (p + n) \div CLUSTER_SIZE = IF LeavesCluster(p + n) THEN q + 1 ELSE q
  BY <1>2, SameCluster
<1>9. LET next == fat32_get_next_cluster(c, f)
      IN  /\ next \in Nat
          /\ next < EOC => next = Nth(a)[q + 1] /\ next \in DOMAIN Fat
          /\ next >= EOC /\ f # 1 => Nth(a)[q + 1] >= EOC
  BY <1>3, <1>4, <1>5, <1>7, NextCluster, Zenon
<1>10. /\ file' = [file EXCEPT !.position = p + n, !.current_cluster = c1]
       /\ sound' = 1 => (LeavesCluster(p + n) => f # 1)
  BY DEF Copies
<1>11. c1 \in Nat /\ p + n \in Nat
  BY <1>2, <1>9, SMTT(30)
<1> DEFINE next == Nth(a)[(p + n) \div CLUSTER_SIZE]
<1>12. /\ c1 < EOC => c1 = next
       /\ c1 >= EOC /\ (LeavesCluster(p + n) => f # 1) => next >= EOC
  <2>1. CASE LeavesCluster(p + n)
    BY <1>8, <1>9, <2>1, SMTT(30)
  <2>2. CASE ~LeavesCluster(p + n)
    BY <1>2, <1>5, <1>8, <2>2, ConstantsAssumption
  <2> QED
    BY <2>1, <2>2, SMTT(30)
<1> HIDE DEF c1
<1>13. /\ file' \in File /\ file'.first_cluster = a /\ file'.size = file.size
       /\ file'.position = p + n /\ file'.valid = file.valid /\ file'.current_cluster = c1
  BY <1>1, <1>10, <1>11, Zenon DEF File
<1> QED
  BY <1>3, <1>5, <1>7, <1>10, <1>12, <1>13

LEMMA Concatenation ==
  ASSUME NEW S, NEW s \in Seq(S), NEW t \in Seq(S)
  PROVE  /\ s \o t \in Seq(S) /\ Len(s \o t) = Len(s) + Len(t)
         /\ \A k \in 1 .. Len(s) : (s \o t)[k] = s[k]
         /\ \A k \in Len(s) + 1 .. Len(s) + Len(t) : (s \o t)[k] = t[k - Len(s)]
  OBVIOUS

LEMMA CopyInOrder ==
  ASSUME OrderInv, NEW n \in Nat, NEW f \in {0, 1}, Copies(n, f), call = "read"
  PROVE  ReadsInOrder' /\ out' \in Seq(Int \X Int)
<1> DEFINE p == file.position
           new == [k \in 1 .. n |-> <<Here, InSector + k - 1>>]
<1>1. /\ file.valid = 1 /\ file \in File /\ p \in Nat /\ out \in Seq(Int \X Int) /\ Len(out) = p
      /\ \A k \in 1 .. Len(out) : out[k] = FileByte(k - 1)
  BY DEF OrderInv, TypeInv, ReadsInOrder, File
<1>2. /\ file.current_cluster = Nth(file.first_cluster)[p \div CLUSTER_SIZE]
      /\ file.current_cluster \in DOMAIN Fat
      /\ file'.first_cluster = file.first_cluster /\ file'.position = p + n
  BY CopyCluster
<1>3. Here = DATA_START + (file.current_cluster - 2) * SPC
               + (p % CLUSTER_SIZE) \div SECTOR_SIZE
  BY <1>2, ClusterInUse DEF Here, fat32_cluster_to_sector
<1>0. /\ p % CLUSTER_SIZE \in Nat /\ (p % CLUSTER_SIZE) + n <= CLUSTER_SIZE
      /\ InSector + n <= SECTOR_SIZE
  <2>1. p % CLUSTER_SIZE \in Nat
    BY <1>1, ClusterSize, QuotientRemainder
  <2> QED
    BY <2>1, Zenon DEF Copies
<1>4. Here \in Int /\ InSector \in Nat
  <2>1. p % CLUSTER_SIZE \in Nat
    BY <1>1, ClusterSize, QuotientRemainder
  <2>2. /\ (p % CLUSTER_SIZE) \div SECTOR_SIZE \in Nat
        /\ (p % CLUSTER_SIZE) % SECTOR_SIZE \in Nat
    BY <2>1, SectorSize, QuotientRemainder
  <2>3. (file.current_cluster - 2) * SPC \in Int /\ DATA_START \in Int
    BY <1>2, ClusterInUse, ConstantsAssumption
  <2> QED
    BY <1>3, <2>2, <2>3 DEF InSector
<1>5. new \in Seq(Int \X Int) /\ Len(new) = n
  BY <1>4
<1>6. out' = out \o new
  BY DEF Copies
<1> HIDE DEF new
<1>7. /\ out' \in Seq(Int \X Int) /\ Len(out') = p + n
      /\ \A k \in 1 .. p : out'[k] = out[k]
      /\ \A k \in p + 1 .. p + n : out'[k] = new[k - p]
  <2> DEFINE S == Int \X Int
  <2>1. out \in Seq(S) /\ new \in Seq(S)
    BY <1>1, <1>5
  <2> HIDE DEF S
  <2>2. /\ out \o new \in Seq(S) /\ Len(out \o new) = Len(out) + Len(new)
        /\ \A k \in 1 .. Len(out) : (out \o new)[k] = out[k]
        /\ \A k \in Len(out) + 1 .. Len(out) + Len(new) : (out \o new)[k] = new[k - Len(out)]
    BY <2>1, Concatenation, Zenon
  <2>3. Len(out) = p /\ Len(new) = n /\ out' = out \o new
    BY <1>1, <1>5, <1>6, SMTT(30)
  <2> QED
    BY <2>2, <2>3, Zenon DEF S
<1>8. ASSUME NEW k \in 1 .. p PROVE out'[k] = FileByte(k - 1)'
  BY <1>1, <1>2, <1>7, Zenon DEF FileByte
<1>9. ASSUME NEW k \in p + 1 .. p + n PROVE out'[k] = FileByte(k - 1)'
  <2> DEFINE j == k - 1 - p
  <2>1. j \in 0 .. n - 1 /\ k - p \in 1 .. n /\ j \in Nat /\ k - p - 1 = j /\ k - 1 = p + j
    BY <1>1, SMTT(30)
  <2>2. out'[k] = <<Here, InSector + j>>
    BY <1>1, <1>7, <2>1, <1>4, Zenon DEF new
  <2>3. InSector + j < SECTOR_SIZE /\ (p % CLUSTER_SIZE) + j < CLUSTER_SIZE
    <3> DEFINE r == p % CLUSTER_SIZE
    <3>1. r \in Nat /\ r + n <= CLUSTER_SIZE
      BY <1>0
    <3> HIDE DEF r
    <3>2. InSector + j < SECTOR_SIZE /\ r + j < CLUSTER_SIZE
      BY <1>0, <1>4, <2>1, <3>1, ClusterSize, SectorSize, SMTT(30)
    <3> QED
      BY <3>2 DEF r
  <2> HIDE DEF j
  <2>4. /\ (p + j) \div CLUSTER_SIZE = p \div CLUSTER_SIZE
        /\ ((p + j) % CLUSTER_SIZE) \div SECTOR_SIZE = (p % CLUSTER_SIZE) \div SECTOR_SIZE
        /\ (p + j) % SECTOR_SIZE = InSector + j
    BY <1>1, <2>1, <2>3, SameSector, SMTT(30) DEF InSector
  <2>5. FileByte(k - 1)' = <<Here, InSector + j>>
    BY <1>2, <1>3, <2>1, <2>4, Zenon DEF FileByte
  <2> QED
    BY <2>2, <2>5
<1>10. ReadsInOrder'
  BY <1>1, <1>2, <1>7, <1>8, <1>9, SMTT(30) DEF ReadsInOrder
<1> QED
  BY <1>7, <1>10

LEMMA Order_ReadSector == ASSUME OrderInv, ReadSector PROVE OrderInv'
<1>1. /\ UNCHANGED <<initialized, current_file, clean>> /\ sound' \in {0, 1}
      /\ Stops \/ \E n \in Nat, f \in {0, 1} : Copies(n, f)
  BY ReadOutcome
<1>2. CASE Stops
  <2>1. UNCHANGED <<file, out>> /\ call' = "idle" /\ todo' = 0
    BY <1>2, SMTT(30) DEF Stops
  <2>2. TypeInv'
    BY <1>1, <2>1 DEF OrderInv, TypeInv
  <2>3. ScanInv'
    BY <2>1 DEF ScanInv
  <2> QED
    BY <2>1, <2>2, <2>3, FileKept DEF OrderInv
<1>3. ASSUME NEW n \in Nat, NEW f \in {0, 1}, Copies(n, f) PROVE OrderInv'
  <2>0. call = "read"
    BY SMTT(30) DEF ReadSector
  <2>1. /\ file.size > 0 /\ file' \in File /\ file'.first_cluster = file.first_cluster
        /\ file'.size = file.size /\ file'.valid = file.valid
        /\ file'.current_cluster < EOC =>
             file'.current_cluster = Nth(file.first_cluster)[file'.position \div CLUSTER_SIZE]
    BY <1>3, <2>0, CopyCluster
  <2>2. ReadsInOrder' /\ out' \in Seq(Int \X Int)
    BY <1>3, <2>0, CopyInOrder
  <2>3. /\ call' = "read" /\ todo' \in Nat /\ ret' \in [op : {"read"}, value : Nat]
        /\ file.valid = 1 /\ file.size \in Nat
    BY <1>3, <2>0, SMTT(30) DEF OrderInv, TypeInv, File, Copies
  <2>4. TypeInv'
    BY <1>1, <2>1, <2>2, <2>3, SMTT(30) DEF OrderInv, TypeInv
  <2>5. ScanInv'
    BY <2>3, SMTT(30) DEF ScanInv
  <2>6. FileInv'
    BY <2>1, <2>3, SMTT(30) DEF OrderInv, FileInv, HasChain
  <2>7. ClusterInv'
    BY <2>1 DEF ClusterInv
  <2> QED
    BY <2>2, <2>4, <2>5, <2>6, <2>7, SMTT(30) DEF OrderInv
<1> QED
  BY <1>1, <1>2, <1>3

LEMMA OrderStutter == ASSUME OrderInv, UNCHANGED vars PROVE OrderInv'
<1>1. UNCHANGED <<initialized, file, current_file, call, cluster, sector, name, todo, ret,
                  clean, sound, out>>
  BY SMTT(30) DEF vars
<1>2. TypeInv'
  BY <1>1, SMTT(30) DEF OrderInv, TypeInv
<1>3. ScanInv'
  BY <1>1, SMTT(30) DEF OrderInv, ScanInv, Passed, Stop, Matches
<1>4. FileInv'
  BY <1>1, SMTT(30) DEF OrderInv, FileInv, HasChain
<1>5. ClusterInv' /\ ReadsInOrder'
  BY <1>1 DEF OrderInv, ClusterInv, ReadsInOrder, FileByte
<1> QED
  BY <1>2, <1>3, <1>4, <1>5, SMTT(30) DEF OrderInv

LEMMA OrderStep == ASSUME OrderInv, [Next]_vars PROVE OrderInv'
  BY Order_fat32_init, Order_FileOpen, Order_FileRead, Order_FileClose, Order_ListDir,
     Order_OpenSector, Order_ReadSector, Order_ListSector, OrderStutter, Zenon
  DEF Next, Step

LEMMA OrderAlways == Spec => []OrderInv
<1>1. OrderInv /\ [Next]_vars => OrderInv'
  BY OrderStep
<1> QED
  BY InitOrder, <1>1, PTL DEF Spec

(* Whatever sizes a program reads and whichever disk accesses fail, what   *)
(* fat32_read has delivered since the open is the file's chain from its    *)
(* first byte on, each byte once: for any sector and cluster size, any FAT *)
(* whose chains stay among the clusters in use, and requests that wrap     *)
(* included.                                                               *)
THEOREM Fat32ReadsInOrder == Spec => []ReadsInOrder
<1>1. OrderInv => ReadsInOrder
  BY DEF OrderInv
<1> QED
  BY OrderAlways, <1>1, PTL
-----------------------------------------------------------------------------
LEMMA OpenStep == ASSUME OrderInv, OpenFindsFirst, [Next]_vars PROVE OpenFindsFirst'
<1> SUFFICES ASSUME (call = "idle" /\ ret.op = "open" /\ clean = 1 /\ initialized = 1)'
             PROVE  OpenFindsFirst'
  BY DEF OpenFindsFirst
<1>1. CASE fat32_init
  BY <1>1 DEF fat32_init, Return, ListRoot
<1>2. CASE FileOpen
  BY <1>2 DEF FileOpen, Return
<1>3. CASE FileRead
  BY <1>3 DEF FileRead, Return
<1>4. CASE FileClose
  BY <1>4 DEF FileClose, Return
<1>5. CASE ListDir
  BY <1>5 DEF ListDir, Return
<1>6. CASE OpenSector
  <2>1. UNCHANGED name /\ (NotFound \/ (\E p \in Entries(name) : Found(p)))
    BY <1>6, OpenOutcome, SMTT(30) DEF GoesOn
  <2>2. CASE NotFound
    BY <2>1, <2>2 DEF NotFound, OpenFindsFirst
  <2>3. ASSUME NEW p \in Entries(name), Found(p) PROVE OpenFindsFirst'
    <3>1. Entries(name)' = Entries(name)
      BY <2>1, SMTT(30) DEF Entries
    <3>2. /\ ret'.value = 0 /\ file'.first_cluster = EntryAt(p).first
          /\ file'.size = EntryAt(p).size /\ \A q \in Entries(name) : ~Before(q, p)
      BY <2>3 DEF Found
    <3> QED
      BY <3>1, <3>2, Zenon DEF OpenFindsFirst
  <2> QED
    BY <2>1, <2>2, <2>3
<1>7. CASE ReadSector
  <2>1. ret'.op = "read"
    BY <1>7, ReadOutcome, SMTT(30) DEF Stops, Copies
  <2> QED
    BY <2>1
<1>8. CASE ListSector
  <2>1. call = "list" /\ (call' = call \/ \E v : Return("list", v))
    BY <1>8, Zenon DEF ListSector, Continue
  <2> QED
    BY <2>1 DEF Return
<1>9. CASE UNCHANGED vars
  <2>1. UNCHANGED <<call, ret, clean, initialized, name, file>>
    BY <1>9 DEF vars
  <2> QED
    BY <2>1, SMTT(30) DEF OpenFindsFirst, Entries
<1> QED
  BY <1>1, <1>2, <1>3, <1>4, <1>5, <1>6, <1>7, <1>8, <1>9, SMTT(30) DEF Next, Step

(* fat32_open, on any directory: without a disk error it returns the first *)
(* entry of the name before the end mark, or -1 when there is none.        *)
THEOREM Fat32OpenFindsFirst == Spec => []OpenFindsFirst
<1>1. Init => OpenFindsFirst
  BY DEF Init, OpenFindsFirst
<1>2. OrderInv /\ OpenFindsFirst /\ [Next]_vars => OpenFindsFirst'
  BY OpenStep, SMTT(30)
<1> QED
  BY OrderAlways, <1>1, <1>2, PTL DEF Spec
-----------------------------------------------------------------------------
LEMMA InitEof == Init => ProgressInv /\ ShortReadIsEof
  BY SMTT(30) DEF Init, ProgressInv, ShortReadIsEof

(* A step that leaves the open file alone and is not part of a read.       *)
LEMMA EofKept ==
  ASSUME ProgressInv, UNCHANGED <<file, sound>>, call' # "read",
         call' = "idle" => ret'.op # "read",
         call' = "boot" => initialized' = 0,
         current_file' = "file" \/ call' = "open" => initialized' = 1
  PROVE  ProgressInv' /\ ShortReadIsEof'
  BY DEF ProgressInv, ShortReadIsEof

(* A step after which no file is open.                                     *)
LEMMA EofClosed ==
  ASSUME file'.valid = 0, file'.position <= file'.size, current_file' = "NULL", call' \notin {"read", "boot"},
         call' = "open" => initialized' = 1
  PROVE  ProgressInv' /\ ShortReadIsEof'
  BY SMTT(30) DEF ProgressInv, ShortReadIsEof

(* fat32_read cuts a request that does not wrap at the end of the file.    *)
LEMMA ClipCuts ==
  ASSUME file \in File, file.position <= file.size, NEW n \in ReadSizes, file.size + n < WORD
  PROVE  /\ Clip(n) \in Nat /\ file.position + Clip(n) <= file.size
         /\ Clip(n) = n \/ file.position + Clip(n) = file.size
<1>1. /\ n \in Nat /\ file.position \in Nat /\ file.size \in 0 .. WORD - 1
      /\ WORD \in Nat \ {0}
  BY ConstantsAssumption DEF File
<1>2. (file.position + n) % WORD = file.position + n
  BY <1>1
<1>3. (file.size - file.position) % WORD = file.size - file.position
  BY <1>1
<1> QED
  BY <1>1, <1>2, <1>3, SMTT(30) DEF Clip

LEMMA Eof_FileRead ==
  ASSUME OrderInv, ProgressInv, FileRead
  PROVE  ProgressInv' /\ ShortReadIsEof'
<1>1. /\ UNCHANGED <<initialized, file, current_file, sound>> /\ size' \in ReadSizes
      /\ call = "idle"
  BY SMTT(30) DEF FileRead, Arguments, fileVars
<1>2. \/ call' = "idle" /\ current_file = "NULL"
      \/ /\ current_file = "file" /\ call' = "read" /\ todo' = Clip(size')
         /\ ret' = [op |-> "read", value |-> 0]
  BY DEF FileRead, Return, OrderInv, TypeInv, ProgressInv
<1>3. CASE call' = "idle" /\ current_file = "NULL"
  <2>1. file.valid = 0 /\ file.position <= file.size
    BY <1>3, SMTT(30) DEF OrderInv, TypeInv, File, ProgressInv
  <2> QED
    BY <1>1, <1>3, <2>1, EofClosed, SMTT(30)
<1>4. CASE /\ current_file = "file" /\ call' = "read" /\ todo' = Clip(size')
           /\ ret' = [op |-> "read", value |-> 0]
  <2>1. file \in File /\ file.valid = 1 /\ file.position <= file.size /\ file.size + size' < WORD
    BY <1>1, <1>4, SMTT(30) DEF OrderInv, TypeInv, ProgressInv
  <2>2. /\ todo' \in Nat /\ file.position + todo' <= file.size
        /\ todo' = size' \/ file.position + todo' = file.size
    BY <1>1, <1>4, <2>1, ClipCuts, SMTT(30)
  <2>3. ret'.value + todo' = todo'
    BY <1>4, <2>2
  <2> QED
    BY <1>1, <1>4, <2>2, <2>3, SMTT(30) DEF ProgressInv, ShortReadIsEof
<1> QED
  BY <1>2, <1>3, <1>4, SMTT(30)

LEMMA Eof_OpenSector ==
  ASSUME NoWrap, OrderInv, ProgressInv, OpenSector
  PROVE  ProgressInv' /\ ShortReadIsEof'
<1>1. /\ UNCHANGED initialized /\ call = "open"
      /\ NotFound \/ (\E p \in Entries(name) : Found(p)) \/ GoesOn
  BY OpenOutcome, SMTT(30) DEF OpenSector
<1>2. CASE NotFound \/ GoesOn
  <2>1. /\ UNCHANGED <<file, current_file, sound>> /\ call' \in {"idle", "open"}
        /\ call' = "idle" => ret'.op # "read"
    BY <1>2, SMTT(30) DEF NotFound, GoesOn, fileVars
  <2> QED
    BY <1>1, <2>1, EofKept, SMTT(30) DEF ProgressInv
<1>3. ASSUME NEW p \in Entries(name), Found(p) PROVE ProgressInv' /\ ShortReadIsEof'
  <2>1. p \in Live /\ EntryAt(p) \in DirEntry
    BY SlotIs DEF Entries, Live
  <2>2. EntryAt(p).first \in Nat /\ EntryAt(p).size \in Nat
    BY <2>1, ConstantsAssumption, SMTT(30) DEF DirEntry
  <2>3. /\ file'.current_cluster = EntryAt(p).first /\ file'.size = EntryAt(p).size
        /\ file'.position = 0 /\ call' = "idle" /\ ret'.op = "open"
    BY <1>3, SMTT(30) DEF Found
  <2>4. ASSUME EntryAt(p).size > 0 PROVE ~ (EntryAt(p).first >= EOC)
    BY <2>1, <2>2, <2>4, DirAssumption, ClusterInUse, ConstantsAssumption, SMTT(30)
  <2>5. \A n \in ReadSizes : EntryAt(p).size + n < WORD
    BY <2>1 DEF NoWrap
  <2> QED
    BY <1>1, <2>2, <2>3, <2>4, <2>5, SMTT(30) DEF ProgressInv, ShortReadIsEof
<1> QED
  BY <1>1, <1>2, <1>3, SMTT(30)

LEMMA Eof_ReadSector ==
  ASSUME OrderInv, ProgressInv, ReadSector
  PROVE  ProgressInv' /\ ShortReadIsEof'
<1>1. /\ UNCHANGED <<initialized, current_file, size>> /\ call = "read"
      /\ Stops \/ \E n \in Nat, f \in {0, 1} : Copies(n, f)
  BY ReadOutcome, Zenon DEF ReadSector
<1>2. /\ file \in File /\ file.valid = 1 /\ todo \in Nat /\ ret.value \in Nat
      /\ file.position + todo <= file.size
      /\ ret.value + todo = size \/ file.position + todo = file.size
  BY <1>1 DEF OrderInv, TypeInv, ProgressInv
<1>3. file.position \in Nat /\ file.size \in Nat /\ file.current_cluster \in Nat
  BY <1>2, ConstantsAssumption DEF File
<1>4. CASE Stops
  <2>1. /\ call' = "idle" /\ ret'.value = ret.value /\ UNCHANGED file
        /\ sound' = 1 => sound = 1 /\ (todo = 0 \/ file.current_cluster >= EOC)
    BY <1>4 DEF Stops
  <2>2. ASSUME sound = 1, file.current_cluster >= EOC PROVE todo = 0
    <3> SUFFICES ASSUME todo # 0 PROVE FALSE
      OBVIOUS
    <3> DEFINE c == Nth(file.first_cluster)[file.position \div CLUSTER_SIZE]
    <3>1. file.position \in 0 .. file.size - 1 /\ file.size > 0
      BY <1>2, <1>3
    <3>2. c >= EOC
      BY <1>2, <2>2, <3>1, SMTT(30) DEF ProgressInv
    <3>3. c < EOC /\ file.first_cluster \in DOMAIN Fat
      BY <1>2, <3>1 DEF OrderInv, FileInv, HasChain
    <3>4. file.position \div CLUSTER_SIZE \in Nat
      BY <1>3, ClusterSize, QuotientRemainder, SMTT(30)
    <3>5. InChain(c)
      BY <3>3, <3>4, ChainStays
    <3> HIDE DEF c
    <3>6. c \in Nat
      BY <3>5, ClusterInUse DEF InChain
    <3> QED
      BY <3>2, <3>3, <3>6, ConstantsAssumption
  <2>3. ASSUME sound' = 1, ret.value < size PROVE file.position = file.size
    BY <1>2, <1>3, <2>1, <2>2, <2>3, SMTT(30)
  <2>4. ShortReadIsEof'
    BY <1>1, <2>1, <2>3, SMTT(30) DEF ShortReadIsEof
  <2>5. ProgressInv'
    BY <1>1, <2>1, SMTT(30) DEF ProgressInv
  <2> QED
    BY <2>4, <2>5
<1>5. ASSUME NEW n \in Nat, NEW f \in {0, 1}, Copies(n, f)
      PROVE  ProgressInv' /\ ShortReadIsEof'
  <2>1. /\ file'.first_cluster = file.first_cluster /\ file'.size = file.size
        /\ file'.position = file.position + n /\ file'.valid = file.valid
        /\ file'.current_cluster >= EOC /\ sound' = 1 =>
             Nth(file.first_cluster)[file'.position \div CLUSTER_SIZE] >= EOC
    BY <1>1, <1>5, CopyCluster
  <2>2. /\ n <= todo /\ call' = "read" /\ todo' = todo - n /\ ret'.value = ret.value + n
    BY <1>5, SMTT(30) DEF Copies
  <2>3. /\ file'.position + todo' <= file'.size /\ file'.position <= file'.size
        /\ ret'.value + todo' = size' \/ file'.position + todo' = file'.size
    BY <1>1, <1>2, <1>3, <2>1, <2>2, SMTT(30)
  <2> QED
    BY <1>1, <1>2, <2>1, <2>2, <2>3, SMTT(30) DEF ProgressInv, ShortReadIsEof
<1> QED
  BY <1>1, <1>4, <1>5, SMTT(30)

LEMMA EofStep ==
  ASSUME NoWrap, OrderInv, ProgressInv, ShortReadIsEof, [Next]_vars
  PROVE  ProgressInv' /\ ShortReadIsEof'
<1>0. file \in File /\ (current_file = "file" <=> file.valid = 1)
  BY DEF OrderInv, TypeInv
<1>1. CASE fat32_init
  <2>1. /\ call = "boot" /\ call' \in {"idle", "list"} /\ (call' = "idle" => ret'.op = "init")
        /\ UNCHANGED <<file, current_file, sound>>
    BY <1>1, SMTT(30) DEF fat32_init, Return, ListRoot, fileVars
  <2>2. current_file' # "file"
    BY <2>1 DEF ProgressInv
  <2> QED
    BY <2>1, <2>2, EofKept, SMTT(30)
<1>2. CASE FileOpen
  <2>1. /\ current_file' = "NULL" /\ call' \in {"idle", "open"}
        /\ call' = "open" => initialized' = 1
    BY <1>2 DEF FileOpen, Return
  <2>2. file'.valid = 0 /\ file'.position <= file'.size
    BY <1>0, <1>2 DEF FileOpen, File, ProgressInv
  <2> QED
    BY <2>1, <2>2, EofClosed
<1>3. CASE FileRead
  BY <1>3, Eof_FileRead
<1>4. CASE FileClose
  <2>1. current_file' = "NULL" /\ call' = "idle"
    BY <1>4 DEF FileClose, Return
  <2>2. file'.valid = 0 /\ file'.position <= file'.size
    BY <1>0, <1>4, SMTT(30) DEF FileClose, File, ProgressInv
  <2> QED
    BY <2>1, <2>2, EofClosed
<1>5. CASE ListDir
  <2>1. /\ call' \in {"idle", "list"} /\ (call' = "idle" => ret'.op = "list")
        /\ UNCHANGED <<initialized, file, current_file, sound>>
    BY <1>5 DEF ListDir, Return, fileVars
  <2> QED
    BY <2>1, EofKept, SMTT(30) DEF ProgressInv
<1>6. CASE OpenSector
  BY <1>6, Eof_OpenSector, SMTT(30)
<1>7. CASE ReadSector
  BY <1>7, Eof_ReadSector
<1>8. CASE ListSector
  <2>1. call = "list" /\ (call' = call \/ \E v : Return("list", v))
    BY <1>8, Zenon DEF ListSector, Continue
  <2>2. /\ call' \in {"idle", "list"} /\ (call' = "idle" => ret'.op = "list")
    BY <2>1 DEF Return
  <2>3. UNCHANGED <<initialized, file, current_file, sound>>
    BY <1>8, SMTT(30) DEF ListSector, fileVars
  <2> QED
    BY <2>2, <2>3, EofKept DEF ProgressInv
<1>9. CASE UNCHANGED vars
  <2>1. UNCHANGED <<initialized, file, current_file, call, size, todo, ret, sound>>
    BY <1>9 DEF vars
  <2> QED
    BY <2>1 DEF ProgressInv, ShortReadIsEof
<1> QED
  BY <1>1, <1>2, <1>3, <1>4, <1>5, <1>6, <1>7, <1>8, <1>9, SMTT(30) DEF Next, Step

LEMMA EofAlways == ASSUME NoWrap PROVE Spec => [](ProgressInv /\ ShortReadIsEof)
<1>1. OrderInv /\ ProgressInv /\ ShortReadIsEof /\ [Next]_vars
        => ProgressInv' /\ ShortReadIsEof'
  BY EofStep
<1> QED
  BY OrderAlways, InitEof, <1>1, PTL DEF Spec

(* As long as no request is so large that position + size passes 2^32, a   *)
(* read that returns less than it was asked, with no disk error since the  *)
(* open, has reached the end of the file: fat32_read never stops short at  *)
(* a sector or cluster boundary.                                           *)
THEOREM Fat32ShortReadIsEof == ASSUME NoWrap PROVE Spec => []ShortReadIsEof
  BY EofAlways, PTL

(* Under the same condition fat32_read keeps its promise not to read past  *)
(* the end of the file.                                                    *)
THEOREM Fat32NotPastEnd == ASSUME NoWrap PROVE Spec => []NotPastEnd
<1>1. ProgressInv => NotPastEnd
  BY DEF ProgressInv, NotPastEnd
<1> QED
  BY EofAlways, <1>1, PTL
=============================================================================
