------------------------------- MODULE Fat32 -------------------------------
(***************************************************************************)
(* The FAT32 driver (fat32.c) under the file system calls of syscall.c.    *)
(* A call is a loop over sectors; each iteration is one step, in which     *)
(* every ide_read_sectors may fail.  Nothing interrupts the driver but     *)
(* handlers that do not touch its state, so calls do not overlap.  A byte  *)
(* is its place on the disk, <<sector, offset>>; a directory entry's name  *)
(* is one value, with "END" for first byte 0x00 and "DEL" for 0xE5.        *)
(***************************************************************************)
EXTENDS Integers, Lists

CONSTANTS
  SECTOR_SIZE, SPC,       \* 512; fs.bpb.sectors_per_cluster
  DATA_START, ROOT,       \* fs.data_start_sector, fs.root_dir_cluster
  RESERVED, EOC,          \* FAT32_CLUSTER_RESERVED, FAT32_CLUSTER_EOC
  WORD,                   \* 2^32
  Fat,                    \* on disk: the FAT, cluster -> entry
  Dir,                    \* on disk: directory sector -> entries
  Names, ReadSizes, MaxEntries,   \* arguments programs pass
  DiskFaults              \* may ide_read_sectors fail?

CLUSTER_SIZE == SPC * SECTOR_SIZE

(***************************************************************************)
(* The volume, by the FAT and the directory sectors alone.                 *)
(***************************************************************************)
(* The clusters of a chain, by the FAT alone.                              *)
Nth(c) == LET f[n \in Nat] == IF n = 0 THEN c
                              ELSE IF f[n - 1] >= EOC THEN EOC ELSE Fat[f[n - 1]] IN f

(* A slot of the root directory is a cluster of its chain, a sector of     *)
(* that cluster and a place in the sector.                                 *)
RootSector(i, s) == DATA_START + (Nth(ROOT)[i] - 2) * SPC + s
RootSectors == {i \in 0 .. RESERVED : Nth(ROOT)[i] < EOC} \X (0 .. SPC - 1)
Slots ==
  UNION {{<<p[1], p[2], k>> : k \in 1 .. Len(Dir[RootSector(p[1], p[2])])} : p \in RootSectors}
EntryAt(p) == Dir[RootSector(p[1], p[2])][p[3]]
Before(p, q) ==
  p[1] < q[1] \/ (p[1] = q[1] /\ (p[2] < q[2] \/ (p[2] = q[2] /\ p[3] < q[3])))

(* The slots up to the directory's end mark, and those of a name.          *)
Live == {p \in Slots : \A q \in Slots : EntryAt(q).name = "END" => Before(p, q)}
Entries(n) == {p \in Live : EntryAt(p).name = n /\ EntryAt(p).attr # "LONG_NAME"}

DirEntry == [name : STRING, attr : STRING, size : 0 .. WORD - 1, first : Nat]

ASSUME ConstantsAssumption ==
  /\ SECTOR_SIZE \in Nat \ {0} /\ SPC \in Nat \ {0} /\ WORD \in Nat \ {0}
  /\ DATA_START \in Nat /\ RESERVED \in Nat /\ EOC \in Nat /\ RESERVED <= EOC
  /\ ReadSizes \subseteq 0 .. WORD - 1 /\ MaxEntries \subseteq Nat
  /\ Names \cap {"END", "DEL"} = {}

(* Fat holds the clusters in use: each leads to another one or ends a      *)
(* chain.  The root directory's chain ends.                                *)
ASSUME FatAssumption ==
  /\ \A c \in DOMAIN Fat : /\ c \in 2 .. RESERVED - 1
                           /\ Fat[c] \in DOMAIN Fat \/ (Fat[c] \in Nat /\ Fat[c] >= EOC)
  /\ ROOT \in DOMAIN Fat
  /\ \E n \in 0 .. RESERVED : Nth(ROOT)[n] >= EOC

(* The directory's sectors hold entries, and the chain of a file that is   *)
(* not empty has a cluster for each of its bytes.                          *)
ASSUME DirAssumption ==
  /\ \A i \in 0 .. RESERVED, s \in 0 .. SPC - 1 :
       Nth(ROOT)[i] < EOC => Dir[RootSector(i, s)] \in Seq(DirEntry)
  /\ \A p \in Live : EntryAt(p).size > 0 =>
       /\ EntryAt(p).first \in DOMAIN Fat
       /\ \A k \in 0 .. EntryAt(p).size - 1 :
            Nth(EntryAt(p).first)[k \div CLUSTER_SIZE] < EOC
-----------------------------------------------------------------------------
VARIABLES
  initialized, file, current_file,
  call,      \* the call in progress, or "idle"
  cluster, sector,   \* its scan position
  name, size, todo, listed, max,   \* its arguments and locals
  ret,       \* what the last call returned
  clean,     \* ghost: no disk error in this call
  sound,     \* ghost: no disk error since the file was opened
  out        \* ghost: what the program has read since the open

vars == <<initialized, file, current_file, call, cluster, sector, name, size,
          todo, listed, max, ret, clean, sound, out>>

fileVars == <<file, current_file, out, sound>>
args == <<name, size, max>>
-----------------------------------------------------------------------------
(* fat32_get_next_cluster; a failed read looks like the end of the chain.  *)
fat32_get_next_cluster_Retry(c, failed) ==
  IF c < 2 \/ c >= RESERVED THEN EOC ELSE IF failed = 1 THEN c ELSE IF Fat[c] >= EOC THEN EOC ELSE Fat[c]
fat32_get_next_cluster(c, failed) ==
  IF c < 2 \/ c >= RESERVED \/ failed = 1 \/ Fat[c] >= EOC THEN EOC ELSE Fat[c]

fat32_cluster_to_sector(c) == IF c < 2 THEN 0 ELSE DATA_START + (c - 2) * SPC

(* Does the next disk access fail?  1 when it does.                        *)
Fails == IF DiskFaults THEN {0, 1} ELSE {0}

Init ==
  /\ initialized = 0
  /\ file = [first_cluster |-> 0, current_cluster |-> 0, size |-> 0, position |-> 0, valid |-> 0]
  /\ current_file = "NULL"
  /\ call = "boot" /\ cluster = 0 /\ sector = 0
  /\ name = "END" /\ size = 0 /\ todo = 0 /\ listed = <<>> /\ max = 0
  /\ ret = [op |-> "none", value |-> 0]
  /\ clean = 1 /\ sound = 1 /\ out = <<>>

(* The end of a call: its scan position is gone, its result is ret.        *)
Return(op, value) ==
  /\ call' = "idle" /\ ret' = [op |-> op, value |-> value]
  /\ cluster' = 0 /\ sector' = 0

(* A call's arguments replace the previous call's.                         *)
Arguments(n, s, m) == name' = n /\ size' = s /\ max' = m /\ listed' = <<>> /\ clean' = 1

(* fat32_list_root is the scan of fat32_list_dir without a limit.          *)
ListRoot == call' = "list" /\ ret' = ret /\ cluster' = ROOT /\ sector' = 0

(* fat32_init fails on a read error or a volume that is not FAT32 with     *)
(* 512-byte sectors; on success kernel_main lists the root directory.      *)
fat32_init ==
  /\ call = "boot"
  /\ \/ initialized' = 0 /\ Return("init", -1)
     \/ initialized' = 1 /\ ListRoot
  /\ Arguments("END", 0, WORD)
  /\ UNCHANGED todo /\ UNCHANGED fileVars
-----------------------------------------------------------------------------
(* SYSCALL_FILE_OPEN: close what is open, then fat32_open's scan.          *)
FileOpen ==
  /\ call = "idle"
  /\ \E n \in Names : Arguments(n, 0, 0)
  /\ current_file' = "NULL"
  /\ file' = IF current_file = "NULL" THEN file ELSE [file EXCEPT !.valid = 0]
  /\ IF initialized = 1
     THEN call' = "open" /\ cluster' = ROOT /\ sector' = 0 /\ ret' = ret
     ELSE Return("open", -1)
  /\ UNCHANGED <<initialized, todo, sound, out>>

(* The scan goes on with the next sector, or with the next cluster of the  *)
(* directory.                                                              *)
Advance(failed) ==
  IF sector + 1 < SPC THEN [cluster |-> cluster, sector |-> sector + 1]
  ELSE [cluster |-> fat32_get_next_cluster(cluster, failed), sector |-> 0]

Continue(next) ==
  /\ cluster' = next.cluster /\ sector' = next.sector
  /\ UNCHANGED <<call, ret>>

EntriesHere == Dir[fat32_cluster_to_sector(cluster) + sector]

(* Entries fat32_open compares with the name it wants.                     *)
Matches_AnyEntry(e) == e.name = name
Matches(e) == e.attr # "LONG_NAME" /\ e.name = name

(* The first entry of the sector at which fat32_open stops, or 0.          *)
StopsAt == SelectInSeq(EntriesHere, LAMBDA e : e.name = "END" \/ Matches(e))

NoteFault(failed) == clean' = IF failed = 1 THEN 0 ELSE clean

OpenSector ==
  /\ call = "open"
  /\ \E failed \in Fails, fatFailed \in Fails :
       LET es == EntriesHere
           i == StopsAt
           next == Advance(fatFailed)
       IN  \/ /\ failed = 1 \/ (i # 0 /\ es[i].name = "END")
              /\ Return("open", -1) /\ NoteFault(failed)
              /\ UNCHANGED fileVars
           \/ /\ failed = 0 /\ i # 0 /\ es[i].name # "END"
              /\ Return("open", 0)
              /\ file' = [first_cluster |-> es[i].first, current_cluster |-> es[i].first,
                          size |-> es[i].size, position |-> 0, valid |-> 1]
              /\ current_file' = "file" /\ out' = <<>> /\ sound' = 1
              /\ UNCHANGED clean
           \/ /\ failed = 0 /\ i = 0
              /\ IF next.cluster < EOC THEN Continue(next) ELSE Return("open", -1)
              /\ NoteFault(IF next.sector = 0 THEN fatFailed ELSE 0)
              /\ UNCHANGED fileVars
  /\ UNCHANGED <<initialized, todo, listed>> /\ UNCHANGED args
-----------------------------------------------------------------------------
(* SYSCALL_FILE_READ: the request is cut at the end of the file, in 32-bit *)
(* arithmetic.                                                             *)
Clip_OffByOne(n) ==
  IF (file.position + n) % WORD > file.size THEN (file.size - file.position - 1) % WORD
  ELSE n
Clip(n) == IF (file.position + n) % WORD > file.size THEN (file.size - file.position) % WORD
           ELSE n

FileRead ==
  /\ call = "idle"
  /\ \E n \in ReadSizes : Arguments("END", n, 0)
  /\ IF current_file = "NULL" \/ file.valid = 0 \/ initialized = 0
     THEN Return("read", -1) /\ UNCHANGED todo
     ELSE /\ call' = "read" /\ todo' = Clip(size') /\ ret' = [op |-> "read", value |-> 0]
          /\ UNCHANGED <<cluster, sector>>
  /\ UNCHANGED initialized /\ UNCHANGED fileVars

(* One turn of fat32_read's loop, or its end.                              *)
LeavesCluster_Never(position) == FALSE
LeavesCluster(position) == position % CLUSTER_SIZE = 0
ReadSector ==
  /\ call = "read"
  /\ \E failed \in Fails, fatFailed \in Fails :
       LET in_cluster == file.position % CLUSTER_SIZE
           in_sector == in_cluster % SECTOR_SIZE
           here == fat32_cluster_to_sector(file.current_cluster) + in_cluster \div SECTOR_SIZE
           n == Min({SECTOR_SIZE - in_sector, CLUSTER_SIZE - in_cluster, todo})
           position == file.position + n
       IN  \/ /\ todo = 0 \/ file.current_cluster >= EOC \/ failed = 1
              /\ Return("read", ret.value)
              /\ sound' = IF failed = 1 THEN 0 ELSE sound
              /\ todo' = 0 /\ UNCHANGED <<file, out>>
           \/ /\ todo > 0 /\ file.current_cluster < EOC /\ failed = 0
              /\ out' = out \o [k \in 1 .. n |-> <<here, in_sector + k - 1>>]
              /\ ret' = [ret EXCEPT !.value = @ + n] /\ UNCHANGED <<call, cluster, sector>>
              /\ todo' = todo - n
              /\ file' = [file EXCEPT !.position = position,
                            !.current_cluster = IF LeavesCluster(position)
                                                THEN fat32_get_next_cluster(@, fatFailed) ELSE @]
              /\ sound' = IF fatFailed = 1 /\ LeavesCluster(position) THEN 0 ELSE sound
  /\ UNCHANGED <<initialized, current_file, listed, clean>> /\ UNCHANGED args

(* SYSCALL_FILE_CLOSE *)
FileClose ==
  /\ call = "idle" /\ Arguments("END", 0, 0)
  /\ IF current_file = "NULL" THEN Return("close", -1) /\ UNCHANGED <<file, current_file>>
     ELSE /\ Return("close", 0) /\ current_file' = "NULL"
          /\ file' = [file EXCEPT !.valid = 0]
  /\ UNCHANGED <<initialized, todo, sound, out>>
-----------------------------------------------------------------------------
(* SYSCALL_LIST_DIR and the scan of fat32_list_dir.                        *)
ListDir ==
  /\ call = "idle"
  /\ \E m \in MaxEntries : Arguments("END", 0, m)
  /\ IF max' = 0 \/ initialized = 0
     THEN Return("list", -1)
     ELSE call' = "list" /\ cluster' = ROOT /\ sector' = 0 /\ ret' = ret
  /\ UNCHANGED <<initialized, todo>> /\ UNCHANGED fileVars

Listed(e) == e.name # "DEL" /\ e.attr \notin {"LONG_NAME", "VOLUME_ID"}

(* A full list stops the walk over entries at once, but the remaining      *)
(* sectors of the cluster are still read.                                  *)
ListSector ==
  /\ call = "list"
  /\ \E failed \in Fails, fatFailed \in Fails :
       LET es == EntriesHere
           end == SelectInSeq(es, LAMBDA e : e.name = "END")
           seen == SelectSeq(IF end = 0 THEN es ELSE SubSeq(es, 1, end - 1), Listed)
           room == max - Len(listed)
           full == listed \o SubSeq(seen, 1, Min({room, Len(seen)}))
           atEnd == end # 0 /\ room > Len(seen)
           next == Advance(fatFailed)
       IN  \/ /\ failed = 1 /\ Return("list", -1) /\ NoteFault(1)
              /\ UNCHANGED listed
           \/ /\ failed = 0 /\ listed' = full
              /\ \/ atEnd /\ Return("list", Len(full)) /\ UNCHANGED clean
                 \/ /\ ~atEnd
                    /\ IF next.cluster < EOC /\ (next.sector > 0 \/ Len(full) < max)
                       THEN Continue(next) ELSE Return("list", Len(full))
                    /\ NoteFault(IF next.sector = 0 THEN fatFailed ELSE 0)
  /\ UNCHANGED <<initialized, todo>> /\ UNCHANGED fileVars /\ UNCHANGED args

Step == OpenSector \/ ReadSector \/ ListSector
Next == fat32_init \/ FileOpen \/ FileRead \/ FileClose \/ ListDir \/ Step

Spec == Init /\ [][Next]_vars

(* The kernel runs a system call to its end.                               *)
FairSpec == Spec /\ WF_vars(Step)
-----------------------------------------------------------------------------
TypeOK ==
  /\ initialized \in {0, 1} /\ current_file \in {"NULL", "file"}
  /\ file.current_cluster \in Nat /\ file.position \in Nat /\ file.valid \in {0, 1}
  /\ current_file = "file" => file.valid = 1
  /\ call \in {"boot", "idle", "open", "read", "list"}
  /\ sector \in 0 .. SPC - 1 /\ todo \in Nat
  /\ ret.value \in Nat \cup {-1}

(* Successive reads of any sizes deliver the file from its first byte on,  *)
(* each byte once and in order, across sector and cluster boundaries, and  *)
(* a disk error in between neither repeats nor skips one.                  *)
FileByte(k) ==
  <<DATA_START + (Nth(file.first_cluster)[k \div CLUSTER_SIZE] - 2) * SPC
      + (k % CLUSTER_SIZE) \div SECTOR_SIZE, k % SECTOR_SIZE>>
ReadsInOrder ==
  file.valid = 1 => /\ Len(out) = file.position
                    /\ \A k \in 1 .. Len(out) : out[k] = FileByte(k - 1)

(* A read that returns less than asked, with no disk error since the open, *)
(* has reached the end of the file.                                        *)
ShortReadIsEof ==
  /\ call = "idle" /\ ret.op = "read" /\ current_file = "file" /\ sound = 1
  /\ ret.value < size
  => file.position = file.size

(* An open without disk error finds the first entry of that name that is   *)
(* not a long-name fragment, wherever in the directory it is, and fails    *)
(* only when there is none before the end mark.                            *)
OpenFindsFirst ==
  call = "idle" /\ ret.op = "open" /\ clean = 1 /\ initialized = 1 =>
    IF Entries(name) = {} THEN ret.value = -1
    ELSE \E p \in Entries(name) :
           /\ \A q \in Entries(name) : ~Before(q, p)
           /\ ret.value = 0
           /\ file.first_cluster = EntryAt(p).first /\ file.size = EntryAt(p).size

(* Every call returns, whichever of its disk reads fail: on a volume whose *)
(* chains end, as FatAssumption has them, no loop over clusters goes on    *)
(* for ever.                                                               *)
CallReturns == call \in {"open", "read", "list"} ~> call = "idle"

(* fat32_read: "Don't read past end of file".                              *)
NotPastEnd == file.position <= file.size
=============================================================================
