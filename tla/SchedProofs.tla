---------------------------- MODULE SchedProofs ----------------------------
(***************************************************************************)
(* Proofs about Sched for any table size, slice, counter width and number  *)
(* of pages.  The inductive invariant adds to the properties what          *)
(* kernel_main's position says about the table, and that pids are handed   *)
(* out below next_pid.  Then proofs about Threads, for any number of       *)
(* threads, any size of the screen and any bound on how far the cursor     *)
(* strays.                                                                 *)
(***************************************************************************)
EXTENDS Threads, FiniteSetTheorems, TLAPS

MainInv ==
  /\ main \in {"boot", "proc0"} => \A s \in Slots : state[s] = "UNUSED"
  /\ main = "current" => \A s \in Slots : state[s] = IF s = 0 THEN "RUNNING" ELSE "UNUSED"
  /\ current_proc = NoProc <=> main \in {"boot", "proc0", "current"}
  /\ main \notin {"boot", "proc0"} => InUse(0)
  /\ main \in {"alloc", "publish"} => state[slot] = "UNUSED"

PidsBelow == \A s \in Slots : InUse(s) => pid[s] < next_pid

IInv == TypeOK /\ MainInv /\ OneRunning /\ PidsUnique /\ PidsBelow

(* x % M for the one lap the scan of schedule() makes.                     *)
LEMMA OneLap ==
  ASSUME NEW M \in Nat \ {0}, NEW c \in 0 .. M - 1, NEW i \in 1 .. M
  PROVE  (c + i) % M = IF c + i < M THEN c + i ELSE c + i - M
<1>1. CASE c + i < M
  BY <1>1, SMT
<1>2. CASE c + i >= M
  <2>1. c + i = M * 1 + (c + i - M) /\ c + i - M \in 0 .. M - 1
    BY <1>2, SMT
  <2>2. (c + i) % M = c + i - M
    BY <2>1, SMTT(30)
  <2>. QED BY <1>2, <2>2, SMT
<1>. QED BY <1>1, <1>2, SMT

LEMMA ZeroSlot == 0 \in Slots
BY SchedAssumption, SMT DEF Slots

LEMMA ScanInSlots ==
  ASSUME current_proc \in Slots, NEW i \in 1 .. MAX_PROCESSES
  PROVE  Scan(i) \in Slots
<1>1. MAX_PROCESSES \in Nat \ {0} BY SchedAssumption
<1>2. current_proc \in 0 .. MAX_PROCESSES - 1 BY DEF Slots
<1>3. Scan(i) = IF current_proc + i < MAX_PROCESSES THEN current_proc + i
                ELSE current_proc + i - MAX_PROCESSES
  BY <1>1, <1>2, OneLap DEF Scan
<1>. QED BY <1>1, <1>2, <1>3, SMT DEF Slots

(* What a switch starts from: the current slot is RUNNING, the new READY.  *)
LEMMA PickFacts ==
  ASSUME IInv, NEW new \in Slots, Picks(new)
  PROVE  /\ current_proc \in Slots /\ new # current_proc
         /\ state[current_proc] = "RUNNING" /\ state[new] = "READY"
<1>1. current_proc \in Slots /\ new # current_proc
  BY DEF IInv, TypeOK, Picks
<1>2. state[current_proc] = "RUNNING"
  BY <1>1 DEF IInv, OneRunning, Picks
<1>3. state[new] = "READY"
  BY DEF Picks, ReadyOffsets
<1>. QED BY <1>1, <1>2, <1>3

(* Every step of the program keeps IInv: one case per action.              *)
LEMMA InvStep == IInv /\ [Next]_vars => IInv'
<1>. SUFFICES ASSUME IInv, [Next]_vars PROVE IInv'
  OBVIOUS
<1>. USE ZeroSlot
<1>1. CASE ClearTable
  BY <1>1 DEF ClearTable, MainRuns, IInv, TypeOK, MainInv, OneRunning, PidsUnique,
     PidsBelow, InUse
<1>2. CASE FillProc0
  <2>1. TypeOK'
    BY <1>2 DEF FillProc0, MainRuns, IInv, TypeOK
  <2>2. MainInv' /\ OneRunning'
    BY <1>2 DEF FillProc0, MainRuns, IInv, TypeOK, MainInv, OneRunning, InUse
  <2>3. PidsUnique' /\ PidsBelow'
    BY <1>2 DEF FillProc0, MainRuns, IInv, TypeOK, MainInv, PidsUnique, PidsBelow, InUse
  <2>. QED BY <2>1, <2>2, <2>3 DEF IInv
<1>3. CASE SetCurrent
  <2>1. TypeOK' /\ PidsUnique' /\ PidsBelow'
    BY <1>3 DEF SetCurrent, MainRuns, IInv, TypeOK, PidsUnique, PidsBelow, InUse
  <2>2. MainInv' /\ OneRunning'
    BY <1>3, SchedAssumption DEF SetCurrent, MainRuns, IInv, TypeOK, MainInv, OneRunning, InUse
  <2>. QED BY <2>1, <2>2 DEF IInv
<1>4. CASE FindSlot
  BY <1>4 DEF FindSlot, MainRuns, IInv, TypeOK, MainInv, OneRunning, PidsUnique,
     PidsBelow, InUse
<1>5. CASE AllocStack
  <2>1. TypeOK'
    BY <1>5, SchedAssumption DEF AllocStack, MainRuns, IInv, TypeOK
  <2>2. MainInv' /\ OneRunning' /\ PidsUnique' /\ PidsBelow'
    BY <1>5 DEF AllocStack, MainRuns, IInv, MainInv, OneRunning, PidsUnique,
       PidsBelow, InUse
  <2>. QED BY <2>1, <2>2 DEF IInv
<1>6. CASE Publish
  <2>1. TypeOK'
    BY <1>6 DEF Publish, NextPid, MainRuns, IInv, TypeOK
  <2>2. MainInv' /\ OneRunning'
    BY <1>6 DEF Publish, MainRuns, IInv, TypeOK, MainInv, OneRunning, InUse
  <2>3. PidsUnique' /\ PidsBelow'
    BY <1>6 DEF Publish, NextPid, MainRuns, IInv, TypeOK, MainInv, PidsUnique,
       PidsBelow, InUse
  <2>. QED BY <2>1, <2>2, <2>3 DEF IInv
<1>7. CASE BuildFrame
  BY <1>7 DEF BuildFrame, MainRuns, IInv, TypeOK, MainInv, OneRunning, PidsUnique,
     PidsBelow, InUse
<1>8. CASE TimerIrq
  <2>0. pit_ticks' \in 0 .. TICK_WRAP - 1
    BY <1>8, SchedAssumption, SMT DEF TimerIrq, Tick, IInv, TypeOK
  <2>1. CASE \E new \in Slots : Picks(new) /\ SwitchTo(new) /\ Eoi_BeforeSwitch(new)
    <3>. PICK new \in Slots : Picks(new) /\ SwitchTo(new) /\ Eoi_BeforeSwitch(new)
      BY <2>1
    <3>1. /\ current_proc \in Slots /\ new # current_proc
          /\ state[current_proc] = "RUNNING" /\ state[new] = "READY"
      BY PickFacts
    <3>2. state' = [state EXCEPT ![current_proc] = "READY", ![new] = "RUNNING"]
      BY <3>1 DEF SwitchTo, context_switch, Demote
    <3>3. UNCHANGED <<pid, next_pid, pages, main, slot>> /\ current_proc' = new
      BY <1>8 DEF TimerIrq, SwitchTo, context_switch
    <3>4. TypeOK'
      BY <2>0, <3>1, <3>2, <3>3 DEF SwitchTo, context_switch, Eoi_BeforeSwitch, IInv, TypeOK
    <3>5. \A s \in Slots : InUse(s)' <=> InUse(s)
      BY <3>1, <3>2 DEF InUse, IInv, TypeOK
    <3>6. PidsUnique' /\ PidsBelow'
      BY <3>3, <3>5 DEF PidsUnique, PidsBelow, IInv
    <3>7. OneRunning'
      <4>1. current_proc # NoProc
        BY DEF Picks
      <4>2. \A s \in Slots : state[s] = "RUNNING" <=> s = current_proc
        BY <4>1 DEF OneRunning, IInv
      <4>3. \A s \in Slots : state'[s] = IF s = new THEN "RUNNING"
                                  ELSE IF s = current_proc THEN "READY" ELSE state[s]
        BY <3>1, <3>2 DEF IInv, TypeOK
      <4>. QED BY <3>3, <4>2, <4>3 DEF OneRunning
    <3>8. MainInv'
      BY <3>1, <3>2, <3>3, <3>5, SchedAssumption DEF MainInv, IInv, TypeOK, Slots
    <3>. QED BY <3>4, <3>6, <3>7, <3>8 DEF IInv
  <2>2. CASE in_service' = 0 /\ UNCHANGED <<state, current_proc, esp, cpu>>
    BY <1>8, <2>0, <2>2 DEF TimerIrq, IInv, TypeOK, MainInv, OneRunning, PidsUnique,
       PidsBelow, InUse
  <2>. QED BY <1>8, <2>1, <2>2 DEF TimerIrq
<1>9. CASE UNCHANGED vars
  BY <1>9 DEF vars, IInv, TypeOK, MainInv, OneRunning, PidsUnique, PidsBelow, InUse
<1>. QED BY <1>1, <1>2, <1>3, <1>4, <1>5, <1>6, <1>7, <1>8, <1>9 DEF Next

LEMMA InvInit == Init => IInv
BY SchedAssumption, ZeroSlot DEF Init, IInv, TypeOK, MainInv, OneRunning, PidsUnique,
   PidsBelow, InUse

(* IInv holds in every reachable state of process.c under the timer.       *)
THEOREM SchedInvariant == Spec => []IInv
BY InvInit, InvStep, PTL DEF Spec

(* process_init, process_create and schedule keep the table well typed.    *)
THEOREM SchedTypeCorrect == Spec => []TypeOK
<1>1. IInv => TypeOK BY DEF IInv
<1>. QED BY <1>1, SchedInvariant, PTL

(* current_proc is the one RUNNING process, wherever the timer strikes.    *)
THEOREM SchedOneRunning == Spec => []OneRunning
<1>1. IInv => OneRunning BY DEF IInv
<1>. QED BY <1>1, SchedInvariant, PTL

(* process_create never gives one pid to two processes.                    *)
THEOREM SchedPidsUnique == Spec => []PidsUnique
<1>1. IInv => PidsUnique BY DEF IInv
<1>. QED BY <1>1, SchedInvariant, PTL
-----------------------------------------------------------------------------
(* The scan offset at which schedule() meets slot s is its Distance.       *)
LEMMA ScanDistance ==
  ASSUME current_proc \in Slots, NEW s \in Slots
  PROVE  Distance(s) \in 1 .. MAX_PROCESSES /\ Scan(Distance(s)) = s
<1>1. MAX_PROCESSES \in Nat \ {0} BY SchedAssumption
<1>2. current_proc \in 0 .. MAX_PROCESSES - 1 /\ s \in 0 .. MAX_PROCESSES - 1 BY DEF Slots
<1>3. Distance(s) \in 1 .. MAX_PROCESSES
  BY <1>1, <1>2, SMT DEF Distance
<1>4. Scan(Distance(s)) = IF current_proc + Distance(s) < MAX_PROCESSES
                          THEN current_proc + Distance(s)
                          ELSE current_proc + Distance(s) - MAX_PROCESSES
  BY <1>1, <1>2, <1>3, OneLap DEF Scan
<1>. QED BY <1>1, <1>2, <1>3, <1>4, SMT DEF Distance

(* One switch of schedule() brings every waiting slot nearer.              *)
LEMMA SwitchNearer ==
  ASSUME IInv, NEW new \in Slots, Picks(new), current_proc' = new,
         NEW s \in Slots, state[s] = "READY", s # new
  PROVE  Distance(s)' < Distance(s)
<1>0. current_proc \in Slots BY PickFacts
<1>1. PICK i \in ReadyOffsets : (\A j \in ReadyOffsets : i <= j) /\ new = Scan(i)
  BY DEF Picks
<1>2. Distance(s) \in ReadyOffsets
  BY <1>0, ScanDistance DEF ReadyOffsets
<1>3. i <= Distance(s) /\ i # Distance(s)
  BY <1>0, <1>1, <1>2, ScanDistance
<1>4. i \in 1 .. MAX_PROCESSES /\ MAX_PROCESSES \in Nat \ {0}
  BY <1>1, SchedAssumption DEF ReadyOffsets
<1>5. /\ current_proc \in 0 .. MAX_PROCESSES - 1
      /\ s \in 0 .. MAX_PROCESSES - 1 /\ new \in 0 .. MAX_PROCESSES - 1
  BY <1>0 DEF Slots
<1>6. new = IF current_proc + i < MAX_PROCESSES THEN current_proc + i
            ELSE current_proc + i - MAX_PROCESSES
  BY <1>1, <1>4, <1>5, OneLap DEF Scan
<1>7. Distance(s)' = IF s > new THEN s - new ELSE s + MAX_PROCESSES - new
  BY DEF Distance
<1>. QED BY <1>3, <1>4, <1>5, <1>6, <1>7, SMT DEF Distance

(* schedule() is round robin: a process left waiting is never bypassed.    *)
THEOREM SchedRoundRobin == Spec => RoundRobin
<1>. DEFINE Fair(s) == /\ current_proc # NoProc /\ current_proc' # current_proc
                       /\ state[s] = "READY" /\ state'[s] = "READY"
                       => Distance(s)' < Distance(s)
<1>1. IInv /\ [Next]_vars => [\A s \in Slots : Fair(s)]_vars
  <2>. SUFFICES ASSUME IInv, Next, NEW s \in Slots,
                       current_proc # NoProc, current_proc' # current_proc,
                       state[s] = "READY", state'[s] = "READY"
                PROVE  Distance(s)' < Distance(s)
    OBVIOUS
  <2>1. CASE SetCurrent
    BY <2>1 DEF SetCurrent, MainRuns, IInv, MainInv
  <2>2. CASE TimerIrq
    <3>1. PICK new \in Slots : Picks(new) /\ SwitchTo(new)
      BY <2>2 DEF TimerIrq
    <3>2. current_proc' = new /\ state'[new] = "RUNNING"
      BY <3>1 DEF SwitchTo, context_switch, IInv, TypeOK
    <3>. QED BY <3>1, <3>2, SwitchNearer
  <2>3. CASE ~ (SetCurrent \/ TimerIrq)
    BY <2>3 DEF Next, ClearTable, FillProc0, FindSlot, AllocStack, Publish, BuildFrame
  <2>. QED BY <2>1, <2>2, <2>3
<1>. QED BY <1>1, SchedInvariant, PTL DEF Spec, RoundRobin
-----------------------------------------------------------------------------
Created == {s \in Slots \ {0} : InUse(s)}

LEMMA CreatedFinite == IsFiniteSet(Created) /\ Cardinality(Created) \in Nat
<1>1. IsFiniteSet(Slots)
  BY SchedAssumption, FS_Interval, SMT DEF Slots
<1>2. Created \subseteq Slots
  BY DEF Created
<1>. QED BY <1>1, <1>2, FS_Subset, FS_CardinalityType

(* Every page handed out by pmm_alloc is the stack of one created process, *)
(* or still in process_create's hands: none is lost on its error paths.    *)
THEOREM SchedPagesAccounted == Spec => []PagesAccounted
<1>1. Init => PagesAccounted
  <2>. SUFFICES ASSUME Init PROVE PagesAccounted
    OBVIOUS
  <2>1. {s \in Slots \ {0} : InUse(s)} = {}
    BY DEF Init, InUse
  <2>. QED BY <2>1, FS_EmptySet, SchedAssumption DEF Init, PagesAccounted
<1>2. IInv /\ IInv' /\ PagesAccounted /\ [Next]_vars => PagesAccounted'
  <2>. SUFFICES ASSUME IInv, IInv', PagesAccounted, [Next]_vars PROVE PagesAccounted'
    OBVIOUS
  <2>a. STACK_PAGES - pages = Cardinality(Created) + (IF main = "publish" THEN 1 ELSE 0)
    BY DEF PagesAccounted, Created
  <2>b. ASSUME Created' = Created, UNCHANGED pages, main = "publish" <=> main' = "publish"
        PROVE  PagesAccounted'
    BY <2>a, <2>b DEF PagesAccounted, Created
  <2>c. pages \in 0 .. STACK_PAGES /\ STACK_PAGES \in Nat
    BY SchedAssumption DEF IInv, TypeOK
  <2>1. CASE ClearTable \/ FillProc0 \/ SetCurrent \/ FindSlot \/ BuildFrame \/ UNCHANGED vars
    <3>1. Created' = Created
      BY <2>1 DEF ClearTable, FillProc0, SetCurrent, FindSlot, BuildFrame, vars, MainRuns,
         Created, InUse, IInv, MainInv, TypeOK
    <3>2. UNCHANGED pages /\ (main = "publish" <=> main' = "publish")
      BY <2>1 DEF ClearTable, FillProc0, SetCurrent, FindSlot, BuildFrame, vars, MainRuns
    <3>. QED BY <2>b, <3>1, <3>2
  <2>2. CASE AllocStack
    <3>1. Created' = Created
      BY <2>2 DEF AllocStack, Created, InUse
    <3>2. CASE pages = 0 /\ main' = "idle" /\ UNCHANGED pages
      BY <2>2, <2>b, <3>1, <3>2 DEF AllocStack, MainRuns
    <3>3. CASE pages > 0 /\ main' = "publish" /\ pages' = pages - 1
      <4>1. STACK_PAGES - pages = Cardinality(Created)
        BY <2>2, <2>a, <2>c, CreatedFinite, SMT DEF AllocStack, MainRuns
      <4>2. STACK_PAGES - pages' = Cardinality(Created') + 1
        BY <2>c, <3>1, <3>3, <4>1, CreatedFinite, SMT
      <4>. QED BY <3>3, <4>2 DEF PagesAccounted, Created
    <3>. QED BY <2>2, <3>2, <3>3 DEF AllocStack
  <2>3. CASE Publish
    <3>1. slot # 0 /\ slot \in Slots /\ slot \notin Created
      BY <2>3 DEF Publish, MainRuns, IInv, TypeOK, MainInv, InUse, Created
    <3>2. Created' = Created \cup {slot}
      BY <2>3, <3>1 DEF Publish, Created, InUse, IInv, TypeOK
    <3>3. Cardinality(Created') = Cardinality(Created) + 1
      BY <3>1, <3>2, CreatedFinite, FS_AddElement
    <3>4. STACK_PAGES - pages' = Cardinality(Created) + 1 /\ main' = "frame"
      BY <2>3, <2>a DEF Publish, MainRuns
    <3>5. STACK_PAGES - pages' = Cardinality(Created') + 0
      BY <3>3, <3>4, CreatedFinite, SMT
    <3>. QED BY <3>4, <3>5 DEF PagesAccounted, Created
  <2>4. CASE TimerIrq
    <3>1. \A s \in Slots : InUse(s)' <=> InUse(s)
      <4>1. CASE \E new \in Slots : Picks(new) /\ SwitchTo(new)
        BY <4>1, PickFacts DEF SwitchTo, context_switch, Demote, InUse, IInv, TypeOK
      <4>2. CASE UNCHANGED state
        BY <4>2 DEF InUse
      <4>. QED BY <2>4, <4>1, <4>2 DEF TimerIrq
    <3>2. Created' = Created
      BY <3>1 DEF Created
    <3>. QED BY <2>4, <2>b, <3>2 DEF TimerIrq
  <2>. QED BY <2>1, <2>2, <2>3, <2>4 DEF Next
<1>. QED BY <1>1, <1>2, SchedInvariant, PTL DEF Spec
-----------------------------------------------------------------------------
(* OffScreenIsRepaired is inductive once the types are known: whoever      *)
(* stores a row or a column beyond the screen is then at its own test, and *)
(* leaves the repairing places only having seen, or made, the cursor good. *)
ThreadsInv == ThreadsTypeOK /\ OffScreenIsRepaired

RowOk == vga_row >= HEIGHT => \E p \in Slots : at[p] \in {"row_test", "scroll"}
ColumnOk == vga_column >= WIDTH => \E p \in Slots : at[p] \in {"col_test", "col_zero"}

(* The cursor starts at the top left corner.                               *)
LEMMA ThreadsInitInv == ThreadsInit => ThreadsInv
BY ThreadsAssumption DEF ThreadsInit, ThreadsInv, ThreadsTypeOK, OffScreenIsRepaired

(* Every access of vga_putchar keeps the types of the cursor and of the    *)
(* process that makes it.                                                  *)
LEMMA PutcharTypes ==
  ASSUME ThreadsInv, NEW p \in Slots, Putchar(p)
  PROVE  ThreadsTypeOK'
<1>1. CASE WriteChar(p)
  BY <1>1 DEF ThreadsInv, ThreadsTypeOK, WriteChar, Goes
<1>2. CASE StoreColumn(p)
  BY <1>2 DEF ThreadsInv, ThreadsTypeOK, StoreColumn, Goes
<1>3. CASE TestColumn(p)
  BY <1>3 DEF ThreadsInv, ThreadsTypeOK, TestColumn, Goes
<1>4. CASE ZeroColumn(p)
  BY <1>4 DEF ThreadsInv, ThreadsTypeOK, ZeroColumn, Goes
<1>5. CASE LoadRow(p)
  BY <1>5 DEF ThreadsInv, ThreadsTypeOK, LoadRow, Goes
<1>6. CASE StoreRow(p)
  BY <1>6 DEF ThreadsInv, ThreadsTypeOK, StoreRow, Goes
<1>7. CASE TestRow(p)
  BY <1>7 DEF ThreadsInv, ThreadsTypeOK, TestRow, Goes
<1>8. CASE Scroll(p)
  BY <1>8, ThreadsAssumption DEF ThreadsInv, ThreadsTypeOK, Scroll, ScrollRow, Goes
<1> QED BY <1>1, <1>2, <1>3, <1>4, <1>5, <1>6, <1>7, <1>8 DEF Putchar

(* The row: stored by a process that is then about to test it, given up    *)
(* only after a test that found it good or after the scroll reset it.      *)
LEMMA PutcharRow ==
  ASSUME ThreadsInv, NEW p \in Slots, Putchar(p)
  PROVE  RowOk'
<1> USE DEF ThreadsInv, ThreadsTypeOK
<1>0. RowOk
  BY DEF OffScreenIsRepaired, RowOk
<1>a. ASSUME at[p] \notin {"row_test", "scroll"}, vga_row' = vga_row,
             \A q \in Slots \ {p} : at'[q] = at[q]
      PROVE  RowOk'
  BY <1>0, <1>a DEF RowOk
<1>1. CASE WriteChar(p)
  BY <1>1, <1>a DEF WriteChar, Goes
<1>2. CASE StoreColumn(p)
  BY <1>2, <1>a DEF StoreColumn, Goes
<1>3. CASE TestColumn(p)
  BY <1>3, <1>a DEF TestColumn, Goes
<1>4. CASE ZeroColumn(p)
  BY <1>4, <1>a DEF ZeroColumn, Goes
<1>5. CASE LoadRow(p)
  BY <1>5, <1>a DEF LoadRow, Goes
<1>6. CASE StoreRow(p)
  <2>1. at'[p] = "row_test"
    BY <1>6 DEF StoreRow, Goes
  <2> QED BY <2>1 DEF RowOk
<1>7. CASE TestRow(p)
  <2>1. vga_row' = vga_row
    BY <1>7 DEF TestRow
  <2>2. CASE RowOver
    <3>1. at'[p] = "scroll"
      BY <1>7, <2>2 DEF TestRow, Goes
    <3> QED BY <3>1 DEF RowOk
  <2>3. CASE ~RowOver
    BY <2>1, <2>3 DEF RowOver, RowOk
  <2> QED BY <2>2, <2>3
<1>8. CASE Scroll(p)
  <2>1. vga_row' = HEIGHT - 1
    BY <1>8 DEF Scroll, ScrollRow
  <2> QED BY <2>1, ThreadsAssumption DEF RowOk
<1> QED BY <1>1, <1>2, <1>3, <1>4, <1>5, <1>6, <1>7, <1>8 DEF Putchar

(* The column, likewise.                                                   *)
LEMMA PutcharColumn ==
  ASSUME ThreadsInv, NEW p \in Slots, Putchar(p)
  PROVE  ColumnOk'
<1> USE DEF ThreadsInv, ThreadsTypeOK
<1>0. ColumnOk
  BY DEF OffScreenIsRepaired, ColumnOk
<1>a. ASSUME at[p] \notin {"col_test", "col_zero"}, vga_column' = vga_column,
             \A q \in Slots \ {p} : at'[q] = at[q]
      PROVE  ColumnOk'
  BY <1>0, <1>a DEF ColumnOk
<1>1. CASE WriteChar(p)
  BY <1>1, <1>a DEF WriteChar, Goes
<1>2. CASE StoreColumn(p)
  <2>1. at'[p] = "col_test"
    BY <1>2 DEF StoreColumn, Goes
  <2> QED BY <2>1 DEF ColumnOk
<1>3. CASE TestColumn(p)
  <2>1. vga_column' = vga_column
    BY <1>3 DEF TestColumn
  <2>2. CASE ColumnOver
    <3>1. at'[p] = "col_zero"
      BY <1>3, <2>2 DEF TestColumn, Goes
    <3> QED BY <3>1 DEF ColumnOk
  <2>3. CASE ~ColumnOver
    BY <2>1, <2>3 DEF ColumnOver, ColumnOk
  <2> QED BY <2>2, <2>3
<1>4. CASE ZeroColumn(p)
  <2>1. vga_column' = 0
    BY <1>4 DEF ZeroColumn
  <2> QED BY <2>1, ThreadsAssumption DEF ColumnOk
<1>5. CASE LoadRow(p)
  BY <1>5, <1>a DEF LoadRow, Goes
<1>6. CASE StoreRow(p)
  BY <1>6, <1>a DEF StoreRow, Goes
<1>7. CASE TestRow(p)
  BY <1>7, <1>a DEF TestRow, Goes
<1>8. CASE Scroll(p)
  BY <1>8, <1>a DEF Scroll, Goes
<1> QED BY <1>1, <1>2, <1>3, <1>4, <1>5, <1>6, <1>7, <1>8 DEF Putchar

(* A step of Sched leaves the screen alone, a thread's step keeps the      *)
(* three parts of the invariant.                                           *)
LEMMA ThreadsInductive == ThreadsInv /\ [ThreadsNext]_all => ThreadsInv'
<1> SUFFICES ASSUME ThreadsInv, [ThreadsNext]_all PROVE ThreadsInv'
  OBVIOUS
<1>1. CASE UNCHANGED screen
  BY <1>1 DEF ThreadsInv, ThreadsTypeOK, OffScreenIsRepaired, screen
<1>2. ASSUME NEW p \in Slots, ThreadStep(p) PROVE ThreadsInv'
  <2>1. Putchar(p)
    BY <1>2 DEF ThreadStep
  <2>2. ThreadsTypeOK' /\ RowOk' /\ ColumnOk'
    BY <2>1, PutcharTypes, PutcharRow, PutcharColumn
  <2> QED BY <2>2 DEF ThreadsInv, OffScreenIsRepaired, RowOk, ColumnOk
<1> QED BY <1>1, <1>2 DEF ThreadsNext, Kernel, all

(* However many threads print and wherever ticks preempt them, a cursor    *)
(* beyond the screen is about to be put back by one of them.               *)
THEOREM ThreadsOffScreenIsRepaired == ThreadsSpec => []OffScreenIsRepaired
<1>1. ThreadsInv => OffScreenIsRepaired
  BY DEF ThreadsInv
<1> QED BY ThreadsInitInv, ThreadsInductive, <1>1, PTL DEF ThreadsSpec

(* The threads of the kernel, printing or not, are scheduled as in Sched:  *)
(* what is proved of Sched holds of the composition.                       *)
THEOREM ThreadsImplementSched == ThreadsSpec => Spec
<1>1. ThreadsInit => Init
  BY DEF ThreadsInit
<1>2. [ThreadsNext]_all => [Next]_vars
  <2>1. ASSUME NEW p \in Slots, ThreadStep(p) PROVE UNCHANGED vars
    BY <2>1, Zenon DEF ThreadStep
  <2> QED BY <2>1, Zenon DEF ThreadsNext, Kernel, all
<1> QED BY <1>1, <1>2, PTL DEF ThreadsSpec, Spec
=============================================================================
