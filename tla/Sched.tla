------------------------------- MODULE Sched -------------------------------
(***************************************************************************)
(* Kernel processes (process.c), the timer interrupt that preempts them    *)
(* (isr_handler, case 32, in idt.c) and context_switch (switch.asm).       *)
(*                                                                         *)
(* The timer runs from idt_init on, so it may fire before process_init and *)
(* between any two statements of process_init and process_create, which    *)
(* kernel_main executes as process 0 with interrupts enabled.  The         *)
(* interrupt itself runs with interrupts off and is one step.              *)
(***************************************************************************)
EXTENDS Naturals, FiniteSets

CONSTANTS
  MAX_PROCESSES,
  SLICE,          \* ticks per time slice: 10
  TICK_WRAP,      \* pit_ticks is a uint32_t: 2^32
  STACK_PAGES,    \* pages pmm_alloc can still hand out
  NoProc          \* current_proc = 0

ASSUME SchedAssumption ==
  /\ MAX_PROCESSES \in Nat \ {0}
  /\ SLICE \in Nat \ {0} /\ TICK_WRAP \in Nat \ {0}
  /\ STACK_PAGES \in Nat
  /\ NoProc \notin Nat

VARIABLES
  state, pid, esp,   \* fields of proc_table, by slot
  current_proc,      \* a slot, or NoProc
  next_pid,
  pages,             \* free pages
  pit_ticks,
  in_service,        \* the PIC's in-service bit of IRQ0 (1: no further ticks)
  main, slot,        \* where kernel_main is, and process_create's slot
  cpu                \* "lost" once it runs on a stack nobody built

vars == <<state, pid, esp, current_proc, next_pid, pages, pit_ticks,
          in_service, main, slot, cpu>>

Slots == 0 .. MAX_PROCESSES - 1

TypeOK ==
  /\ state \in [Slots -> {"UNUSED", "READY", "RUNNING"}]
  /\ pid \in [Slots -> Nat]
  /\ esp \in [Slots -> {"unset", "frame", "saved"}]
  /\ current_proc \in Slots \cup {NoProc}
  /\ next_pid \in Nat
  /\ pages \in 0 .. STACK_PAGES
  /\ pit_ticks \in 0 .. TICK_WRAP - 1
  /\ in_service \in {0, 1}
  /\ main \in {"boot", "proc0", "current", "idle", "alloc", "publish", "frame"}
  /\ slot \in Slots
  /\ cpu \in {"ok", "lost"}

Init ==
  /\ state = [s \in Slots |-> "UNUSED"]
  /\ pid = [s \in Slots |-> 0]
  /\ esp = [s \in Slots |-> "unset"]
  /\ current_proc = NoProc /\ next_pid = 0
  /\ pages = STACK_PAGES
  /\ pit_ticks = 0 /\ in_service = 0
  /\ main = "boot" /\ slot = 0 /\ cpu = "ok"
-----------------------------------------------------------------------------
(* kernel_main runs while it has the CPU.                                  *)
MainRuns(at) == cpu = "ok" /\ main = at /\ current_proc \in {NoProc, 0}

(* process_init: clear the table, fill slot 0, and only then set           *)
(* current_proc, which is what schedule() looks at.                        *)
ClearTable ==
  /\ MainRuns("boot") /\ main' = "proc0"
  /\ state' = [s \in Slots |-> "UNUSED"] /\ pid' = [s \in Slots |-> 0]
  /\ UNCHANGED <<esp, current_proc, next_pid, pages, pit_ticks, in_service, slot, cpu>>

FillProc0 ==
  /\ MainRuns("proc0") /\ main' = "current"
  /\ pid' = [pid EXCEPT ![0] = next_pid] /\ next_pid' = next_pid + 1
  /\ state' = [state EXCEPT ![0] = "RUNNING"]
  /\ esp' = [esp EXCEPT ![0] = "saved"]
  /\ UNCHANGED <<current_proc, pages, pit_ticks, in_service, slot, cpu>>

SetCurrent ==
  /\ MainRuns("current") /\ main' = "idle"
  /\ current_proc' = 0
  /\ UNCHANGED <<state, pid, esp, next_pid, pages, pit_ticks, in_service, slot, cpu>>

(* process_create: the first unused slot, or -1.                           *)
FindSlot ==
  /\ MainRuns("idle") /\ main' = "alloc"
  /\ \E s \in Slots :
       /\ state[s] = "UNUSED" /\ \A t \in 0 .. s - 1 : state[t] # "UNUSED"
       /\ slot' = s
  /\ UNCHANGED <<state, pid, esp, current_proc, next_pid, pages, pit_ticks,
                 in_service, cpu>>

(* pmm_alloc for the stack; when there is none, -1 and nothing changes.    *)
AllocStack_Unchecked ==
  /\ MainRuns("alloc") /\ main' = "publish"
  /\ pages' = IF pages = 0 THEN 0 ELSE pages - 1
  /\ UNCHANGED <<state, pid, esp, current_proc, next_pid, pit_ticks,
                 in_service, slot, cpu>>
AllocStack ==
  /\ MainRuns("alloc")
  /\ \/ pages = 0 /\ main' = "idle" /\ UNCHANGED pages
     \/ pages > 0 /\ main' = "publish" /\ pages' = pages - 1
  /\ UNCHANGED <<state, pid, esp, current_proc, next_pid, pit_ticks,
                 in_service, slot, cpu>>

(* p->pid = next_pid++; p->state = PROC_READY: the scheduler may take it.  *)
NextPid == next_pid
Publish ==
  /\ MainRuns("publish") /\ main' = "frame"
  /\ pid' = [pid EXCEPT ![slot] = NextPid] /\ next_pid' = next_pid + 1
  /\ state' = [state EXCEPT ![slot] = "READY"]
  /\ UNCHANGED <<esp, current_proc, pages, pit_ticks, in_service, slot, cpu>>

(* The nine words context_switch will pop, then p->esp = sp.               *)
BuildFrame ==
  /\ MainRuns("frame") /\ main' = "idle"
  /\ esp' = [esp EXCEPT ![slot] = "frame"]
  /\ UNCHANGED <<state, pid, current_proc, next_pid, pages, pit_ticks,
                 in_service, slot, cpu>>
-----------------------------------------------------------------------------
(* schedule(): the scan starts one past the current slot and goes round.   *)
Scan_FromZero(i) == (i - 1) % MAX_PROCESSES
Scan(i) == (current_proc + i) % MAX_PROCESSES

ReadyOffsets == {i \in 1 .. MAX_PROCESSES : state[Scan(i)] = "READY"}

Picks(new) ==
  /\ current_proc # NoProc
  /\ \E i \in ReadyOffsets : (\A j \in ReadyOffsets : i <= j) /\ new = Scan(i)
  /\ new # current_proc

(* context_switch stores old's stack pointer and loads new's, whatever it  *)
(* is.                                                                     *)
context_switch(old, new) ==
  /\ esp' = [esp EXCEPT ![old] = "saved"]
  /\ cpu' = IF esp[new] = "unset" THEN "lost" ELSE "ok"

(* old goes back to READY, new runs.                                       *)
Demote_Never(old) == state[old]
Demote(old) == IF state[old] = "RUNNING" THEN "READY" ELSE state[old]
SwitchTo(new) ==
  /\ state' = [state EXCEPT ![current_proc] = Demote(current_proc), ![new] = "RUNNING"]
  /\ current_proc' = new
  /\ context_switch(current_proc, new)

(* EOI goes out before the switch: a process that runs for the first time  *)
(* never comes back to the end of isr_handler.                             *)
Eoi_AfterSwitch(new) == in_service' = IF esp[new] = "saved" THEN 0 ELSE 1
Eoi_BeforeSwitch(new) == in_service' = 0

Tick == (pit_ticks + 1) % TICK_WRAP

(* IRQ0: count the tick; on every SLICE-th, acknowledge and reschedule,    *)
(* otherwise just acknowledge.                                             *)
TimerIrq ==
  /\ cpu = "ok" /\ in_service = 0
  /\ pit_ticks' = Tick
  /\ \/ /\ Tick % SLICE = 0
        /\ \E new \in Slots : Picks(new) /\ SwitchTo(new) /\ Eoi_BeforeSwitch(new)
     \/ /\ Tick % SLICE # 0 \/ ~ \E new \in Slots : Picks(new)
        /\ in_service' = 0
        /\ UNCHANGED <<state, current_proc, esp, cpu>>
  /\ UNCHANGED <<pid, next_pid, pages, main, slot>>

Next ==
  \/ ClearTable \/ FillProc0 \/ SetCurrent
  \/ FindSlot \/ AllocStack \/ Publish \/ BuildFrame
  \/ TimerIrq

Spec == Init /\ [][Next]_vars

(* The PIT interrupts for ever as long as its interrupts are acknowledged. *)
FairSpec == Spec /\ WF_vars(TimerIrq)
-----------------------------------------------------------------------------
(* From process_init on exactly one process is RUNNING and it is           *)
(* current_proc: no interleaving of ticks with process_init or             *)
(* process_create lets the table and current_proc disagree.                *)
OneRunning ==
  current_proc # NoProc => \A s \in Slots : state[s] = "RUNNING" <=> s = current_proc

(* No two processes ever share a pid, preemption inside process_create     *)
(* notwithstanding.                                                        *)
InUse(s) == state[s] # "UNUSED"
PidsUnique ==
  \A s, t \in Slots : InUse(s) /\ InUse(t) /\ s # t => pid[s] # pid[t]

(* Stack pages are neither leaked nor shared: every page gone is the stack *)
(* of one created process, or the one process_create is holding.           *)
PagesAccounted ==
  STACK_PAGES - pages = Cardinality({s \in Slots \ {0} : InUse(s)})
                          + (IF main = "publish" THEN 1 ELSE 0)

(* Round robin: each switch brings the scan strictly nearer to every       *)
(* process that is left waiting, so nobody runs twice while it waits.      *)
Distance(s) == IF s > current_proc THEN s - current_proc
               ELSE s + MAX_PROCESSES - current_proc
RoundRobin ==
  [][\A s \in Slots :
       /\ current_proc # NoProc /\ current_proc' # current_proc
       /\ state[s] = "READY" /\ state'[s] = "READY"
       => Distance(s)' < Distance(s)]_vars

(* No process waits for the CPU for ever, unless one has been entered      *)
(* without a stack.                                                        *)
ReadyRuns == \A s \in Slots : []<>(state[s] # "READY" \/ cpu = "lost")

(* process.c: the initial frame is built because "context_switch does popa *)
(* + sti + ret, so we need" it: no process is entered without one.         *)
FrameBeforeRun == cpu = "ok"
=============================================================================
