# MagnOS: a TLA+ model of the kernel

MagnOS is a small 32-bit x86 kernel: it boots from a FAT32 disk, runs ELF
programs in ring 3 and serves their system calls. These modules model the parts
of the kernel that keep state, check them with TLC on small instances and prove
the central invariants with TLAPS for all values of the constants. `PROJECT.json`
maps every definition to the source lines it stands for.

## The system and its parts

| Part | Source (`src/`) | Module | Status |
|---|---|---|---|
| nested program execution | `kernel/elf.c`, `syscall.c` (EXEC, EXIT), `kernel.c` (`execute_command`), `setjmp.asm`, `gdt.c` (TSS) | `Exec` | control complete; segments are images |
| keyboard, GETCHAR | `kernel/keyboard.c`, `syscall.c` (GETCHAR) | `Keyboard`, `KeyQueue` | all but controller set-up |
| processes, scheduling | `kernel/process.c`, `switch.asm`, `idt.c` (IRQ0), `kernel.c` (test threads) | `Sched`, `Threads` | complete |
| timer services | `kernel/idt.c` (`sleep_ms`, `get_uptime_ms`) | `Timer` | complete |
| physical pages | `kernel/pmm.c` | `Pmm` | complete |
| kernel heap | `kernel/heap.c` | `Heap`, `Allocator` | complete |
| paging | `kernel/paging.c` | `Paging`, `AddressSpace` | complete |
| FAT32 | `kernel/fat32.c`, file calls of `syscall.c` | `Fat32`; names in `Command` | well-formed disks |
| IDE driver | `kernel/ide.c` | `Ide` | complete |
| text screen | `kernel/vga.c` | `Vga`, `Threads` | all but colours |
| command lines | `kernel/args.c`, `syscall.c` (GET_ARGS), names in `kernel.c` and `fat32.c` | `Command` | complete |
| shells | `userspace/shell.c`, `kernel.c` (fallback shell) | `Console` | complete |
| serial port | `kernel/serial.c` | in `Keyboard`, `Console` | what is received |

How they interact: programs enter the kernel by `int 0x80` with interrupts
re-enabled, so IRQ0 (tick, every tenth one calls `schedule`) and IRQ1 (keyboard)
can strike anywhere in a system call. EXEC opens and reads a file through the one
static FAT32 handle, copies the caller's memory aside, loads the program over it
and enters ring 3; EXIT longjmps back. `Heap`, `Paging` and process stacks all
draw pages from `Pmm`; `Heap` and `Paging` extend `Pmm` and include the others as
an environment that takes (and in `Heap` releases) pages. `Threads` extends
`Sched` with what the scheduled code does; `Console` puts the editors on the
screen of `Vga` and sends the line through `Command`. The read that may fail in
`Fat32` is the outcome of a call in `Ide`.

## The modules

`MCx.tla` with its `.cfg` files instantiates `x` for TLC; `xProofs.tla` holds its
theorems (those of `Pmm` are in `PagingProofs`, those of `Threads` in `SchedProofs`,
those of `Keyboard` and `Timer` in `InterruptProofs`, those of `Vga` and `Command` in
`ConsoleProofs`). `Lists` holds what `Heap` and `Fat32` ask of sequences, `Characters`
the characters the screen and the parsers single out.

**Exec.** Memory at 0x200000 is a record: the file it was loaded from, how many
blocks really came from it, and the program's own data. `exec_stack`,
`exec_depth`, `tss_esp0`, `saved_program`, `current_file`, the static `file` and
the global `args` are as in the code; stack positions are distances below
0x1F0000. One action per outcome of `execute_command` and of SYSCALL_EXEC, and
Exit, FileOpen, FileClose, a user write, and a CPU exception, which halts the
machine for good (hence no deadlock check). Any read of a program's file may end
early with a disk error, as `fat32_read` then reports the bytes it has. History
variables record the memory and `esp0` of the program each level suspended, which
level filled `saved_program`, and which file FILE_OPEN last named, at which level.

**Keyboard.** `translate_scancode` with the keys grouped by how shift and caps
lock act on them, the ring buffer, and the GETCHAR loop statement by statement,
so that the interrupt can come between any two. `hlt` wakes on IRQ0 or IRQ1 only.
`KeyQueue` is the abstract bounded FIFO. Prefixed scancodes are taken as the
driver takes them: 0xE0 is an unknown release.

**Sched.** `process_init` and `process_create` statement by statement against the
tick, which may fire before, between and after. `cpu = "lost"` is a switch to a
process with no stack; the machine does nothing sensible after it (hence no
deadlock check). Processes beyond number 0 exist only when the kernel is built
with `TEST_KERNEL_THREADS 1`; `kernel.c` ships with 0.

**Threads.** `Sched`, and every process running `vga_putchar` one memory access at
a time, as the unoptimised build does, without a lock. What is printed is left
out; the shared cursor is not.

**Timer.** The loop of `sleep_ms` against ticks and keys. A turn of the loop takes
less than a tick, so at most one tick falls between two halts. Its specification is
`TimerSpec` (`TimerFairSpec` with fairness), so that one proof module can hold both
interrupt handlers.

**Pmm.** The bitmap as the set of used pages; `holders` is a ghost count of who
has each page.

**Heap.** `free_list` is the code's sorted list. `Coalesce` is the code's single
pass, block by block. Requests wrap at `WORD`. `Allocator` is what callers are
promised. The kernel calls `heap_init` at boot; `kmalloc`, `kfree` and `pmm_free`
have no callers yet, so what is checked is their interface.

**Paging.** Directory, tables (each in a page from `Pmm`) and the TLB, which keeps
a translation until `invlpg`. A page that was never zeroed holds garbage.
`AddressSpace` is the promise: one translation per page, changed only by a call
that names it. Callers map a page that `pmm_alloc` owns only onto itself and
writable, and never unmap one (`MayMap`, `MayUnmap`): `paging.c` writes its tables
through their physical addresses, and would lose them otherwise. The only caller,
`elf_load_and_exec`, keeps to that. It maps the program area, which `pmm_init`
withholds, and the user stack page 0x300000, which `pmm_init` frees ("Free pages
above the userspace area (0x300000+)"), both onto themselves. So `pmm_alloc` may put
a page table into the user stack page, where user mode can reach it; what a program
would then write there is not modelled. In the kernel as it is, tables come from low
memory at boot. `paging_init` does not test `pmm_alloc`; `PagingAssumption` has
enough pages for it, and at boot thousands are free.

**Fat32.** Each turn of a loop over sectors is a step in which any disk read may
fail. A byte is its place on the disk. What the volume holds is also said without
the code's loops, for the properties to refer to: `Nth` is the n-th cluster of a
chain, `Slots` are the places of the root directory in order, `Live` those with an
entry that the end mark does not hide. `FatAssumption` and `DirAssumption` make the
volume well-formed: the root directory's chain ends, a cluster in use leads to
another or ends its chain, and a file's chain is as long as its size says.

**Ide.** Every read of the status register is a step. The drive accepts a command some
time after it was written (until then the old status shows), moves or fails a sector
at its own pace, may never answer, and goes on when the driver has given up; a new
command then replaces the old one or is ignored. On an empty bus all lines read ones
or zeros. A drive that fails a sector ends the command without asking for data. There
is one drive, and every call selects it. `ide_write_sectors` and `ide_identify` have
no callers yet.

**Vga, Command, Console.** `Vga` is the screen as a record and one operator per
function; `Command` is the parser and the name conversions as operators, beside
reference definitions (`Words`, `Is83`). `Console` is the state machine: keys from
keyboard and serial line, both editors, the built-in commands, started programs
that print and exit. Messages are one line; whether a file that was found can be
run is a free choice (`Exec` says when). What stands above the prompt is
forgotten, as nothing reads it again. A shell started from the user shell is a
program like any other. The assumptions: the buffer fits on the screen without its
last row (64 characters on 24 rows of 80), and a word that fits the buffer fits an
argument (`ConsoleAssumption`); programs print no backspace and no carriage return,
with which one could leave the cursor inside its own output (`OutputsAssumption`, used
for `EchoIsBuffer` alone: the programs of the repository keep to it, a nested shell in
that it blanks what it backs over, but not every file `cat` may print); names in the
directory are padded 8.3 names without a dot (`DirectoryAssumption`); case conversion
leaves spaces and dots alone (`CommandAssumption`).

## What the runs check

| Run | Distinct states | Shows |
|---|---|---|
| `exec` | 367,431 | suspended kernel frames protected; no program reads on in its caller's file; an exit restores the caller's memory unless a deeper exec reused the save area, and costs the caller one kernel frame; a failed exec is harmless |
| `keyboard` | 133,686 | the ring is a FIFO under any interleaving; a pending character is returned; shift never sticks |
| `sched` | 140,482 | one RUNNING process, no lost page, round robin, no starvation; a cursor pushed off the screen by racing threads comes back |
| `timer` | 6,233 | away from the wrap sleeps are exact to a tick; across it they may be short but, but for one target, never too long, and end |
| `heap` | 324,994 | the blocks tile the heap's pages, exact statistics, one seam at most; implements `Allocator`; no page lost or doubled; reserved ranges kept; 0 means full |
| `paging` | 49,301 | TLB coherent; tables exclusive and reachable at their physical addresses; implements `AddressSpace` |
| `fat32` | 8,572 | reads in order, short read means end of file, open finds the first entry, calls return |
| `ide` | 83,926 | when the drive had finished its earlier work, reads deliver what was asked, and a write reported as done is on the disk but for a last sector the drive flagged as failed; `ide_init` succeeds only on a bus it saw not busy (one that reads zeros passes); calls return |
| `console` | 124,614 | the line seen is the line executed; erasing stops at the prompt; arguments are the words; listed names are found |

Three runs each show a statement of a comment or of the repository's README that
the code does not keep (`findings` in `PROJECT.json`):

| Run | The code | says |
|---|---|---|
| `exec_nested` | one `saved_program` for all levels: the outer caller resumes with the wrong memory | the caller "can be restored after the new program exits" |
| `sched_frame` | READY before the stack exists; a tick in between enters it | the frame "we need" |
| `fat32_wrap` | `position + size` wraps and the clip is skipped | "Don't read past end of file" |

More such statements are defined in the modules and fail in the same way. They
are in no run; to see one, put it into the `.cfg` named here as the only
`INVARIANT` or `PROPERTY` (`StartsIntact`, `TssRestored` and `ArgsAreCurrent` are
`PROPERTY`s). The last column names what does hold, where there is something.

| Statement | `.cfg` | What fails | What holds |
|---|---|---|---|
| `TssRestored` | MCExec | elf.c:126 "restore TSS kernel stack": esp0 stays at the finished exec's frame, so each exec leaves the kernel stack deeper | `FramesProtected`, `ExecCostsOneFrame` |
| `ArgsAreCurrent` | MCExec | any exec, even a failed one, replaces the caller's arguments | |
| `HandleIsOwn` | MCExec | syscall.c:20 "Currently open file": a caller reads on in what its child left open | `HandleNotInherited` |
| `StartsIntact` | MCExec | elf.h:75 "Load and execute an ELF binary": a file cut short by a disk error is run | |
| `ShiftTracksKeys` | MCKeyboard | releasing one of two shift keys | `ShiftNeverSticks` |
| `KernelStackNotHeld`, `UserStackNotHeld` | MCHeap | both stack pages are free for allocation | `ReservedNeverHeld` |
| `Coalesced` | MCHeap | freeing between two free blocks leaves a seam | `OneSeam` |
| `BigEnough` | MCHeap, `Requests = {2, 127}` (`WORD - 1`) | rounding wraps to a minimal block | `ImplementsAllocator` up to `WORD - ALIGN` |
| `SleepsAsked` | MCTimer | the target wraps and the sleep takes no time | `SleepAccurate`, `SleepBounded` |
| `UptimeIsElapsed` | MCTimer | milliseconds wrap ten times before ticks do | |
| `ReadIsAsked` | MCIde | ide.h:42 "Read sectors from disk": after a timed-out call, the late answer is taken for the next call's | `ReadDelivers` |
| `WriteComplete` | MCIde | ide.c:152 "Wait for completion": an error on the last sector is not looked at | `WriteReported` |
| `FindsEveryName` | MCConsole | kernel.c:35 "FAT32 8.3 filename": a full name has 12 characters with its dot, 11 are kept | `FindsListedName` |
| `EchoWithTabs` | MCConsole | shell.c:33 "remove character": a tab is erased as one column | `EchoIsBuffer`, `PromptSurvives` |
| `RowBounded` | MCThreads, `MAX_OVER = 5`, `HEIGHT = 1` | a thread stores back a row it loaded beyond the screen, one higher each time | `OffScreenIsRepaired`, `RowRecovers` |
| `CallReturns` | MCFat32, with `5 :> 2` in `MCFat`, no end marker, and without the last line of `FatAssumption`, which excludes this | a directory chain that loops is scanned for ever | the same on well-formed chains |

**Bounds.** Exec: three levels are the least at which one save area serves two callers
above a third; files of every kind the code tells apart; KSTACK_SIZE leaves room for
one level more than the limit. Keyboard: a ring of 3 slots wraps and fills; one letter
and both shift keys; two bytes in the UART, so a NUL can hide another. Sched: 4 slots
and 2 spare pages, so `process_create` runs out of pages; a full table, where it
returns -1 and changes nothing, is not reached with 2 pages (the proofs cover any
number of either); 3 is prime to the slice of 2, so the tick counter wraps inside a
slice. Threads: a screen of two rows and one column, so every character wraps and
every second one scrolls, and one row or column beyond it (`MAX_OVER`). Heap: pages of
8 units with header, minimum and alignment of 2 split, merge, span pages and run out.
Paging: three identity tables and one range beyond memory, with two pages in it; a
page of the program area; and the user stack page, which is the first that `pmm_alloc`
gives out after boot, so that a table lands in it. Fat32: files end inside and at the
end of a cluster; the directory spans clusters. Timer: a 16-tick counter wraps while
asleep. Ide: two polls per wait, so a drive answers at once, at the last poll or too
late; two sectors of three. Console: a screen of 4 by 3 on which a line of 5
characters wraps and scrolls; names of two characters and an extension of one; one
argument; at most one tab per line (`MAX_TABS`), since each makes another alignment;
up to three lines printed before the shell starts (`MAX_BOOT_LINES`). On the real
screen of 80 columns a line of 63 characters behind the prompt wraps only with tabs;
the small screen covers that too.

**Fairness.** The CPU goes on executing kernel code (weak fairness of the loop
steps) and the PIT goes on interrupting as long as its interrupts are acknowledged
(weak fairness of the tick). Nobody must type, send or call, and the drive owes
nothing. In `Threads` a slice is long enough for the process that has it to execute
an access (strong fairness of each process, whose step is disabled while another
runs). `ReadyRuns` and `RowRecovers` assume that no process has been entered without
a stack; `SleepReturns` excludes the one target, the last tick before the wrap, that
can be missed.

## What is proved

All theorems hold for every value of the constants that satisfies the named
assumptions of the modules; TLC evaluates these on every run.

- `ExecProofs`: types, `FramesProtected`, `HandleNotInherited`, and the action
  properties `ExitRestoresCaller`, `FailedExecHarmless` and `ExecCostsOneFrame`, for
  any nesting limit, frame sizes and files. The inductive invariant adds that the
  depth matches the mode; that, while `saver` is a live level, `saved_program` is what
  its caller had; and that the `saved_esp0` of each open `elf_load_and_exec`, which an
  exit puts into TSS.esp0, lies one frame below the `esp0` its caller trapped with.
- `InterruptProofs`: for `Keyboard`, types, `ShiftNeverSticks`, and that the ring
  refines `KeyQueue`, for any size of at least 2. The invariant ties the reader's
  loaded character to the slot at the tail, which the handler never overwrites. For
  `Timer`, types, `SleepAccurate` and `SleepBounded`, for any word and tick length. The
  second needs `WrapProgress`, for a sleep whose target has wrapped: either the loop
  has not tested yet and the counter has not wrapped, so the first test ends the sleep;
  or the counter wrapped before that test, and the sleep goes on like any other.
- `SchedProofs`: types, `OneRunning`, `PidsUnique`, `PagesAccounted`,
  `RoundRobin`. The invariant says what the table looks like at each statement of
  `process_init` and `process_create`, and that pids are below `next_pid`.
  For `Threads`: every behaviour of it is one of `Sched` (`ThreadsImplementSched`),
  so those invariants hold of the threads too; and `OffScreenIsRepaired`, for any
  number of processes, any screen and any schedule.
- `PagingProofs`: for `Pmm`, types, `HeldOnce`, `ReservedNeverHeld` and
  `ZeroMeansFull`; for `Paging`, `TlbCoherent`, `TablesExclusive`, `TablesReachable`
  and, step by step, the refinement of `AddressSpace`, for any table sizes and layout
  that satisfy `PagingAssumption`, whichever pages callers map. The invariant says
  that the directory and the tables are distinct pages `pmm_alloc` gave out, that a
  user page lies under a user directory entry (so setting PAGE_USER there changes no
  cached translation), and that the pages `pmm_alloc` owns stay mapped onto
  themselves, writable, whether or not a caller has opened one to user mode.
- `HeapProofs`: `NoOverlap`, `StatsExact`, `OneSeam`, `HeldOnce`,
  `ReservedNeverHeld`, `ZeroMeansFull`, and the refinement of `Allocator`, for any
  page, header, minimum and alignment sizes and any memory layout. Each operator has
  a lemma that says which units of memory its list covers and which neighbours
  touch: `list_insert` puts a block where it fits and makes at most two new seams;
  a seam that the pass of `coalesce_forward` leaves lies behind a block it made from
  two, so two seams left need four in the list, and one old and two new are three
  (why `OneSeam` holds although `Coalesced` does not); the split covers what it did
  less the block handed out; `heap_add_page` adds the units of one page. The
  invariant `HeapInv` says that a unit is in one block, free or in use, exactly when
  its page is one that the heap holds, and that `heap_pages` counts those pages;
  `StatsExact` follows by counting units. The refinement assumes `NoWrap`: rounding
  a request up does not pass 2^32 (`BigEnough`, above, is what happens otherwise).
- `Fat32Proofs`: `ReadsInOrder` and `OpenFindsFirst` for any well-formed volume; and
  `ShortReadIsEof` and `NotPastEnd` when `position + size` stays below 2^32
  (`NoWrap`; the run `fat32_wrap` shows what happens otherwise). The invariant
  relates the loop's cluster, sector and byte counts to `position`, and what was
  copied to the bytes `Nth` names.
- `IdeProofs`: types, `ReadDelivers`, `WriteReported`, `InitSound`, for any disk,
  count and number of polls. The invariant relates the driver's sector count to the
  drive's while the drive works on the driver's command.
- `ConsoleProofs`: `EchoIsBuffer`, `PromptSurvives`, `ArgsAreWords` and
  `FindsListedName`, for any screen, prompt, outputs, directory and lengths that satisfy
  the assumptions. The screen: `NewRowMoves` to `PutsShows` say where `vga_putchar` and
  `vga_puts` leave the cursor, which cells they write, and that text on the screen moves
  up with `up` when it scrolls. The invariant adds to the two properties the type of
  the state, that everything behind the cursor is blank whether or not a tab was typed
  (what a new line needs to start from), and that the cursor stands at least as far
  behind the prompt as the buffer is long, which is why a backspace, guarded by
  the buffer's length, cannot reach the prompt even over tabs. The command line:
  `Words` is defined by where words start and end, without a scan. `ScansWords` shows by
  induction on the argument number that the k-th turn of `parse_command_line`'s loop
  stands at the end of the (k+1)-th word; counting turns gives `ParsesArgs`. For names,
  `NamedIsSearched` and `SearchedIsNamed` show that `fat32_name_to_string` and
  `fat32_string_to_name` are inverse to each other on padded entries and on names
  that `Is83` accepts, so the entry found is the one listed under that name.

`ConsoleProofs`, `Fat32Proofs` and `HeapProofs` need induction over a string, a chain, a
list or a finite set.
They get it from the well-foundedness of the natural numbers: `LowestExists` and,
from it, `Induction`, for a set of numbers instead of a predicate. The same argument
shows that the recursive functions of the model exist.

Every invariant and action property of a passing run is stated by a theorem. Only
model-checked: liveness (`CallReturns`, `SleepReturns`, `ReadyRuns`, `RowRecovers` and the
others under fairness) and ENABLED, which are beyond this prover.

## Not modelled

- Boot (`boot.asm`, `kernel_entry.asm`) and the set-up of descriptor tables, PIC, PIT,
  keyboard controller and UART: straight-line code that writes constants to ports
  and tables once, before anything runs that could observe it half done.
- Serial output: `serial_putchar` waits for the UART and has no other state.
- Colours and the wording and length of messages: no control depends on them.
- ELF bytes: which header fields are accepted is a property of files (`ValidElf`).
- The other user programs (`ls`, `cat`, `free`, ...): short sequences of system calls
  without state of their own, covered by programs that make any calls.
- MEMINFO, HEAP_STATS and GETPID only report; what HEAP_STATS reports is `StatsExact`.

## Running

    tlc -workers 2 -config MCExec.cfg MCExec
    tlapm ExecProofs.tla
