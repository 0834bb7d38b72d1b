------------------------------- MODULE Exec -------------------------------
(***************************************************************************)
(* Program execution: execute_command (kernel.c), SYSCALL_EXEC and         *)
(* SYSCALL_EXIT (syscall.c), elf_load_and_exec and elf_return_to_kernel    *)
(* (elf.c) with their setjmp/longjmp stack, TSS.esp0, the global program   *)
(* arguments and the one static FAT32 file handle all programs share.      *)
(*                                                                         *)
(* Every program is linked at 0x200000, so a nested exec overwrites its    *)
(* caller's memory and puts it back when the child exits.                  *)
(*                                                                         *)
(* A memory image is known by the file it was loaded from, the number of   *)
(* 512-byte blocks that really came from it (the rest is left over from an *)
(* earlier use of the load buffer) and the program's own data.  Positions  *)
(* on the kernel stack are distances below 0x1F0000: a larger number is    *)
(* deeper in the stack.                                                    *)
(***************************************************************************)
EXTENDS Naturals

CONSTANTS
  Files,           \* names present in the root directory
  NoFile,          \* stands for a name fat32_open returns NULL for
  FileSize,        \* [Files -> Nat], in blocks
  ElfFiles,        \* files that start with 0x7f 'E' 'L' 'F'
  ValidElf,        \* files elf_validate_header accepts
  BUFFER_SIZE,     \* sizeof(exec_buffer) = sizeof(binary_buffer), in blocks
  MAX_EXEC_DEPTH,
  KERNEL_FRAME,    \* stack used when execute_command reaches elf_load_and_exec
  SYSCALL_FRAME,   \* stack used from the trap to elf_load_and_exec's frame
  KSTACK_SIZE,     \* bound: deepest kernel-stack position followed
  Argv,            \* argument lists a command line may carry
  Data, InitData   \* contents of a program's writable memory; as loaded

ASSUME ExecAssumption ==
  /\ NoFile \notin Files
  /\ FileSize \in [Files -> Nat]
  /\ ValidElf \subseteq ElfFiles /\ ElfFiles \subseteq Files
  /\ BUFFER_SIZE \in Nat \ {0}
  /\ MAX_EXEC_DEPTH \in Nat \ {0}
  /\ KERNEL_FRAME \in Nat \ {0}
  /\ SYSCALL_FRAME \in Nat \ {0}
  /\ KSTACK_SIZE \in Nat
  /\ InitData \in Data

VARIABLES
  mode,            \* "kernel" (shell loop of kernel_main), "user", "halted"
  mem,             \* 0x200000 - 0x301000: program image, writable data, stack
  saved_program,   \* the one static save area of SYSCALL_EXEC
  args,            \* current_program_args
  file,            \* the static fat32_file_t every fat32_open returns
  current_file,    \* syscall.c's pointer: NULL, or that handle
  exec_depth,
  exec_stack,      \* the jmp_bufs, with elf_load_and_exec's local saved_esp0
  tss_esp0,        \* TSS.esp0: where a trap from ring 3 starts pushing
  (* History variables: what the properties compare the state with. *)
  caller,          \* caller[d]: memory and esp0 of the program exec level d
                   \* suspended
  saver,           \* level of the exec that last wrote saved_program
  opened           \* the last FILE_OPEN still in force: its file, its level

ghostVars == <<caller, saver, opened>>
vars == <<mode, mem, saved_program, args, file, current_file, exec_depth,
          exec_stack, tss_esp0, caller, saver, opened>>

Levels  == 0 .. MAX_EXEC_DEPTH - 1
Memory  == [file : Files \cup {NoFile}, blocks : 0 .. BUFFER_SIZE, data : Data]
JmpBuf  == [esp : Nat, saved_esp0 : Nat, by : {"kernel", "syscall"}]
Suspended == [mem : Memory, esp0 : Nat]
Opening == [name : Files \cup {NoFile}, level : 0 .. MAX_EXEC_DEPTH]

TypeOK ==
  /\ mode \in {"kernel", "user", "halted"}
  /\ mem \in Memory /\ saved_program \in Memory
  /\ args \in Argv \cup {NoFile}
  /\ file \in [name : Files \cup {NoFile}, valid : {0, 1}]
  /\ current_file \in {"NULL", "file"}
  /\ exec_depth \in 0 .. MAX_EXEC_DEPTH
  /\ exec_stack \in [Levels -> JmpBuf]
  /\ tss_esp0 \in Nat
  /\ caller \in [Levels -> Suspended]
  /\ saver \in 0 .. MAX_EXEC_DEPTH
  /\ opened \in Opening
-----------------------------------------------------------------------------
BlankMem  == [file |-> NoFile, blocks |-> 0, data |-> InitData]
NoCaller  == [mem |-> BlankMem, esp0 |-> 0]
NotOpened == [name |-> NoFile, level |-> 0]

Init ==
  /\ mode = "kernel"
  /\ mem = BlankMem /\ saved_program = BlankMem
  /\ args = NoFile
  /\ file = [name |-> NoFile, valid |-> 0] /\ current_file = "NULL"
  /\ exec_depth = 0
  /\ exec_stack = [d \in Levels |-> [esp |-> 0, saved_esp0 |-> 0, by |-> "kernel"]]
  /\ tss_esp0 = 0
  /\ caller = [d \in Levels |-> NoCaller]
  /\ saver = MAX_EXEC_DEPTH /\ opened = NotOpened

(* fat32_read of the whole file: the number of blocks it delivers.  When   *)
(* ide_read_sectors fails it returns what it has so far, never an error.   *)
ReadLengths(f) == 0 .. FileSize[f]

(* The PT_LOAD loop copies what f's header says, however much of f the     *)
(* buffer really holds: the size argument is never looked at.              *)
LoadSegments(f, n) == [file |-> f, blocks |-> n, data |-> InitData]

(* fat32_open found f and fat32_close follows on every path: the shared    *)
(* handle now names f and is invalid; current_file is not touched.         *)
OpenAndClose_NeverCloses(f) ==
  /\ file' = [name |-> f, valid |-> 1]
  /\ opened' = NotOpened
  /\ UNCHANGED current_file
OpenAndClose(f) ==
  /\ file' = [name |-> f, valid |-> 0]
  /\ opened' = NotOpened
  /\ UNCHANGED current_file

(* parse_command_line overwrites the global arguments before anything can  *)
(* fail.                                                                   *)
ParseArgs(a) == args' = a

FitsKernel(f)  == FileSize[f] > 0 /\ FileSize[f] <= BUFFER_SIZE
FitsSyscall(f) == FileSize[f] <= BUFFER_SIZE

HasRoom == exec_depth < MAX_EXEC_DEPTH

(* SYSCALL_EXEC's copy of the caller: 1 MB of program and 4 KB of stack.   *)
SaveProgram_ImageOnly ==
  saved_program' = [mem EXCEPT !.data = saved_program.data] /\ saver' = exec_depth
SaveProgram == saved_program' = mem /\ saver' = exec_depth

(* After the longjmp, tss_set_kernel_stack(saved_esp0).                    *)
RestoreTss_Reset(d) == tss_esp0' = 0
RestoreTss_Forgotten(d) == UNCHANGED tss_esp0
RestoreTss(d) == tss_esp0' = exec_stack[d].saved_esp0

(* exec_setjmp keeps the stack position of elf_load_and_exec's frame.      *)
exec_setjmp(d, esp, by) ==
  exec_stack' = [exec_stack EXCEPT ![d] = [esp |-> esp, saved_esp0 |-> esp, by |-> by]]

(* The tail of elf_load_and_exec that succeeds: push a jmp_buf, point      *)
(* TSS.esp0 below this frame, iret to ring 3.                              *)
EnterProgram(esp, by) ==
  /\ HasRoom
  /\ esp <= KSTACK_SIZE
  /\ exec_setjmp(exec_depth, esp, by)
  /\ exec_depth' = exec_depth + 1
  /\ tss_esp0' = esp
  /\ mode' = "user"
-----------------------------------------------------------------------------
(* execute_command, called by kernel_main while no program runs.           *)

(* "Command not found", and "File too large" (which an empty file gets too). *)
KernelExecRefused(f, a) ==
  /\ mode = "kernel"
  /\ ParseArgs(a)
  /\ \/ f = NoFile /\ UNCHANGED <<file, current_file, opened>>
     \/ f \in Files /\ ~FitsKernel(f) /\ OpenAndClose(f)
  /\ UNCHANGED <<mode, mem, saved_program, exec_depth, exec_stack,
                 tss_esp0, caller, saver>>

(* "Failed to read file", "Not an ELF binary", "Failed to execute binary". *)
KernelExecFails(f, a) ==
  /\ mode = "kernel" /\ f \in Files /\ FitsKernel(f)
  /\ ParseArgs(a)
  /\ OpenAndClose(f)
  /\ \E n \in ReadLengths(f) :
       n = 0 \/ f \notin ValidElf
  /\ UNCHANGED <<mode, mem, saved_program, exec_depth, exec_stack, tss_esp0,
                 caller, saver>>

KernelExecRuns(f, a) ==
  /\ mode = "kernel" /\ f \in ValidElf /\ FitsKernel(f)
  /\ ParseArgs(a)
  /\ OpenAndClose(f)
  /\ \E n \in ReadLengths(f) \ {0} :
       mem' = LoadSegments(f, n)
  /\ EnterProgram(KERNEL_FRAME, "kernel")
  /\ UNCHANGED <<saved_program, caller, saver>>
-----------------------------------------------------------------------------
(* SYSCALL_EXEC, called by the running program.                            *)

(* Returns -1 (no such file) or -2 (too large).  The caller's arguments    *)
(* are already gone; its open file survives only the first.                *)
ExecRefused(f, a) ==
  /\ mode = "user"
  /\ ParseArgs(a)
  /\ \/ f = NoFile /\ UNCHANGED <<file, current_file, opened>>
     \/ f \in Files /\ ~FitsSyscall(f) /\ OpenAndClose(f)
  /\ UNCHANGED <<mode, mem, saved_program, exec_depth, exec_stack,
                 tss_esp0, caller, saver>>

(* Returns -3 (nothing read) or -4 (not an ELF binary).                    *)
ExecUnreadable(f, a) ==
  /\ mode = "user" /\ f \in Files /\ FitsSyscall(f)
  /\ ParseArgs(a)
  /\ OpenAndClose(f)
  /\ \E n \in ReadLengths(f) :
       n = 0 \/ f \notin ElfFiles
  /\ UNCHANGED <<mode, mem, saved_program, exec_depth, exec_stack, tss_esp0,
                 caller, saver>>

(* Returns -5: elf_load_and_exec refused the header, or loaded the program *)
(* and then found exec_stack full.  The caller was saved before the call   *)
(* and is put back after it.                                               *)
ExecLoadFails(f, a) ==
  /\ mode = "user" /\ f \in ElfFiles /\ FitsSyscall(f)
  /\ f \notin ValidElf \/ ~HasRoom
  /\ ParseArgs(a)
  /\ OpenAndClose(f)
  /\ ReadLengths(f) # {0}
  /\ SaveProgram
  /\ mem' = saved_program'
  /\ UNCHANGED <<mode, exec_depth, exec_stack, tss_esp0, caller>>

ExecRuns(f, a) ==
  /\ mode = "user" /\ f \in ValidElf /\ FitsSyscall(f)
  /\ ParseArgs(a)
  /\ OpenAndClose(f)
  /\ \E n \in ReadLengths(f) \ {0} :
       mem' = LoadSegments(f, n)
  /\ SaveProgram
  /\ EnterProgram(tss_esp0 + SYSCALL_FRAME, "syscall")
  /\ caller' = [caller EXCEPT ![exec_depth] =
                   [mem |-> mem, esp0 |-> tss_esp0]]

(* exec_longjmp: the call whose frame jmp_buf d keeps goes on from there,  *)
(* back to the kernel shell or to the program that called exec.            *)
exec_longjmp(d) ==
  \/ /\ exec_stack[d].by = "kernel"
     /\ mode' = "kernel"
     /\ UNCHANGED mem
  \/ /\ exec_stack[d].by = "syscall"
     /\ mem' = saved_program
     /\ UNCHANGED mode

(* SYSCALL_EXIT: longjmp to the newest jmp_buf, so elf_load_and_exec       *)
(* returns 0 to execute_command or to SYSCALL_EXEC, which restores the     *)
(* caller from saved_program.                                              *)
Exit ==
  /\ mode = "user" /\ exec_depth > 0
  /\ LET d == exec_depth - 1 IN
       /\ exec_depth' = d
       /\ RestoreTss(d)
       /\ exec_longjmp(d)
  /\ caller' = [caller EXCEPT ![exec_depth - 1] = NoCaller]
  /\ UNCHANGED <<saved_program, args, file, current_file, exec_stack,
                 saver, opened>>
-----------------------------------------------------------------------------
(* The other system calls that touch this state, and the program itself.   *)

FileOpen(f) ==
  /\ mode = "user"
  /\ \/ /\ f = NoFile      \* whatever was open is closed first
        /\ file' = IF current_file = "file" THEN [file EXCEPT !.valid = 0] ELSE file
        /\ current_file' = "NULL" /\ opened' = NotOpened
     \/ /\ f \in Files
        /\ file' = [name |-> f, valid |-> 1]
        /\ current_file' = "file"
        /\ opened' = [name |-> f, level |-> exec_depth]
  /\ UNCHANGED <<mode, mem, saved_program, args, exec_depth,
                 exec_stack, tss_esp0, caller, saver>>

FileClose ==
  /\ mode = "user" /\ current_file = "file"
  /\ file' = [file EXCEPT !.valid = 0]
  /\ current_file' = "NULL" /\ opened' = NotOpened
  /\ UNCHANGED <<mode, mem, saved_program, args, exec_depth,
                 exec_stack, tss_esp0, caller, saver>>

(* The program computes: it may write only its own memory.                 *)
UserWrite(v) ==
  /\ mode = "user" /\ v # mem.data
  /\ mem' = [mem EXCEPT !.data = v]
  /\ UNCHANGED <<mode, saved_program, args, file, current_file,
                 exec_depth, exec_stack, tss_esp0, ghostVars>>

(* Any CPU exception: isr_handler prints a diagnosis and halts for good.   *)
Fault ==
  /\ mode = "user" /\ mode' = "halted"
  /\ UNCHANGED <<mem, saved_program, args, file, current_file,
                 exec_depth, exec_stack, tss_esp0, ghostVars>>

Next ==
  \/ \E f \in Files \cup {NoFile}, a \in Argv :
       \/ KernelExecRefused(f, a) \/ KernelExecFails(f, a) \/ KernelExecRuns(f, a)
       \/ ExecRefused(f, a) \/ ExecUnreadable(f, a)
       \/ ExecLoadFails(f, a) \/ ExecRuns(f, a)
  \/ Exit
  \/ \E f \in Files \cup {NoFile} : FileOpen(f)
  \/ FileClose
  \/ \E v \in Data : UserWrite(v)
  \/ Fault

Spec == Init /\ [][Next]_vars
-----------------------------------------------------------------------------
(* A program just started by execute_command or SYSCALL_EXEC.              *)
Starts  == exec_depth' = exec_depth + 1
(* A child exits and SYSCALL_EXEC resumes its caller.                      *)
Resumes == exec_depth' = exec_depth - 1 /\ mode' = "user"

(* While a program runs, a trap starts pushing at TSS.esp0, so esp0 must   *)
(* lie below every elf_load_and_exec frame a later longjmp will return to, *)
(* and those frames must be stacked in order: entering ring 3 and coming   *)
(* back through any mix of exits and failed execs never lets an interrupt  *)
(* overwrite a suspended caller's kernel frame.  Only level 0 returns to   *)
(* the kernel shell.                                                       *)
FramesProtected ==
  mode = "user" =>
    /\ exec_depth > 0
    /\ \A d \in 0 .. exec_depth - 1 :
         /\ exec_stack[d].esp <= tss_esp0
         /\ exec_stack[d].saved_esp0 = exec_stack[d].esp
         /\ exec_stack[d].by = "kernel" <=> d = 0
    /\ \A d, e \in 0 .. exec_depth - 1 : d < e => exec_stack[d].esp < exec_stack[e].esp

(* FILE_READ reads from the shared handle.                                 *)
Readable == current_file = "file" /\ file.valid = 1

(* What FILE_READ reads is the file the last successful FILE_OPEN named,   *)
(* and the program that opened it is the running one, or one it started    *)
(* that has exited since.  An exec that finds its file goes through the    *)
(* shared static handle and leaves it invalid, so no program ever reads on *)
(* in a file its caller had open, and no caller in the program's own file  *)
(* that exec loaded.  (A caller may read on in what its child left open:   *)
(* HandleIsOwn, below.)                                                    *)
HandleNotInherited ==
  Readable => opened.name = file.name /\ opened.level >= exec_depth

(* When a child exits, SYSCALL_EXEC puts back exactly the memory its       *)
(* caller had, provided no exec deeper in the chain has reused             *)
(* saved_program since it was filled for that caller.                      *)
ExitRestoresCaller ==
  [][Resumes /\ saver = exec_depth - 1 => mem' = caller[exec_depth - 1].mem]_vars

(* elf_load_and_exec sets TSS.esp0 from its own frame on the way back, not *)
(* from what it was before: when a child exits, its caller is left with    *)
(* exactly one SYSCALL_EXEC's worth of kernel stack less than at the call, *)
(* however many programs the child ran and left the same way; and a return *)
(* to the kernel shell gives back all of it.                               *)
ExecCostsOneFrame ==
  [][exec_depth' = exec_depth - 1 =>
       tss_esp0' = IF mode' = "kernel" THEN KERNEL_FRAME
                   ELSE caller[exec_depth - 1].esp0 + SYSCALL_FRAME]_vars

(* An exec that fails gives the caller back the memory it had, also when   *)
(* the new program was already copied over it (nesting limit).             *)
FailedExecHarmless ==
  [][mode = "user" /\ args' # args /\ exec_depth' = exec_depth => mem' = mem]_vars

-----------------------------------------------------------------------------
(* Statements of the code's comments that the code does not keep.          *)

(* syscall.c, SYSCALL_EXEC: the caller's memory is saved "so it can be     *)
(* restored after the new program exits", whatever the new program ran.    *)
CallerMemoryRestored == [][Resumes => mem' = caller[exec_depth - 1].mem]_vars

(* elf.c: on return from a program's exit, "restore TSS kernel stack".     *)
TssRestored == [][Resumes => tss_esp0' = caller[exec_depth - 1].esp0]_vars

(* args.c: current_program_args is the "Global storage for current program *)
(* arguments": as long as the same program runs they stay what it was      *)
(* started with.                                                           *)
ArgsAreCurrent ==
  [][mode = "user" /\ exec_depth' = exec_depth => args' = args]_vars

(* syscall.c, current_file: "Currently open file (only one file at a       *)
(* time)": what a program can read is what it has opened itself.           *)
HandleIsOwn == mode = "user" /\ Readable => opened.level = exec_depth

(* A program starts with every block of its file in memory: elf.h, "Load   *)
(* and execute".                                                           *)
StartsIntact == [][Starts => mem'.blocks = FileSize[mem'.file]]_vars
=============================================================================
