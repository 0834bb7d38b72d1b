---------------------------- MODULE ExecProofs ----------------------------
(* Proofs about Exec, for every set of files, nesting limit, frame size    *)
(* and stack bound.                                                        *)
EXTENDS Exec, TLAPS

(* The kernel shell loop runs exactly when no program is loaded.           *)
DepthMatchesMode == mode = "kernel" <=> exec_depth = 0

(* What is known of every suspended caller: it is the one saved_program    *)
(* holds if its level was the last to save.                                *)
CallersKnown ==
  \A d \in 1 .. exec_depth - 1 : saver = d => saved_program = caller[d].mem

(* The saved_esp0 of every elf_load_and_exec call that is still open lies  *)
(* one frame below the stack position of the program that called it.       *)
StackCharged ==
  /\ exec_depth > 0 => exec_stack[0].saved_esp0 = KERNEL_FRAME
  /\ \A d \in 1 .. exec_depth - 1 :
       exec_stack[d].saved_esp0 = caller[d].esp0 + SYSCALL_FRAME

IInv ==
  /\ TypeOK /\ DepthMatchesMode /\ CallersKnown /\ StackCharged
  /\ FramesProtected /\ HandleNotInherited

LEMMA InitIInv == Init => IInv
BY ExecAssumption, SMTT(30) DEF Init, IInv, TypeOK, DepthMatchesMode, CallersKnown,
   StackCharged, FramesProtected, HandleNotInherited, Readable, BlankMem,
   NoCaller, NotOpened, Levels, Memory, JmpBuf, Suspended, Opening

(* Every step keeps the types.                                             *)
LEMMA TypeStep == TypeOK /\ DepthMatchesMode /\ [Next]_vars => TypeOK'
<1> SUFFICES ASSUME TypeOK, DepthMatchesMode, [Next]_vars PROVE TypeOK'
  OBVIOUS
<1> USE ExecAssumption DEF TypeOK
<1>0. NotOpened \in Opening
  BY DEF NotOpened, Opening
<1>1. ASSUME NEW f \in Files \cup {NoFile}, NEW a \in Argv, KernelExecRefused(f, a)
      PROVE  TypeOK'
  <2>1. file' \in [name : Files \cup {NoFile}, valid : {0, 1}]
        /\ current_file' \in {"NULL", "file"} /\ opened' \in Opening
    BY <1>0, <1>1 DEF KernelExecRefused, OpenAndClose
  <2> QED
    BY <1>1, <2>1 DEF KernelExecRefused, ParseArgs
<1>2. ASSUME NEW f \in Files \cup {NoFile}, NEW a \in Argv, KernelExecFails(f, a)
      PROVE  TypeOK'
  BY <1>0, <1>2 DEF KernelExecFails, OpenAndClose, ParseArgs
<1>3. ASSUME NEW f \in Files \cup {NoFile}, NEW a \in Argv, KernelExecRuns(f, a)
      PROVE  TypeOK'
  <2>1. f \in Files
    BY <1>3 DEF KernelExecRuns
  <2>2. mem' \in Memory
    BY <1>3, <2>1 DEF KernelExecRuns, ReadLengths, LoadSegments, FitsKernel, Memory
  <2>3. exec_depth' \in 0 .. MAX_EXEC_DEPTH /\ exec_stack' \in [Levels -> JmpBuf]
        /\ tss_esp0' \in Nat /\ mode' = "user"
    <3>1. exec_depth \in Levels /\ exec_depth + 1 \in 0 .. MAX_EXEC_DEPTH
      BY <1>3 DEF KernelExecRuns, EnterProgram, exec_setjmp, HasRoom, Levels
    <3>2. KERNEL_FRAME \in Nat
      OBVIOUS
    <3>3. exec_stack' \in [Levels -> JmpBuf]
      BY <1>3, <3>1, <3>2 DEF KernelExecRuns, EnterProgram, exec_setjmp, JmpBuf
    <3> QED
      BY <1>3, <2>1, <3>1, <3>2, <3>3 DEF KernelExecRuns, EnterProgram, exec_setjmp
  <2> QED
    BY <1>0, <1>3, <2>1, <2>2, <2>3 DEF KernelExecRuns, OpenAndClose, ParseArgs
<1>4. ASSUME NEW f \in Files \cup {NoFile}, NEW a \in Argv, ExecRefused(f, a)
      PROVE  TypeOK'
  <2>1. file' \in [name : Files \cup {NoFile}, valid : {0, 1}]
        /\ current_file' \in {"NULL", "file"} /\ opened' \in Opening
    BY <1>0, <1>4 DEF ExecRefused, OpenAndClose
  <2> QED
    BY <1>4, <2>1 DEF ExecRefused, ParseArgs
<1>5. ASSUME NEW f \in Files \cup {NoFile}, NEW a \in Argv, ExecUnreadable(f, a)
      PROVE  TypeOK'
  BY <1>0, <1>5 DEF ExecUnreadable, OpenAndClose, ParseArgs
<1>6. ASSUME NEW f \in Files \cup {NoFile}, NEW a \in Argv, ExecLoadFails(f, a)
      PROVE  TypeOK'
  BY <1>0, <1>6 DEF ExecLoadFails, OpenAndClose, ParseArgs, SaveProgram
<1>7. ASSUME NEW f \in Files \cup {NoFile}, NEW a \in Argv, ExecRuns(f, a)
      PROVE  TypeOK'
  <2>1. f \in Files
    BY <1>7 DEF ExecRuns
  <2>2. mem' \in Memory
    BY <1>7, <2>1 DEF ExecRuns, ReadLengths, LoadSegments, FitsSyscall, Memory
  <2>3. exec_depth' \in 0 .. MAX_EXEC_DEPTH /\ exec_stack' \in [Levels -> JmpBuf]
        /\ tss_esp0' \in Nat /\ mode' = "user"
    <3>1. exec_depth \in Levels /\ exec_depth + 1 \in 0 .. MAX_EXEC_DEPTH
      BY <1>7, SMTT(30) DEF ExecRuns, EnterProgram, exec_setjmp, HasRoom, Levels
    <3>2. tss_esp0 + SYSCALL_FRAME \in Nat
      OBVIOUS
    <3>3. exec_stack' \in [Levels -> JmpBuf]
      BY <1>7, <3>1, <3>2 DEF ExecRuns, EnterProgram, exec_setjmp, JmpBuf
    <3> QED
      BY <1>7, <2>1, <3>1, <3>2, <3>3 DEF ExecRuns, EnterProgram, exec_setjmp
  <2>4. caller' \in [Levels -> Suspended] /\ saver' \in 0 .. MAX_EXEC_DEPTH
    BY <1>7, Zenon DEF ExecRuns, SaveProgram, Suspended
  <2> QED
    BY <1>0, <1>7, <2>1, <2>2, <2>3, <2>4 DEF ExecRuns, OpenAndClose, ParseArgs, SaveProgram
<1>8. CASE Exit
  <2> exec_depth - 1 \in Levels
    BY <1>8 DEF Exit, exec_longjmp, Levels
  <2>1. NoCaller \in Suspended
    BY DEF NoCaller, BlankMem, Suspended, Memory
  <2>2. mem' \in Memory /\ mode' \in {"kernel", "user", "halted"}
    BY <1>8, <2>1 DEF Exit, exec_longjmp, Suspended
  <2>3. tss_esp0' \in Nat /\ exec_depth' \in 0 .. MAX_EXEC_DEPTH
    BY <1>8 DEF Exit, exec_longjmp, RestoreTss, JmpBuf
  <2> QED
    BY <1>8, <2>1, <2>2, <2>3 DEF Exit, exec_longjmp
<1>9. ASSUME NEW f \in Files \cup {NoFile}, FileOpen(f) PROVE TypeOK'
  BY <1>9, <1>0 DEF FileOpen, Opening
<1>10. CASE FileClose
  BY <1>10, <1>0 DEF FileClose
<1>11. ASSUME NEW v \in Data, UserWrite(v) PROVE TypeOK'
  BY <1>11 DEF UserWrite, ghostVars, Memory
<1>12. CASE Fault
  BY <1>12 DEF Fault, ghostVars
<1>13. CASE UNCHANGED vars
  BY <1>13 DEF vars
<1> QED
  BY <1>1, <1>2, <1>3, <1>4, <1>5, <1>6, <1>7, <1>8, <1>9, <1>10, <1>11,
     <1>12, <1>13 DEF Next

(* Entering a program pushes one frame below all the others.               *)
LEMMA EnterFrames ==
  ASSUME TypeOK, FramesProtected, DepthMatchesMode,
         NEW esp \in Nat, NEW by \in {"kernel", "syscall"},
         EnterProgram(esp, by),
         by = "kernel" <=> mode = "kernel",
         mode = "user" => esp > tss_esp0, mode # "halted"
  PROVE  FramesProtected' /\ DepthMatchesMode'
<1> USE ExecAssumption DEF TypeOK, EnterProgram, exec_setjmp, HasRoom, Levels, JmpBuf
<1>1. exec_depth \in Levels /\ exec_depth' = exec_depth + 1 /\ mode' = "user"
  OBVIOUS
<1>2. /\ exec_stack'[exec_depth] = [esp |-> esp, saved_esp0 |-> esp, by |-> by]
      /\ \A d \in 0 .. exec_depth - 1 : exec_stack'[d] = exec_stack[d]
  BY <1>1
<1>3. CASE mode = "kernel"
  BY <1>1, <1>2, <1>3 DEF FramesProtected, DepthMatchesMode
<1>4. CASE mode = "user"
  <2>1. \A d \in 0 .. exec_depth - 1 : exec_stack[d].esp \in Nat /\ exec_stack[d].esp < esp
    BY <1>4 DEF FramesProtected
  <2> QED
    BY <1>1, <1>2, <1>4, <2>1 DEF FramesProtected, DepthMatchesMode
<1> QED
  BY <1>3, <1>4

(* FramesProtected is preserved with the depth/mode correspondence: the    *)
(* frames change only when a program is entered or left.                   *)
LEMMA FramesStep ==
  TypeOK /\ DepthMatchesMode /\ FramesProtected /\ [Next]_vars
    => FramesProtected' /\ DepthMatchesMode'
<1> SUFFICES ASSUME TypeOK, DepthMatchesMode, FramesProtected, [Next]_vars
             PROVE  FramesProtected' /\ DepthMatchesMode'
  OBVIOUS
<1>0. ASSUME mode' = mode, exec_depth' = exec_depth, exec_stack' = exec_stack,
             tss_esp0' = tss_esp0
      PROVE  FramesProtected' /\ DepthMatchesMode'
  BY <1>0 DEF FramesProtected, DepthMatchesMode
<1>1. ASSUME NEW f \in Files \cup {NoFile}, NEW a \in Argv, KernelExecRuns(f, a)
      PROVE  FramesProtected' /\ DepthMatchesMode'
  <2>1. EnterProgram(KERNEL_FRAME, "kernel") /\ mode = "kernel"
    BY <1>1 DEF KernelExecRuns
  <2> QED
    BY <2>1, EnterFrames, ExecAssumption
<1>2. ASSUME NEW f \in Files \cup {NoFile}, NEW a \in Argv, ExecRuns(f, a)
      PROVE  FramesProtected' /\ DepthMatchesMode'
  <2>1. EnterProgram(tss_esp0 + SYSCALL_FRAME, "syscall") /\ mode = "user"
    BY <1>2 DEF ExecRuns
  <2>2. tss_esp0 + SYSCALL_FRAME \in Nat /\ tss_esp0 + SYSCALL_FRAME > tss_esp0
    BY ExecAssumption DEF TypeOK
  <2> QED
    BY <2>1, <2>2, EnterFrames
<1>3. CASE Exit
  <2> DEFINE d == exec_depth - 1
  <2>1. d \in Levels /\ exec_depth' = d /\ exec_stack' = exec_stack
        /\ tss_esp0' = exec_stack[d].saved_esp0 /\ mode = "user"
    BY <1>3, ExecAssumption DEF Exit, exec_longjmp, RestoreTss, TypeOK, Levels
  <2>2. CASE exec_stack[d].by = "kernel"
    <3>1. mode' = "kernel"
      BY <1>3, <2>2 DEF Exit, exec_longjmp
    <3>2. d \in 0 .. exec_depth - 1
      BY <2>1, ExecAssumption DEF Levels, TypeOK
    <3>3. d = 0
      BY <2>1, <2>2, <3>2, Zenon DEF FramesProtected
    <3> QED
      BY <2>1, <3>1, <3>3 DEF FramesProtected, DepthMatchesMode
  <2>3. CASE exec_stack[d].by = "syscall"
    <3>1. mode' = "user" /\ d # 0
      BY <1>3, <2>1, <2>3 DEF Exit, exec_longjmp, FramesProtected, Levels
    <3>2. \A e \in 0 .. d - 1 : exec_stack[e].esp <= exec_stack[d].saved_esp0
      BY <2>1, ExecAssumption DEF FramesProtected, Levels, TypeOK, JmpBuf
    <3> QED
      BY <2>1, <3>1, <3>2, ExecAssumption DEF FramesProtected, DepthMatchesMode, Levels, TypeOK
  <2> QED
    BY <1>3, <2>2, <2>3 DEF Exit, exec_longjmp
<1>4. CASE Fault
  BY <1>4 DEF Fault, FramesProtected, DepthMatchesMode
<1>5. CASE FileClose \/ UNCHANGED vars
  BY <1>0, <1>5 DEF FileClose, vars
<1>6. ASSUME NEW f \in Files \cup {NoFile}, NEW a \in Argv,
             \/ KernelExecRefused(f, a) \/ KernelExecFails(f, a) \/ ExecRefused(f, a)
             \/ ExecUnreadable(f, a) \/ ExecLoadFails(f, a)
      PROVE  FramesProtected' /\ DepthMatchesMode'
  BY <1>0, <1>6 DEF KernelExecRefused, KernelExecFails, ExecRefused,
     ExecUnreadable, ExecLoadFails
<1>7. ASSUME NEW v \in Data, UserWrite(v)
      PROVE  FramesProtected' /\ DepthMatchesMode'
  BY <1>0, <1>7 DEF UserWrite
<1>8. ASSUME NEW f \in Files \cup {NoFile}, FileOpen(f)
      PROVE  FramesProtected' /\ DepthMatchesMode'
  BY <1>0, <1>8 DEF FileOpen
<1> QED
  BY <1>1, <1>2, <1>3, <1>4, <1>5, <1>6, <1>7, <1>8 DEF Next

(* saved_program belongs to the level that last wrote it.                  *)
LEMMA CallersStep ==
  TypeOK /\ DepthMatchesMode /\ CallersKnown /\ [Next]_vars => CallersKnown'
<1> SUFFICES ASSUME TypeOK, DepthMatchesMode, CallersKnown, [Next]_vars
             PROVE  CallersKnown'
  OBVIOUS
<1> USE ExecAssumption
<1>0. ASSUME exec_depth' = exec_depth, caller' = caller, saver' = saver,
             saved_program' = saved_program
      PROVE  CallersKnown'
  BY <1>0 DEF CallersKnown
<1>1. ASSUME NEW f \in Files \cup {NoFile}, NEW a \in Argv, KernelExecRuns(f, a)
      PROVE  CallersKnown'
  <2>1. exec_depth' = 1
    BY <1>1 DEF KernelExecRuns, EnterProgram, exec_setjmp, DepthMatchesMode
  <2> QED
    BY <2>1 DEF CallersKnown
<1>2. ASSUME NEW f \in Files \cup {NoFile}, NEW a \in Argv, ExecRuns(f, a)
      PROVE  CallersKnown'
  <2>1. /\ exec_depth' = exec_depth + 1 /\ exec_depth \in Levels
        /\ saved_program' = mem /\ saver' = exec_depth
    BY <1>2 DEF ExecRuns, EnterProgram, exec_setjmp, SaveProgram, HasRoom, TypeOK, Levels
  <2>2. /\ caller'[exec_depth].mem = mem
        /\ \A d \in 1 .. exec_depth - 1 : caller'[d] = caller[d]
    <3>1. caller' = [caller EXCEPT ![exec_depth] = [mem |-> mem, esp0 |-> tss_esp0]]
      BY <1>2 DEF ExecRuns
    <3> QED
      BY <2>1, <3>1 DEF TypeOK, Levels
  <2>3. \A d \in 1 .. exec_depth : d = exec_depth \/ d \in 1 .. exec_depth - 1
    BY DEF TypeOK
  <2> QED
    BY <2>1, <2>2, <2>3 DEF CallersKnown, TypeOK
<1>3. ASSUME NEW f \in Files \cup {NoFile}, NEW a \in Argv, ExecLoadFails(f, a)
      PROVE  CallersKnown'
  BY <1>3 DEF ExecLoadFails, SaveProgram, CallersKnown, TypeOK
<1>4. CASE Exit
  <2>1. /\ exec_depth' = exec_depth - 1
        /\ \A d \in 1 .. exec_depth - 2 : caller'[d] = caller[d]
        /\ saver' = saver /\ saved_program' = saved_program
    BY <1>4 DEF Exit, exec_longjmp, TypeOK, Levels
  <2> QED
    BY <2>1 DEF CallersKnown, TypeOK
<1>5. CASE FileClose \/ Fault \/ UNCHANGED vars
  BY <1>0, <1>5 DEF FileClose, Fault, ghostVars, vars
<1>6. ASSUME NEW f \in Files \cup {NoFile}, NEW a \in Argv,
             \/ KernelExecRefused(f, a) \/ KernelExecFails(f, a)
             \/ ExecRefused(f, a) \/ ExecUnreadable(f, a)
      PROVE  CallersKnown'
  BY <1>0, <1>6 DEF KernelExecRefused, KernelExecFails, ExecRefused, ExecUnreadable
<1>7. ASSUME NEW v \in Data, UserWrite(v) PROVE CallersKnown'
  BY <1>0, <1>7 DEF UserWrite, ghostVars
<1>8. ASSUME NEW f \in Files \cup {NoFile}, FileOpen(f) PROVE CallersKnown'
  BY <1>0, <1>8 DEF FileOpen
<1> QED
  BY <1>1, <1>2, <1>3, <1>4, <1>5, <1>6, <1>7, <1>8 DEF Next

(* Entering a program charges its caller one frame, leaving it uncovers    *)
(* what the caller's own caller was charged.                               *)
LEMMA ChargedStep ==
  TypeOK /\ DepthMatchesMode /\ StackCharged /\ [Next]_vars => StackCharged'
<1> SUFFICES ASSUME TypeOK, DepthMatchesMode, StackCharged, [Next]_vars
             PROVE  StackCharged'
  OBVIOUS
<1> USE ExecAssumption
<1>0. ASSUME exec_depth' = exec_depth, caller' = caller, exec_stack' = exec_stack
      PROVE  StackCharged'
  BY <1>0 DEF StackCharged
<1>1. ASSUME NEW f \in Files \cup {NoFile}, NEW a \in Argv, KernelExecRuns(f, a)
      PROVE  StackCharged'
  <2>1. exec_depth = 0 /\ exec_depth' = 1
    BY <1>1 DEF KernelExecRuns, EnterProgram, DepthMatchesMode
  <2>2. exec_stack'[0].saved_esp0 = KERNEL_FRAME
    BY <1>1, <2>1 DEF KernelExecRuns, EnterProgram, exec_setjmp, TypeOK, Levels
  <2> QED
    BY <2>1, <2>2 DEF StackCharged
<1>2. ASSUME NEW f \in Files \cup {NoFile}, NEW a \in Argv, ExecRuns(f, a)
      PROVE  StackCharged'
  <2>1. exec_depth' = exec_depth + 1 /\ exec_depth \in Levels /\ exec_depth # 0
    BY <1>2 DEF ExecRuns, EnterProgram, HasRoom, TypeOK, Levels, DepthMatchesMode
  <2>2. /\ caller'[exec_depth].esp0 = tss_esp0
        /\ \A d \in Levels \ {exec_depth} : caller'[d] = caller[d]
    BY <1>2, <2>1 DEF ExecRuns, TypeOK
  <2>3. /\ exec_stack'[exec_depth].saved_esp0 = tss_esp0 + SYSCALL_FRAME
        /\ \A d \in Levels \ {exec_depth} : exec_stack'[d] = exec_stack[d]
    BY <1>2, <2>1 DEF ExecRuns, EnterProgram, exec_setjmp, TypeOK
  <2>4. ASSUME NEW d \in 1 .. exec_depth
        PROVE  exec_stack'[d].saved_esp0 = caller'[d].esp0 + SYSCALL_FRAME
    <3>1. CASE d = exec_depth
      BY <2>2, <2>3, <3>1
    <3>2. CASE d # exec_depth
      <4>1. d \in 1 .. exec_depth - 1 /\ d \in Levels \ {exec_depth}
        BY <2>1, <3>2 DEF Levels
      <4> QED
        BY <2>2, <2>3, <4>1 DEF StackCharged
    <3> QED
      BY <3>1, <3>2
  <2>5. exec_stack'[0].saved_esp0 = KERNEL_FRAME
    <3>1. 0 \in Levels \ {exec_depth} /\ exec_depth > 0
      BY <2>1 DEF Levels
    <3> QED
      BY <2>3, <3>1 DEF StackCharged
  <2>6. exec_depth' - 1 = exec_depth
    BY <2>1 DEF Levels
  <2> QED
    BY <2>4, <2>5, <2>6 DEF StackCharged
<1>3. CASE Exit
  <2>1. exec_depth \in Nat /\ exec_depth' = exec_depth - 1 /\ exec_stack' = exec_stack
    BY <1>3 DEF Exit, TypeOK
  <2>2. ASSUME NEW d \in 1 .. exec_depth' - 1
        PROVE  d \in 1 .. exec_depth - 1 /\ caller'[d] = caller[d]
    BY <1>3, <2>1 DEF Exit, TypeOK, Levels
  <2>3. exec_depth' > 0 => exec_depth > 0
    BY <2>1
  <2> QED
    BY <2>1, <2>2, <2>3 DEF StackCharged
<1>4. CASE FileClose \/ Fault \/ UNCHANGED vars
  BY <1>0, <1>4 DEF FileClose, Fault, ghostVars, vars
<1>5. ASSUME NEW f \in Files \cup {NoFile}, NEW a \in Argv,
             \/ KernelExecRefused(f, a) \/ KernelExecFails(f, a) \/ ExecRefused(f, a)
             \/ ExecUnreadable(f, a) \/ ExecLoadFails(f, a)
      PROVE  StackCharged'
  BY <1>0, <1>5 DEF KernelExecRefused, KernelExecFails, ExecRefused,
     ExecUnreadable, ExecLoadFails
<1>6. ASSUME NEW v \in Data, UserWrite(v) PROVE StackCharged'
  BY <1>0, <1>6 DEF UserWrite, ghostVars
<1>7. ASSUME NEW f \in Files \cup {NoFile}, FileOpen(f) PROVE StackCharged'
  BY <1>0, <1>7, Zenon DEF FileOpen
<1> QED
  BY <1>1, <1>2, <1>3, <1>4, <1>5, <1>6, <1>7 DEF Next

(* The shared file handle: an exec that finds its file invalidates it, an  *)
(* exit only lowers the level it is read at.                               *)
LEMMA HandleStep ==
  TypeOK /\ HandleNotInherited /\ [Next]_vars => HandleNotInherited'
<1> SUFFICES ASSUME TypeOK, HandleNotInherited, [Next]_vars
             PROVE  HandleNotInherited'
  OBVIOUS
<1> USE DEF HandleNotInherited, Readable
<1>0. ASSUME exec_depth' = exec_depth, file' = file, current_file' = current_file,
             opened' = opened
      PROVE  HandleNotInherited'
  BY <1>0
<1>1. ASSUME NEW f \in Files \cup {NoFile}, NEW a \in Argv,
             \/ KernelExecFails(f, a) \/ KernelExecRuns(f, a)
             \/ ExecUnreadable(f, a) \/ ExecLoadFails(f, a) \/ ExecRuns(f, a)
      PROVE  HandleNotInherited'
  <2>1. file' = [name |-> f, valid |-> 0]
    BY <1>1 DEF KernelExecFails, KernelExecRuns, ExecUnreadable, ExecLoadFails,
       ExecRuns, OpenAndClose
  <2> QED
    BY <2>1, SMTT(30)
<1>2. ASSUME NEW f \in Files \cup {NoFile}, NEW a \in Argv,
             KernelExecRefused(f, a) \/ ExecRefused(f, a)
      PROVE  HandleNotInherited'
  <2>1. CASE OpenAndClose(f)
    <3>1. file' = [name |-> f, valid |-> 0]
      BY <2>1, SMTT(30) DEF OpenAndClose
    <3> QED
      BY <3>1
  <2>2. CASE UNCHANGED <<file, current_file, opened>>
    BY <1>2, <2>2 DEF KernelExecRefused, ExecRefused
  <2> QED
    BY <1>2, <2>1, <2>2 DEF KernelExecRefused, ExecRefused
<1>3. CASE Exit
  <2>1. /\ exec_depth \in Nat /\ exec_depth' = exec_depth - 1 /\ opened.level \in Nat
        /\ file' = file /\ current_file' = current_file /\ opened' = opened
    BY <1>3, ExecAssumption DEF Exit, TypeOK, Opening
  <2> QED
    BY <2>1
<1>4. CASE FileClose \/ Fault \/ UNCHANGED vars
  BY <1>0, <1>4 DEF FileClose, Fault, ghostVars, vars
<1>5. ASSUME NEW v \in Data, UserWrite(v) PROVE HandleNotInherited'
  BY <1>0, <1>5 DEF UserWrite, ghostVars
<1>6. ASSUME NEW f \in Files \cup {NoFile}, FileOpen(f) PROVE HandleNotInherited'
  <2>1. exec_depth \in Nat /\ exec_depth' = exec_depth
    BY <1>6, ExecAssumption DEF FileOpen, TypeOK
  <2> QED
    BY <1>6, <2>1 DEF FileOpen
<1> QED
  BY <1>1, <1>2, <1>3, <1>4, <1>5, <1>6, Zenon DEF Next
-----------------------------------------------------------------------------
(* IInv is inductive, hence an invariant.                                  *)
THEOREM ExecInvariant == Spec => []IInv
<1>1. Init => IInv
  BY InitIInv
<1>2. IInv /\ [Next]_vars => IInv'
  BY TypeStep, FramesStep, CallersStep, ChargedStep, HandleStep DEF IInv
<1> QED
  BY <1>1, <1>2, PTL DEF Spec

(* The types of every variable of the exec machinery.                      *)
THEOREM ExecTypeCorrect == Spec => []TypeOK
<1>1. IInv => TypeOK
  BY DEF IInv
<1> QED
  BY <1>1, ExecInvariant, PTL

(* For any nesting limit, any frame sizes and any history of execs, exits  *)
(* and failures, no trap from ring 3 can overwrite the kernel frame of a   *)
(* suspended caller.                                                       *)
THEOREM ExecFramesProtected == Spec => []FramesProtected
<1>1. IInv => FramesProtected
  BY DEF IInv
<1> QED
  BY <1>1, ExecInvariant, PTL

(* No program reads on in a file its caller left open, for any nesting     *)
(* limit and any history of opens, execs and exits: FILE_READ reads the    *)
(* file opened last, by the running program or one it started.             *)
THEOREM ExecHandleNotInherited == Spec => []HandleNotInherited
<1>1. IInv => HandleNotInherited
  BY DEF IInv
<1> QED
  BY <1>1, ExecInvariant, PTL

(* Only SYSCALL_EXIT lowers exec_depth.                                    *)
LEMMA OnlyExitLeaves ==
  TypeOK /\ [Next]_vars /\ exec_depth' = exec_depth - 1 => Exit
<1> SUFFICES ASSUME TypeOK, [Next]_vars, exec_depth' = exec_depth - 1 PROVE Exit
  OBVIOUS
<1>1. exec_depth' # exec_depth /\ exec_depth' # exec_depth + 1
  BY ExecAssumption, SMTT(30) DEF TypeOK
<1>2. ASSUME NEW f \in Files \cup {NoFile}, NEW a \in Argv,
             \/ KernelExecRefused(f, a) \/ KernelExecFails(f, a) \/ KernelExecRuns(f, a)
             \/ ExecRefused(f, a) \/ ExecUnreadable(f, a)
             \/ ExecLoadFails(f, a) \/ ExecRuns(f, a)
      PROVE  FALSE
  BY <1>1, <1>2 DEF KernelExecRefused, KernelExecFails, KernelExecRuns,
     ExecRefused, ExecUnreadable, ExecLoadFails, ExecRuns, EnterProgram
<1>3. ~FileClose /\ ~Fault /\ ~UNCHANGED vars
  BY <1>1 DEF FileClose, Fault, vars
<1>4. ASSUME NEW f \in Files \cup {NoFile}, FileOpen(f) PROVE FALSE
  BY <1>1, <1>4 DEF FileOpen
<1>5. ASSUME NEW v \in Data, UserWrite(v) PROVE FALSE
  BY <1>1, <1>5 DEF UserWrite
<1> QED
  BY <1>2, <1>3, <1>4, <1>5 DEF Next

(* Exit gives the caller its memory back unless a deeper exec reused the   *)
(* save area.                                                              *)
THEOREM ExecExitRestores == Spec => ExitRestoresCaller
<1> DEFINE Restored ==
      Resumes /\ saver = exec_depth - 1 => mem' = caller[exec_depth - 1].mem
<1>1. IInv /\ [Next]_vars => [Restored]_vars
  <2> SUFFICES ASSUME IInv, [Next]_vars, Resumes, saver = exec_depth - 1
               PROVE  mem' = caller[exec_depth - 1].mem
    OBVIOUS
  <2> USE ExecAssumption DEF IInv
  <2>1. exec_depth \in Nat
    BY DEF TypeOK
  <2>2. Exit
    BY OnlyExitLeaves DEF Resumes
  <2>3. exec_stack[exec_depth - 1].by = "syscall" /\ mode = "user" /\ mem' = saved_program
    BY <2>2 DEF Exit, exec_longjmp, Resumes
  <2>4. exec_depth - 1 \in 0 .. exec_depth - 1
    BY <2>2 DEF Exit, exec_longjmp, TypeOK
  <2>5. exec_depth - 1 # 0
    BY <2>3, <2>4 DEF FramesProtected
  <2>6. exec_depth - 1 \in 1 .. exec_depth - 1
    BY <2>1, <2>4, <2>5
  <2> QED
    BY <2>3, <2>6 DEF CallersKnown
<1> QED
  BY <1>1, ExecInvariant, PTL DEF Spec, ExitRestoresCaller

(* An exec costs its caller one frame of kernel stack, whatever the child  *)
(* did, for any frame sizes and nesting limit; leaving the last program    *)
(* gives the whole stack back.                                             *)
THEOREM ExecCostBounded == Spec => ExecCostsOneFrame
<1> DEFINE Charged ==
      exec_depth' = exec_depth - 1 =>
        tss_esp0' = IF mode' = "kernel" THEN KERNEL_FRAME
                    ELSE caller[exec_depth - 1].esp0 + SYSCALL_FRAME
<1>1. IInv /\ [Next]_vars => [Charged]_vars
  <2> SUFFICES ASSUME IInv, [Next]_vars, exec_depth' = exec_depth - 1
               PROVE  tss_esp0' = IF mode' = "kernel" THEN KERNEL_FRAME
                                  ELSE caller[exec_depth - 1].esp0 + SYSCALL_FRAME
    OBVIOUS
  <2> DEFINE d == exec_depth - 1
  <2>1. Exit
    BY OnlyExitLeaves DEF IInv
  <2>2. /\ tss_esp0' = exec_stack[d].saved_esp0 /\ mode = "user"
        /\ exec_stack[d].by = "kernel" <=> mode' = "kernel"
    BY <2>1 DEF Exit, exec_longjmp, RestoreTss
  <2>3. exec_depth \in Nat /\ d \in 0 .. exec_depth - 1 /\ exec_depth > 0
    BY <2>1, ExecAssumption DEF Exit, IInv, TypeOK
  <2>4. exec_stack[d].by = "kernel" <=> d = 0
    BY <2>2, <2>3 DEF IInv, FramesProtected
  <2>5. CASE d = 0
    BY <2>2, <2>3, <2>4, <2>5 DEF IInv, StackCharged
  <2>6. CASE d # 0
    <3>1. d \in 1 .. exec_depth - 1
      BY <2>3, <2>6
    <3> QED
      BY <2>2, <2>4, <2>6, <3>1 DEF IInv, StackCharged
  <2> QED
    BY <2>5, <2>6
<1> QED
  BY <1>1, ExecInvariant, PTL DEF Spec, ExecCostsOneFrame

(* An exec that fails leaves the caller's memory as it was, for every file *)
(* and nesting depth, although SYSCALL_EXEC may have loaded the new        *)
(* program over it first.                                                  *)
THEOREM ExecFailedHarmless == Spec => FailedExecHarmless
<1> DEFINE Harmless ==
      mode = "user" /\ args' # args /\ exec_depth' = exec_depth => mem' = mem
<1>1. IInv /\ [Next]_vars => [Harmless]_vars
  <2> SUFFICES ASSUME IInv, [Next]_vars, mode = "user", args' # args, exec_depth' = exec_depth
               PROVE  mem' = mem
    OBVIOUS
  <2>1. exec_depth \in Nat /\ exec_depth' # exec_depth + 1
    BY ExecAssumption DEF IInv, TypeOK
  <2>2. PICK f \in Files \cup {NoFile}, a \in Argv :
          ExecRefused(f, a) \/ ExecUnreadable(f, a) \/ ExecLoadFails(f, a)
    <3>1. ASSUME NEW f \in Files \cup {NoFile}, NEW a \in Argv,
                 \/ KernelExecRefused(f, a) \/ KernelExecFails(f, a)
                 \/ KernelExecRuns(f, a) \/ ExecRuns(f, a)
          PROVE  FALSE
      BY <2>1, <3>1 DEF KernelExecRefused, KernelExecFails, KernelExecRuns, ExecRuns,
         EnterProgram, exec_setjmp
    <3>2. ~FileClose /\ ~Fault /\ ~Exit /\ ~UNCHANGED vars
      BY DEF FileClose, Fault, Exit, exec_longjmp, vars
    <3>3. ASSUME NEW f \in Files \cup {NoFile}, FileOpen(f) PROVE FALSE
      BY <3>3 DEF FileOpen
    <3>4. ASSUME NEW v \in Data, UserWrite(v) PROVE FALSE
      BY <3>4 DEF UserWrite
    <3> QED
      BY <3>1, <3>2, <3>3, <3>4, SMTT(30) DEF Next
  <2>3. ExecLoadFails(f, a) => mem' = mem
    BY DEF ExecLoadFails, SaveProgram
  <2> QED
    BY <2>2, <2>3 DEF ExecRefused, ExecUnreadable
<1> QED
  BY <1>1, ExecInvariant, PTL DEF Spec, FailedExecHarmless
=============================================================================
