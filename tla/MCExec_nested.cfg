SPECIFICATION Spec
CONSTANTS
  Files <- MCFiles
  NoFile = NoFile
  FileSize <- MCFileSize
  ElfFiles <- MCElf
  ValidElf <- MCValid
  BUFFER_SIZE = 2
  MAX_EXEC_DEPTH = 3
  KERNEL_FRAME = 1
  SYSCALL_FRAME = 2
  KSTACK_SIZE = 7
  Argv = {"x", "y"}
  Data = {0, 1}
  InitData = 0
CHECK_DEADLOCK FALSE
PROPERTY CallerMemoryRestored
