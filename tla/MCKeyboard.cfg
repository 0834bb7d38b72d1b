SPECIFICATION FairSpec
CONSTANTS
  LetterKeys = {"a"}
  SymbolKeys = {"1"}
  FixedKeys = {"enter"}
  DeadKeys = {"f1"}
  CR = "cr"
  NL = "nl"
  NUL = NUL
  Pressable <- FewKeys
  KB_BUFFER_SIZE = 3
  SerialBytes <- TwoBytes
  SERIAL_FIFO = 2
INVARIANT ShiftNeverSticks
PROPERTIES RingIsQueue GetCharReturns
