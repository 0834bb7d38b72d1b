SPECIFICATION Spec
CONSTANTS
  WIDTH = 4
  HEIGHT = 3
  TAB = 2
  MAX_ARGS = 1
  MAX_ARG_LEN = 6
  BASE = 2
  EXT = 1
  UPPER <- MCUpper
  Glyphs <- MCGlyphs
  PROMPT <- MCPrompt
  CLEAR <- MCClear
  EXIT <- MCExit
  CMD_BUF = 6
  KeyChars <- MCKeyChars
  Directory <- MCDirectory
  SHELL <- MCShell
  Outputs <- MCOutputs
  MAX_BOOT_LINES = 3
  MAX_TABS = 1
INVARIANTS EchoIsBuffer PromptSurvives ArgsAreWords FindsListedName
