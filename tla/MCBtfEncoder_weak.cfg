CONSTANTS
  Files <- MCFiles
  CUs <- MCCUsWeak
  Elf <- MCElf
  NameChars <- MCNameChars
  KSYM_NAME_LEN = 8
  MAX_PERCPU_VAR_CNT = 2
  Force = TRUE
  SkipVars = FALSE
  WriterMayFail = FALSE
  LoaderStopsOnError = TRUE
  NoWriter = NoWriter
  NoCU = NoCU
  UINT32_BITS = 8
SPECIFICATION Spec
INVARIANTS
  FuncEmittedOnce
