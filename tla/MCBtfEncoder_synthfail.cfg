CONSTANTS
  Files <- MCFiles
  CUs <- MCCUs
  Elf <- MCElf
  NameChars <- MCNameChars
  KSYM_NAME_LEN = 8
  MAX_PERCPU_VAR_CNT = 2
  Force = TRUE
  SkipVars = FALSE
  WriterMayFail = TRUE
  LoaderStopsOnError = TRUE
  NoWriter = NoWriter
  NoCU = NoCU
  UINT32_BITS = 8
SPECIFICATION Spec
INVARIANTS
  ArrayIndexIsInt
