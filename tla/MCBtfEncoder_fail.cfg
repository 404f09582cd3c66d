CONSTANTS
  Files <- MCFiles
  CUs <- MCCUsAll
  Elf <- MCElfFail
  NameChars <- MCNameChars
  KSYM_NAME_LEN = 8
  MAX_PERCPU_VAR_CNT = 2
  Force = FALSE
  SkipVars = FALSE
  WriterMayFail = TRUE
  LoaderStopsOnError = TRUE
  NoWriter = NoWriter
  NoCU = NoCU
  UINT32_BITS = 8
SPECIFICATION FairSpec
INVARIANTS
  RefsReachIntendedTags
  FuncEmittedOnce
  KernelFuncsTraced
  SecinfoMatchesSymbols
PROPERTIES
  EncoderImplementsSession
