CONSTANTS
  Images <- MCImages
  NameChars <- MCNameChars
  KSYM_NAME_LEN = 8
  MAX_PERCPU_VAR_CNT = 2
  ULONG_BITS = 7
SPECIFICATION FairSpec
PROPERTIES
  CollectImplementsPromise
