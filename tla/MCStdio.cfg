CONSTANTS
  INT_BITS = 8
  LONG_BITS = 12
  INT_MAX = 127
  MAX_OPEN_STREAMS = 2
  Cookies = {c}
  NULL = null
  Formats <- MCFormats
  Strings <- MCStrings
  ReadSizes = {0, 2}
SPECIFICATION Spec
INVARIANTS
  TypeOK
  StreamsKept
  PrintfStandard
PROPERTIES
  FailureReported
