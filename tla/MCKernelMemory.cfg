CONSTANTS
  ENTRIES = 4
  LEVELS = 3
  VIRTUAL = 128
  Memory <- MCMemory
  Pool <- MCPool
  BootMemory <- MCBootMemory
  Root = 1
  Page = {}
  Address = {}
  Size = {}
  Flags = {}
  LastSlot = FALSE
  RemoveUnmapped = FALSE
  WriteAddress = 5
  ReadAddress = 9
  LoadAddress = 1
  Text <- MCText
  File <- MCFile
SPECIFICATION KernelSpec
INVARIANTS
  KernelTypeOK
  SelfTestsPassUnlessMisled
  PagesAccounted
  FreedUnreachable
  EnoughPages
PROPERTIES
  OnlyOwnWrites
