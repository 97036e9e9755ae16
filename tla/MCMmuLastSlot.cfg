CONSTANTS
  ENTRIES = 4
  LEVELS = 3
  VIRTUAL = 128
  Memory <- MCMemory
  Pool <- MCPool
  BootMemory <- MCBootMemory
  Root = 1
  Page = {9}
  Address = {115}
  Size = {1}
  Flags = {{}, {"WRITE", "EXEC"}}
  LastSlot = TRUE
  RemoveUnmapped = FALSE
SPECIFICATION Spec
PROPERTIES
  ImplementsAddressMap
