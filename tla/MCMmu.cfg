CONSTANTS
  ENTRIES = 4
  LEVELS = 3
  VIRTUAL = 128
  Memory <- MCMemory
  Pool <- MCPool
  BootMemory <- MCBootMemory
  Root = 1
  Page = {9}
  Address <- MCAddress
  Size = {1, 2}
  Flags = {{}, {"WRITE", "EXEC"}}
  LastSlot = FALSE
  RemoveUnmapped = FALSE
SPECIFICATION Spec
INVARIANTS
  TypeOK
  TablesAreOwned
  NoEmptyTables
PROPERTIES
  OnlyTablesWritten
  ImplementsAddressMap
