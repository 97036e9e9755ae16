CONSTANTS
  PAGE_SIZE = 2
  WORD_BITS = 2
  PMM_CTRL_ENTRIES = 2
  PMM_ENTRIES = 3
  MIN_BLOCK_SIZE_PAGES = 2
  MemoryMap <- MCMemoryMap
  Address <- MCAddress
SPECIFICATION Spec
INVARIANTS
  TypeOK
  FreeCountMatchesBits
  BlocksDisjoint
  BlocksAreUsable
  CountPagesExact
PROPERTIES
  ImplementsPageAllocator
