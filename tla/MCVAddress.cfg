CONSTANTS
  REGIONS_PER_BLOCK = 2
  PAGES = 2
  space_begin = 1
  space_end = 4
  NULL = 0
  Address <- MCAddress
  Size <- MCSize
SPECIFICATION Spec
INVARIANTS
  TypeOK
  NodesConserved
  RegionsOrdered
PROPERTIES
  FreeReturns
  KeepsPromise
