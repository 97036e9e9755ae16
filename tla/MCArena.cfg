CONSTANTS
  PAGE_SIZE = 8
  ARENA_SIZE = 4
  HEADER_SIZE = 2
  UNSIGNED = 64
  Pages <- MCPages
  NULL = 0
  FreshLinks = {0, 1, 2, 3}
  P2Align = {1, 2}
  Size = {1, 3, 6, 7}
  Shrinks = FALSE
SPECIFICATION Spec
INVARIANTS
  TypeOK
  BlocksUsable
  BlocksDisjoint
  ChainComplete
  PagesConserved
  BadFreeOnlyAstray
PROPERTIES
  DeleteReturns
