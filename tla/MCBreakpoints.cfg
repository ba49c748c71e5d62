\* breakpoints.c: every order of operations, stores, races, exec and death.
SPECIFICATION Spec
CONSTANTS
  MemSize = 4
  WordSize = 2
  INT3 = int3
  ZeroByte = zero
  Byte = {int3, zero}
  Readable <- MCReadable
  Writable <- MCWritable
INVARIANTS
  TypeOK
  TrapsCoherent
  ReadStaysFresh
PROPERTIES
  NeighboursKept
  ErrorChangesNothing
  RefinesOverlay
