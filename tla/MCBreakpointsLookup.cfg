\* breakpoints.h: a breakpoint that lookup_breakpoint reports is a trap.
SPECIFICATION Spec
CONSTANTS
  MemSize = 4
  WordSize = 2
  INT3 = int3
  ZeroByte = zero
  Byte = {int3, zero}
  Readable <- MCReadable
  Writable <- MCWritable
INVARIANT
  LookupMeansTrap
