CONSTANTS
  Refs = {r1, r2, r3}
  small = small
  big = big
  huge = huge
  Bases = {small, big, huge}
  NoBasis = NoBasis
  ByteLength <- MCByteLength
  TtlMs = 2
  MaxEntries = 2
  MaxBytes = 3
  ClockBound = 4
  PutBound = 4
SPECIFICATION Spec
INVARIANT AccountedWithinBounds
PROPERTY EvictsOnlyForRoom
PROPERTY ImplementsStore
