\* Two kinds of bytes; every size is small enough to be reached and passed.
CONSTANTS
  Bytes = {0, 1}
  kCheapPrepend = 2
  initialSize = 2
  ExtraSize = 2
  MaxLen = 3
  MaxReadable = 4
SPECIFICATION Spec
INVARIANTS ContentIntact MemoryBounded
