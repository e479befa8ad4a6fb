SPECIFICATION Spec
CONSTANTS
  Threads = {t1, t2}
  Payloads <- TwoPayloads
  MaxCount = 2
  MaxAppends = 2
  Huge = 1000
  UintMod = 8
INVARIANTS
  OffsetsWhole
PROPERTIES
  DataAppendOnly
CHECK_DEADLOCK FALSE
