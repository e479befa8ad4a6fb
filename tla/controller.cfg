SPECIFICATION Spec
CONSTANTS
  MaxCount = 2
  MaxRestarts = 2
  Events = {"restart", "short_data", "short_entry", "short_header"}
  t1 = t1
  t2 = t2
  p1 = p1
  p2 = p2
  Threads = {t1, t2}
  Payloads = {p1, p2}
  MaxBlocks = 2
  MaxPosts = 4
INVARIANTS
  TypeOK
  SerialPostedReadable
  BlocksFillInOrder
PROPERTIES
  IdsUnique
SYMMETRY Symmetry
CHECK_DEADLOCK FALSE
