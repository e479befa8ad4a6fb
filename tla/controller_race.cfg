SPECIFICATION Spec
CONSTANTS
  MaxCount = 2
  MaxRestarts = 0
  Events = {}
  t1 = t1
  t2 = t2
  p1 = p1
  p2 = p2
  Threads = {t1, t2}
  Payloads = {p1, p2}
  MaxBlocks = 2
  MaxPosts = 5
INVARIANTS
  PostedReadable
SYMMETRY Symmetry
CHECK_DEADLOCK FALSE
