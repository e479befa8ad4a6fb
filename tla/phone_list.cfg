SPECIFICATION Spec
SYMMETRY Symmetry
CONSTANTS
  Unset = Unset
  Threads = {t1,t2}
  Blocks = {3,11,7,0,4}
  NodeCap = 3
INVARIANTS
  TypeOK KeysFound SearchesEnd
PROPERTIES
  EntriesStay
