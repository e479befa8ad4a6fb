SPECIFICATION Spec
CONSTANTS
  Conns = {c1,c2}
  Nodes <- TwoNodes
  MaxData = 7
  Huge = 1000
  UintMod = 64
  Events = {"short_data","short_entry","short_header","short_update","crash","destroy","update"}
INVARIANTS
  TypeOK InsertedFindable IndexAddressesData
CHECK_DEADLOCK FALSE
SYMMETRY Symmetry
