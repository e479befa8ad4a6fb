SPECIFICATION Spec
CONSTANTS
  Paths = {"cut","long","full","stray"}
  Words = {"long","full"}
  Stray = "stray"
  Length <- Lengths
  Prefix <- Prefixes
  Handles = {h1,h2}
  ValueType = 3
  Batches <- TwoBatches
  MaxRecords = 3
  UintMod = 8
  Events = {"short_create","short_data","short_header","crash"}
INVARIANTS
  TypeOK ReadsExact NoTornRecords CountNeverAhead
