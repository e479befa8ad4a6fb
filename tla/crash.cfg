SPECIFICATION Spec
CONSTANTS
  Writer = w
  Readers = {r}
  Payloads <- TwoPayloads
  Queries <- PageQueries
  MaxCount = 2
  MaxTime = 0
  MaxData = 10
  Huge = 1000
  UintMod = 8
  Reuse = FALSE
  Events = {"short_data", "short_header", "short_create", "crash", "past_end"}
INVARIANTS
  WholeRecords
PROPERTIES
  IdNeverReissued
