SPECIFICATION Spec
CONSTANTS
  Writer = w
  Readers = {}
  Payloads <- SameLength
  Queries <- NoQueries
  MaxCount = 2
  MaxTime = 1
  MaxData = 8
  Huge = 1000
  UintMod = 8
  Reuse = FALSE
  Events = {"short_data", "short_header", "short_create", "update", "short_update", "destroy"}
INVARIANTS
  PagesExact
  TimeScanComplete
PROPERTIES
  RefinesRecordStore
