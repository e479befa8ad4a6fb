SPECIFICATION Spec
CONSTANTS
  Writer = w
  Readers = {r}
  Payloads <- TwoPayloads
  Queries <- IdQueries
  MaxCount = 2
  MaxTime = 0
  MaxData = 10
  Huge = 1000
  UintMod = 8
  Reuse = FALSE
  Events = {"short_data", "short_header", "destroy"}
INVARIANTS
  TypeOK
  AckedReadable
  CountIsEntries
  ReadsAcked
