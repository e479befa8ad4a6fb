SPECIFICATION FairSpec
CHECK_DEADLOCK FALSE
CONSTANTS
  Bits = 3
  MyId = 0
  Others = {4,5,7}
  Knows <- Chain
  Near = {5}
  Faulty = {5}
  Tokenless = {5,7}
  Targets = {6}
  Ports = {0,1}
  SearchNodes = 2
  Closest = 2
  MaxPings = 2
  Inflight = 1
  Retransmit = 1
  StepWait = 1
  Waits = {1}
  ExpireTime = 2
  ReplyTime = 1
  MaxSearches = 1
  TidMod = 4
  MaxCalls = 2
  MaxDups = 1
INVARIANTS
  TypeOK OneDoneEach DiesOnlyAlone
PROPERTIES
  SearchComplete SearchEnds
