SPECIFICATION Spec
CONSTANTS
  Hashes = {h1,h2}
  Addrs = {a4,a6}
  Inet6 = {a6}
  Ports = {1}
  MaxHashes = 1
  MaxPeers = 3
  MaxValues = 2
  ExpireTime = 1
  MaxTokens = 3
  Rate = 2
INVARIANTS
  TypeOK RateBounded ValuesComplete
PROPERTIES
  RefinesPeerStore
