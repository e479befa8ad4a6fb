SPECIFICATION Spec
CONSTANTS
  Bits = 3
  MyId = 2
  MaxCount = 2
  MinCount = 1
  MaxClosest = 2
  PingWait = 0
  GoodTime = 0
  ReplyTime = 0
  BucketTime = 0
  MinBucketTime = 0
  Others = {0,1,4}
  Lists <- FewLists
  MaxBlacklisted = 1
  Searches = 4
INVARIANTS
  TypeOK BucketsByPrefix AnswersClosest
PROPERTIES
  NodesKept
