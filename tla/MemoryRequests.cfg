\* Two clients that create, read and run jobs: every request ends.
SPECIFICATION FairSpec
CONSTANTS
  k1 = k1
  Sources = {"s1"}
  Keys = {k1}
  NoKey = NoKey  Never = Never  Absent = Absent
  Creators = {"a", "b"}
  Readers = {"a", "b"}
  Maintainers = {"a", "b"}
  Batches <- RequestBatches
  Jobs = {"expired_cleanup", "unsupported"}
  MaxId = 2
  MaxGets = 1
  Ticks = {35}
  MaxNow = 35
PROPERTIES DeletedStaysDeleted EveryRequestEnds
