\* One creator, one reader, one client that runs the deleting jobs: nothing that
\* must stay is lost.
SPECIFICATION Spec
CONSTANTS
  k1 = k1
  Sources = {"s1"}
  Keys = {k1}
  NoKey = NoKey  Never = Never  Absent = Absent
  Creators = {"c1"}
  Readers = {"r1"}
  Maintainers = {"m1"}
  Batches <- CleanupBatches
  Jobs = {"expired_cleanup", "stale_summary_compaction"}
  MaxId = 3
  MaxGets = 1
  Ticks = {70}
  MaxNow = 70
INVARIANTS SequentialCreatesShareNoKey LoneJobNeverFails JobsSettle
PROPERTIES ProtectedNeverDeleted LastOfGroupSurvives
