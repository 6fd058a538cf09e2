\* Two clients create with one idempotency key at the same time: both records
\* are stored.
SPECIFICATION Spec
CONSTANTS
  k1 = k1
  Sources = {"s1"}
  Keys = {k1}
  NoKey = NoKey  Never = Never  Absent = Absent
  Creators = {"a","b"}
  Readers = {}
  Maintainers = {}
  Batches <- CleanupBatches
  Jobs = {}
  MaxId = 2
  MaxGets = 0
  Ticks = {35}
  MaxNow = 0
INVARIANTS IdempotencyKeyIsUnique
CHECK_DEADLOCK FALSE
