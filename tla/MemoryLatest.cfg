\* Decay marks an old summary as updated, and compaction deletes the newer one.
SPECIFICATION Spec
CONSTANTS
  k1 = k1
  Sources = {"s1"}
  Keys = {k1}
  NoKey = NoKey  Never = Never  Absent = Absent
  Creators = {"a"}
  Readers = {"a"}
  Maintainers = {"a"}
  Batches <- ScoreBatches
  Jobs = {"decay_update", "stale_summary_compaction"}
  MaxId = 2
  MaxGets = 0
  Ticks = {13}
  MaxNow = 39
PROPERTIES LatestSummarySurvives
