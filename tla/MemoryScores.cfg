\* One creator, one reader, two clients that run the updating jobs: records
\* keep their identity, and their score sinks by the decay windows they have lived.
SPECIFICATION Spec
CONSTANTS
  k1 = k1
  Sources = {"s1"}
  Keys = {k1}
  NoKey = NoKey  Never = Never  Absent = Absent
  Creators = {"c1"}
  Readers = {"r1"}
  Maintainers = {"m1", "m2"}
  Batches <- ScoreBatches
  Jobs = {"decay_update", "replay_preservation_enforcement"}
  MaxId = 1
  MaxGets = 1
  Ticks = {13}
  MaxNow = 52
INVARIANTS TypeOK IdentityNeverChanges DecayIsPaced
