\* One client: an archived gap is resolved by a notes request that names it.
SPECIFICATION Spec
CONSTANTS
  t1 = t1   c1 = c1  c2 = c2
  Clients = {c1}
  Cycles = {"day-1", "day-2"}
  Agents = {}
  Texts = {t1}
  NotesInputs <- AllNotes
  SnapshotInputs <- NoSnapshots
  Targets = {"archived"}
  MaxPageSize = 2
  MaxPosts = 2
  MaxRecs = 2
  MaxFaults = 0
PROPERTIES StatusFollowsTable
