\* One client: the snapshot after a full page is linked to an older one.
SPECIFICATION Spec
CONSTANTS
  t1 = t1   c1 = c1  c2 = c2
  Clients = {c1}
  Cycles = {"day-1", "day-2"}
  Agents = {}
  Texts = {t1}
  NotesInputs <- NoNotes
  SnapshotInputs <- RunSnapshot
  Targets = {}
  MaxPageSize = 2
  MaxPosts = 4
  MaxRecs = 2
  MaxFaults = 0
CHECK_DEADLOCK FALSE
PROPERTIES SnapshotsChain
