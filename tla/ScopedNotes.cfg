\* Two clients, three notes or snapshot requests, status changes at any time,
\* one failed store call.
SPECIFICATION Spec
CONSTANTS
  t1 = t1   c1 = c1  c2 = c2
  Clients = {c1, c2}
  Cycles = {"day-1", "day-2"}
  Agents = {}
  Texts = {t1}
  NotesInputs <- AllNotes
  SnapshotInputs <- RunSnapshot
  Targets = {"archived"}
  MaxPageSize = 2
  MaxPosts = 3
  MaxRecs = 2
  MaxFaults = 1
SYMMETRY Symmetry
INVARIANTS TypeOK SerialGapsAreUnique EveryNoteIsSnapshotted ReferencesAreSound
PROPERTIES OnlyActionableStatusChanges SerialNeverReopens SerialSnapshotsChain ImplementsLedger
