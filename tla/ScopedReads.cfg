\* Up to two writers at once, three records, a snapshot, one write of a status, one read.
SPECIFICATION Spec
CONSTANTS
  Cycles = {"day-0", "day-1"}
  Agents = {}
  MaxOpen = 2
  Notes <- FewNotes
  Targets = {"resolved", "archived"}
  SnapshotCycles = {"day-1"}
  Requests <- AllRequests
  MaxPageSize = 2
  MaxPerClass = 2
  MaxSummaries = 1
  MaxNotes = 3
  MaxSnaps = 1
  MaxWrites = 1
  MaxReads = 1
INVARIANTS TypeOK SkipsNeedDepartures RepeatsNeedArrivals
  ContextShowsWhatStays ContextHidesArchived ContextPutsOpenFirst ExportIsClosed
PROPERTIES EveryReadEnds
CHECK_DEADLOCK FALSE
