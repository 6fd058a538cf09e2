\* Two connections, three starts, one system call that fails, seed files that
\* are good, bad, or change.
SPECIFICATION Spec
CONSTANTS
  c1 = c1  c2 = c2
  Clients = {c1, c2}
  Ids = {1, 2, 3, 4}
  Requests <- AllRequests
  SeedFiles <- AllSeedFiles
  Unreadable = Unreadable
  Absent = Absent  Torn = Torn
  NoOne = NoOne  Boot = Boot
  MaxStarts = 3
  MaxFaults = 1
INVARIANTS TypeOK SeedsOnlyIntoEmptyStore ServesAllSeedsOrNone OnlyCutsTear
  AcknowledgedRecordsStay StartsFailForACause
PROPERTIES StartNeverChangesRecords StartsAndStopsEnd
CHECK_DEADLOCK FALSE
