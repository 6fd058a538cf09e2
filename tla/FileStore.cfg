\* Two clients, two directories of two files each, no failures: every call takes effect at
\* one instant.
SPECIFICATION Spec
CONSTANTS
  c1 = c1  c2 = c2  v1 = v1  v2 = v2  bad = bad
  Clients <- TwoClients
  Dirs = {"records", "scoped-snapshots"}
  Ids = {1, 2}
  Values = {v1, v2}
  Malformed = {bad}
  Absent = Absent  Torn = Torn  NoRequest = NoRequest  NoOne = NoOne
  Failures = {}
  MaxFaults = 0
INVARIANTS TypeOK
PROPERTIES ImplementsAtomicStore
