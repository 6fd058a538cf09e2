\* Two clients, two files, three failures of either kind: the damage stays
\* where it was done, listings stay consistent, and every call still returns.
SPECIFICATION FaultySpec
CONSTANTS
  c1 = c1  c2 = c2  v1 = v1  v2 = v2  bad = bad
  Clients <- TwoClients
  Dirs = {"records"}
  Ids = {1, 2}
  Values = {v1}
  Malformed = {}
  Absent = Absent  Torn = Torn  NoRequest = NoRequest  NoOne = NoOne
  Failures = {"io", "crash"}
  MaxFaults = 3
INVARIANTS DamageConfined DecodeErrorsNameDamage
PROPERTIES StableWhileRead EveryCallReturns
