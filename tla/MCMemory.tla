------------------------------ MODULE MCMemory ------------------------------
(* The memory service on small sets for TLC: what clients post. *)
EXTENDS MemoryApi

CONSTANTS k1

Plain ==
  [type |-> "scenario_summary", src |-> "s1", importance |-> 0, pinned |-> FALSE,
   policy |-> "", expires |-> Never, key |-> NoKey, tagged |-> FALSE]

Keyed    == [Plain EXCEPT !.key = k1]
Expiring == [Plain EXCEPT !.policy = "expiring", !.expires = 35]
Minor    == [Plain EXCEPT !.importance = 10]
Tagged   == [Plain EXCEPT !.importance = 10, !.tagged = TRUE]
Session  == [Plain EXCEPT !.policy = "session", !.importance = 90]
Kept     == [Plain EXCEPT !.policy = "preserved"]
Pinned   == [Plain EXCEPT !.pinned = TRUE, !.expires = 35]

\* A replay and a trust artifact; a replay without a summary is refused.
Replay ==
  ReplayInput([given  |-> {"scenario", "source", "summary"},
               memory |-> [Plain EXCEPT !.expires = 35]])
NoReplay ==
  ReplayInput([given |-> {"scenario", "source"}, memory |-> Plain])
Trust ==
  TrustInput([given  |-> {"source", "summary", "family", "kind"},
              memory |-> [Plain EXCEPT !.importance = 10]])

\* A memory with a key and a type that does not exist.
BadKeyed == [refused |-> TRUE, key |-> k1]

\* For the jobs that delete: expiring, pinned and keyed records of one source,
\* a batch that repeats its key, one that fails half way, and one that fails at
\* once unless its key is taken.
CleanupBatches ==
  {<<Keyed>>, <<Expiring>>, <<Pinned>>, <<Replay, NoReplay>>, <<Keyed, Keyed>>, <<BadKeyed, Expiring>>}

\* For the jobs that update: records that decay at different times, and one
\* that replay preservation takes over.
ScoreBatches == {<<Trust>>, <<Minor>>, <<Session>>, <<Tagged>>, <<Kept>>, <<Replay>>}

\* For the endings of requests: records of one source, some of which expire.
RequestBatches == {<<Expiring>>, <<Keyed, Plain>>}

=============================================================================
