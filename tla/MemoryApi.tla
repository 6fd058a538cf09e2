------------------------------ MODULE MemoryApi -----------------------------
(***************************************************************************)
(* What is built on the memory service: the artifacts that the replay and  *)
(* trust services store (internal/services/replay, internal/services/trust)*)
(* and the maintenance overview (internal/services/ops).                  *)
(***************************************************************************)
EXTENDS MemoryService

\* A replay or trust request: the fields that are not blank, and the memory
\* they describe.
Body == [given : SUBSET {"scenario", "source", "summary", "family", "kind"}, memory : Input]

\* The type is fixed and there is no idempotency key.
Artifact(body, type, required) ==
  IF required \subseteq body.given
  THEN [body.memory EXCEPT !.type = type, !.key = NoKey]
  ELSE [refused |-> TRUE, key |-> NoKey]

ReplayInput(body) == Artifact(body, "replay_case", {"scenario", "source", "summary"})

TrustInput(body) == Artifact(body, "trust_artifact", {"source", "summary", "family", "kind"})

\* MaintenanceOverview: the decay queue it counts in a listing.
DecayQueue(listing, t) == {i \in DOMAIN listing : IsDecayEligible(listing[i], t)}

-----------------------------------------------------------------------------
\* Properties.

\* The next listing after a job has run on one at t, with nobody in between.
AfterJob(job, listing, t) ==
  LET plan   == Plan(job, listing, t)
      gone   == {op.id : op \in {o \in plan : o.do = "delete"}}
      rec(i) == IF \E op \in plan : op.id = i THEN (CHOOSE op \in plan : op.id = i).rec
                ELSE listing[i]
  IN [i \in DOMAIN listing \ gone |-> NormalizeLegacyRecord(rec(i))]

\* A job whose answer was lost may be asked for again: whatever the store
\* holds, one that has just run finds nothing more to do.  And what the
\* overview counts as the decay queue is worked off by a decay and a cleanup,
\* whichever comes first, although the decay passes over what has expired and
\* the cleanup over what is kept (internal/services/ops/service.go:137,120).
JobsSettle ==
  LET next(job, listing) == AfterJob(job, listing, now)
  IN /\ \A job \in JobTypes : Plan(job, next(job, ListAll), now) = {}
     /\ DecayQueue(next("decay_update", next("expired_cleanup", ListAll)), now) = {}
     /\ DecayQueue(next("expired_cleanup", next("decay_update", ListAll)), now) = {}

=============================================================================
