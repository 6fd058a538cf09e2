----------------------------- MODULE Lifecycle ------------------------------
(***************************************************************************)
(* The pure rules of a memory record's life (internal/domain/memory and    *)
(* the normalisations of the memory service and the store): defaults,      *)
(* stability, recall, expiry, decay, replay preservation, and what each    *)
(* maintenance job intends to do with a listing of the store.              *)
(*                                                                         *)
(* A record keeps the fields these rules read.  src stands for the         *)
(* namespace and the source reference, which the code only compares; the   *)
(* namespace contains the type, as BuildNamespace makes it.  Times are     *)
(* hours.                                                                  *)
(***************************************************************************)
EXTENDS Integers, FiniteSets

CONSTANTS
  Sources,   \* values of (namespace, source_ref)
  Keys,      \* idempotency keys
  NoKey,     \* the empty idempotency key
  Never      \* a nil *time.Time

ASSUME NeverAssumption == Never \notin Int
ASSUME NoKeyAssumption == NoKey \notin Keys

-----------------------------------------------------------------------------

Types    == {"replay_case", "trust_artifact", "benchmark_note", "scenario_summary"}
Policies == {"standard", "session", "expiring", "preserved", "replay_preserve"}
Score    == 0 .. 100
Hours    == Nat

DefaultImportance == 50

Record ==
  [type : Types, src : Sources, importance : Score, pinned : BOOLEAN,
   linked : BOOLEAN, stability : Score, recalls : Nat, references : Nat,
   policy : Policies, expires : Hours \cup {Never}, accessed : Hours \cup {Never},
   key : Keys \cup {NoKey}, tagged : BOOLEAN, created : Hours, updated : Hours]

\* What a create request carries; importance 0 and policy "" mean "not given".
Input ==
  [type : Types, src : Sources, importance : Score, pinned : BOOLEAN,
   policy : Policies \cup {""}, expires : Hours \cup {Never},
   key : Keys \cup {NoKey}, tagged : BOOLEAN]

-----------------------------------------------------------------------------

Capped(x, limit) == IF x < limit THEN x ELSE limit

\* Mutant of Clamped: the score has no lower bound.
CappedOnly(x) == Capped(x, 100)

Clamped(x) == IF x < 0 THEN 0 ELSE Capped(x, 100)

ComputeStability(r) ==
  Clamped(r.importance
          + Capped(5 * r.recalls, 20)
          + Capped(4 * r.references, 16)
          + (IF r.pinned THEN 20 ELSE 0)
          + (IF r.linked \/ r.type = "replay_case" \/ r.policy = "replay_preserve"
             THEN 15 ELSE 0))

Scored(r) == [r EXCEPT !.stability = ComputeStability(r)]

DefaultRetentionPolicy(type, pinned) ==
  IF pinned THEN "preserved"
  ELSE IF type = "replay_case" THEN "replay_preserve" ELSE "standard"

NormalizeRecord(in, now) ==
  LET policy == IF in.policy = "" THEN DefaultRetentionPolicy(in.type, in.pinned)
                                  ELSE in.policy
  IN Scored([type       |-> in.type,
             src        |-> in.src,
             importance |-> IF in.importance = 0 THEN DefaultImportance ELSE in.importance,
             pinned     |-> in.pinned,
             linked     |-> in.type = "replay_case" \/ policy = "replay_preserve",
             stability  |-> 0,
             recalls    |-> 0,
             references |-> 0,
             policy     |-> policy,
             expires    |-> in.expires,
             accessed   |-> Never,
             key        |-> in.key,
             tagged     |-> in.tagged,
             created    |-> now,
             updated    |-> now])

\* What every listing, though not Get, does to the record it reads.
NormalizeLegacyRecord(r) ==
  LET linked == [r EXCEPT !.linked = @ \/ r.type = "replay_case"
                                       \/ r.policy = "replay_preserve"]
  IN IF r.stability = 0 THEN Scored(linked) ELSE linked

RecallRecord(r, now) ==
  Scored([r EXCEPT !.recalls = @ + 1, !.accessed = now, !.updated = now])

-----------------------------------------------------------------------------

IsExpired(r, now) == r.expires # Never /\ r.expires <= now

Preserved(r) == r.linked \/ r.policy \in {"replay_preserve", "preserved"}

LastActivity(r) ==
  IF r.accessed # Never /\ r.accessed > r.updated THEN r.accessed ELSE r.updated

DecayWindow(r) ==
  IF r.policy = "session" THEN 12
  ELSE 24 + r.importance \div 2 + r.stability \div 3 + 4 * r.recalls + 6 * r.references

\* Mutant of IsDecayEligible: preserved records decay.
IsDecayEligibleAny(r, now) ==
  /\ ~r.pinned
  /\ IsExpired(r, now) \/ LastActivity(r) + DecayWindow(r) <= now

IsDecayEligible(r, now) ==
  /\ ~r.pinned
  /\ ~Preserved(r)
  /\ IsExpired(r, now) \/ LastActivity(r) + DecayWindow(r) <= now

Penalty(r) == IF r.stability > 70 THEN 5 ELSE IF r.importance < 40 THEN 15 ELSE 10

\* Mutants of DecayRecord: the window is not restarted; the importance decays.
DecayKeepsTime(r, now) == [r EXCEPT !.stability = Clamped(@ - Penalty(r))]

DecayImportance(r, now) == [r EXCEPT !.importance = Clamped(@ - Penalty(r)), !.updated = now]

DecayRecord(r, now) ==
  [r EXCEPT !.stability = Clamped(@ - Penalty(r)), !.updated = now]

\* Replay preservation touches a record that is a replay case, is linked to
\* one or carries a replay tag, when something is left to enforce.
NeedsPreservation(r) ==
  /\ r.linked \/ r.type = "replay_case" \/ r.tagged
  /\ ~r.linked \/ r.policy # "replay_preserve" \/ r.stability < 70

PreserveRecord(r, now) ==
  [r EXCEPT !.linked = TRUE, !.policy = "replay_preserve",
            !.stability = IF @ < 70 THEN 70 ELSE @, !.updated = now]

-----------------------------------------------------------------------------
\* Maintenance: from a listing (a function from identifiers to records) and
\* the time the job started to the writes it is going to make, one by one.

JobTypes == {"decay_update", "expired_cleanup", "stale_summary_compaction",
             "replay_preservation_enforcement"}

DecayUpdates(listing, now) ==
  {i \in DOMAIN listing : IsDecayEligible(listing[i], now) /\ ~IsExpired(listing[i], now)}

\* Mutant of ExpiredDeletes: protected records are cleaned up too.
ExpiredDeletesAll(listing, now) == {i \in DOMAIN listing : IsExpired(listing[i], now)}

ExpiredDeletes(listing, now) ==
  {i \in DOMAIN listing : /\ IsExpired(listing[i], now)
                          /\ ~listing[i].pinned
                          /\ ~Preserved(listing[i])}

SameGroup(r, s) == r.type = s.type /\ r.src = s.src

\* Mutant of Newer: ties are not broken.
NewerOrSame(listing, i, j) == listing[i].updated >= listing[j].updated

\* The order of a compaction group: the record touched last comes first.
Newer(listing, i, j) ==
  \/ listing[i].updated > listing[j].updated
  \/ listing[i].updated = listing[j].updated /\ i < j

\* Everything but the first of its group, unless it is pinned or linked.
StaleDeletes(listing) ==
  {i \in DOMAIN listing : /\ ~listing[i].pinned
                          /\ ~listing[i].linked
                          /\ \E k \in DOMAIN listing : /\ SameGroup(listing[k], listing[i])
                                                       /\ Newer(listing, k, i)}

PreservationUpdates(listing) ==
  {i \in DOMAIN listing : NeedsPreservation(listing[i])}

=============================================================================
