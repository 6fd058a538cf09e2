--------------------------- MODULE LifecycleProofs ---------------------------
(***************************************************************************)
(* Proofs about the rules of a memory record's life, for every record and  *)
(* every time: each rule turns a record that passes Validate into one that *)
(* passes, and what decay and replay preservation guarantee.               *)
(***************************************************************************)
EXTENDS Lifecycle, TLAPS

LEMMA ClampedIsScore ==
  ASSUME NEW x \in Int
  PROVE  Clamped(x) \in Score
BY DEF Clamped, Capped, Score

LEMMA CappedIsNat ==
  ASSUME NEW x \in Nat, NEW limit \in Nat
  PROVE  Capped(x, limit) \in Nat /\ Capped(x, limit) <= limit
BY DEF Capped

LEMMA StabilityIsScore ==
  ASSUME NEW r \in Record
  PROVE  ComputeStability(r) \in Score
<1>1. r.importance \in Int /\ r.recalls \in Nat /\ r.references \in Nat
  BY DEF Record, Score
<1>2. ASSUME NEW x \in Nat, NEW limit \in Nat
      PROVE  Capped(x, limit) \in Int
  BY CappedIsNat
<1>3. Capped(5 * r.recalls, 20) \in Int /\ Capped(4 * r.references, 16) \in Int
  <2>1. 5 * r.recalls \in Nat /\ 4 * r.references \in Nat
    BY <1>1
  <2>2. 20 \in Nat /\ 16 \in Nat
    OBVIOUS
  <2>. QED BY <1>2, <2>1, <2>2
<1>. QED BY <1>1, <1>3, ClampedIsScore DEF ComputeStability

LEMMA ScoredIsRecord ==
  ASSUME NEW r \in Record
  PROVE  Scored(r) \in Record
BY StabilityIsScore DEF Scored, Record

LEMMA NormalizedIsRecord ==
  ASSUME NEW in \in Input, NEW now \in Hours
  PROVE  NormalizeRecord(in, now) \in Record
<1> DEFINE policy == IF in.policy = "" THEN DefaultRetentionPolicy(in.type, in.pinned)
                                       ELSE in.policy
           importance == IF in.importance = 0 THEN DefaultImportance ELSE in.importance
           raw == [type       |-> in.type,
                   src        |-> in.src,
                   importance |-> importance,
                   pinned     |-> in.pinned,
                   linked     |-> in.type = "replay_case" \/ policy = "replay_preserve",
                   stability  |-> 0,
                   recalls    |-> 0,
                   references |-> 0,
                   policy     |-> policy,
                   expires    |-> in.expires,
                   accessed   |-> Never,
                   key        |-> in.key,
                   tagged     |-> in.tagged,
                   created    |-> now,
                   updated    |-> now]
<1>1. policy \in Policies
  BY DEF Input, DefaultRetentionPolicy, Policies
<1>2. importance \in Score /\ 0 \in Score /\ 0 \in Nat
  <2>1. in.importance \in Score
    BY DEF Input
  <2>2. 50 \in Score /\ 0 \in Score /\ 0 \in Nat
    BY DEF Score
  <2>. QED BY <2>1, <2>2 DEF DefaultImportance
<1>3. /\ in.type \in Types /\ in.src \in Sources /\ in.pinned \in BOOLEAN
      /\ in.expires \in Hours \cup {Never} /\ in.key \in Keys \cup {NoKey}
      /\ in.tagged \in BOOLEAN
  BY DEF Input
<1>4. (in.type = "replay_case" \/ policy = "replay_preserve") \in BOOLEAN
  OBVIOUS
<1> HIDE DEF policy, importance
<1>5. raw \in Record
  BY <1>1, <1>2, <1>3, <1>4 DEF Record
<1>6. NormalizeRecord(in, now) = Scored(raw)
  BY DEF NormalizeRecord, policy, importance
<1>. QED BY <1>5, <1>6, ScoredIsRecord

LEMMA LegacyIsRecord ==
  ASSUME NEW r \in Record
  PROVE  NormalizeLegacyRecord(r) \in Record
<1>1. [r EXCEPT !.linked = @ \/ r.type = "replay_case" \/ r.policy = "replay_preserve"] \in Record
  BY DEF Record
<1>. QED BY <1>1, ScoredIsRecord DEF NormalizeLegacyRecord

LEMMA RecalledIsRecord ==
  ASSUME NEW r \in Record, NEW now \in Hours
  PROVE  RecallRecord(r, now) \in Record
<1>1. r.recalls + 1 \in Nat
  BY DEF Record
<1>2. [r EXCEPT !.recalls = @ + 1, !.accessed = now, !.updated = now] \in Record
  BY <1>1 DEF Record
<1>. QED BY <1>2, ScoredIsRecord DEF RecallRecord

LEMMA DecayedIsRecord ==
  ASSUME NEW r \in Record, NEW now \in Hours
  PROVE  DecayRecord(r, now) \in Record
<1>1. Clamped(r.stability - Penalty(r)) \in Score
  <2>1. r.stability - Penalty(r) \in Int
    BY DEF Record, Score, Penalty
  <2>. QED BY <2>1, ClampedIsScore
<1>. QED BY <1>1 DEF DecayRecord, Record

LEMMA PreservedIsRecord ==
  ASSUME NEW r \in Record, NEW now \in Hours
  PROVE  PreserveRecord(r, now) \in Record
<1>1. (IF r.stability < 70 THEN 70 ELSE r.stability) \in Score
  BY DEF Record, Score
<1>. QED BY <1>1 DEF PreserveRecord, Record, Policies

-----------------------------------------------------------------------------

\* A decayed record that has not expired is out of reach of every decay job
\* that starts less than twelve hours later, whatever its policy and scores
\* (domain/memory/models.go:256-270,285): what paces the decay.
THEOREM DecayRestartsWindow ==
  ASSUME NEW r \in Record, NEW now \in Hours, NEW later \in Hours, later < now + 12,
         ~IsExpired(r, later)
  PROVE  ~IsDecayEligible(DecayRecord(r, now), later)
<1> DEFINE d == DecayRecord(r, now)
<1>1. d \in Record /\ d.updated = now /\ d.expires = r.expires /\ d.accessed = r.accessed
  BY DecayedIsRecord DEF DecayRecord, Record
<1> HIDE DEF d
<1>2. LastActivity(d) \in Nat /\ LastActivity(d) >= now
  BY <1>1, NeverAssumption DEF LastActivity, Record, Hours
<1>3. DecayWindow(d) \in Nat /\ DecayWindow(d) >= 12
  <2>1. /\ d.importance \in 0 .. 100 /\ d.stability \in 0 .. 100
        /\ d.recalls \in Nat /\ d.references \in Nat
    BY <1>1 DEF Record, Score
  <2>2. d.importance \div 2 \in Nat /\ d.stability \div 3 \in Nat
    BY <2>1
  <2>. QED BY <2>1, <2>2 DEF DecayWindow
<1>4. ~(LastActivity(d) + DecayWindow(d) <= later)
  BY <1>2, <1>3 DEF Hours
<1>5. ~IsExpired(d, later)
  BY <1>1 DEF IsExpired
<1>. QED BY <1>4, <1>5 DEF IsDecayEligible, d

\* A record that replay preservation has taken over is settled: the next run
\* of the job leaves it alone, and no later run of decay, cleanup or
\* compaction touches it (ops/service.go:187,218,237; models.go:257).
THEOREM PreservationSettles ==
  ASSUME NEW r \in Record, NEW now \in Hours, NEW later \in Hours,
         NEW listing, NEW i \in DOMAIN listing, listing[i] = PreserveRecord(r, now)
  PROVE  /\ i \notin PreservationUpdates(listing)
         /\ i \notin DecayUpdates(listing, later)
         /\ i \notin ExpiredDeletes(listing, later)
         /\ i \notin StaleDeletes(listing)
<1>1. listing[i].linked /\ listing[i].policy = "replay_preserve"
  BY DEF PreserveRecord, Record
<1>2. listing[i].stability \in Score /\ listing[i].stability >= 70
  BY DEF PreserveRecord, Record, Score
<1>. QED BY <1>1, <1>2 DEF PreservationUpdates, NeedsPreservation, DecayUpdates,
            IsDecayEligible, Preserved, ExpiredDeletes, StaleDeletes, Score

=============================================================================
