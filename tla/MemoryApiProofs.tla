--------------------------- MODULE MemoryApiProofs ---------------------------
(***************************************************************************)
(* Machine-checked proofs about what the maintenance jobs do to the scores *)
(* of the records and to each other's work, for any number of clients, any *)
(* inputs, any interleaving and any clock.                                 *)
(***************************************************************************)
EXTENDS MemoryApi, MemoryServiceProofs

-----------------------------------------------------------------------------
\* The pace of the decay, for one record b as it was created and a copy r.

FloorOf(b, t) == b.stability - 15 * ((t - b.created) \div 12)

\* A record as normalizeRecord makes it.
Fresh(b) ==
  /\ b.recalls = 0 /\ b.references = 0 /\ b.created = b.updated
  /\ b.stability = ComputeStability(b)
  /\ b.type = "replay_case" \/ b.policy = "replay_preserve" => b.linked

IsCopy(b, r) == SameIdentity(r, b) /\ (b.linked => r.linked)

\* At t the score of the copy is on pace, and so it was when the copy was last
\* touched: the next decay is measured from there.
PacedBy(b, r, t) ==
  /\ r.stability >= FloorOf(b, t)
  /\ ~Preserved(r) => b.created <= r.updated /\ r.stability >= FloorOf(b, r.updated)

LEMMA FloorFalls ==
  ASSUME NEW b \in Record, NEW t \in Hours, NEW u \in Hours, b.created <= t, t <= u
  PROVE  /\ FloorOf(b, t) \in Int /\ FloorOf(b, u) \in Int
         /\ FloorOf(b, u) <= FloorOf(b, t) /\ FloorOf(b, t) <= b.stability
         /\ t + 12 <= u => FloorOf(b, u) <= FloorOf(b, t) - 15
<1>1. b.created \in Nat /\ b.stability \in Nat
  BY DEF Record, Hours, Score
<1>2. ASSUME NEW x \in Nat, NEW y \in Nat, x <= y
      PROVE  /\ x \div 12 \in Nat /\ y \div 12 \in Nat /\ x \div 12 <= y \div 12
             /\ x + 12 <= y => x \div 12 + 1 <= y \div 12
  BY <1>2
<1>3. t - b.created \in Nat /\ u - b.created \in Nat /\ t - b.created <= u - b.created
  BY <1>1 DEF Hours
<1>4. t + 12 <= u => t - b.created + 12 <= u - b.created
  BY <1>1 DEF Hours
<1> DEFINE p == (t - b.created) \div 12
           q == (u - b.created) \div 12
<1>5. p \in Nat /\ q \in Nat /\ p <= q /\ (t + 12 <= u => p + 1 <= q)
  BY <1>2, <1>3, <1>4
<1>6. FloorOf(b, t) = b.stability - 15 * p /\ FloorOf(b, u) = b.stability - 15 * q
  BY DEF FloorOf
<1> HIDE DEF p, q
<1>. QED BY <1>1, <1>5, <1>6

LEMMA ClampedGrows ==
  ASSUME NEW x \in Int, NEW y \in Int, x <= y
  PROVE  Clamped(x) <= Clamped(y)
BY DEF Clamped, Capped

\* Computed again, the score of a copy is no lower than it was at creation.
LEMMA StabilityGrows ==
  ASSUME NEW b \in Record, NEW r \in Record, Fresh(b), IsCopy(b, r)
  PROVE  ComputeStability(r) >= b.stability
<1> DEFINE X == Capped(5 * r.recalls, 20)
           Y == Capped(4 * r.references, 16)
           P == IF r.pinned THEN 20 ELSE 0
           L(s) == IF s.linked \/ s.type = "replay_case" \/ s.policy = "replay_preserve"
                   THEN 15 ELSE 0
<1>1. r.importance \in Int /\ r.recalls \in Nat /\ r.references \in Nat
  BY DEF Record, Score
<1>2. X \in Nat /\ Y \in Nat
  <2>1. 5 * r.recalls \in Nat /\ 4 * r.references \in Nat /\ 20 \in Nat /\ 16 \in Nat
    BY <1>1
  <2>. QED BY <2>1, CappedIsNat
<1>3. Capped(5 * b.recalls, 20) = 0 /\ Capped(4 * b.references, 16) = 0
  BY DEF Fresh, Capped
<1>4. /\ b.importance = r.importance /\ (IF b.pinned THEN 20 ELSE 0) = P
      /\ b.type = r.type /\ (b.linked => r.linked)
  BY DEF IsCopy, SameIdentity
<1>5. L(b) <= L(r) /\ L(b) \in Nat /\ L(r) \in Nat /\ P \in Nat
  BY <1>4 DEF Fresh
<1>6. ComputeStability(b) = Clamped(r.importance + 0 + 0 + P + L(b))
  BY <1>3, <1>4 DEF ComputeStability
<1>7. ComputeStability(r) = Clamped(r.importance + X + Y + P + L(r))
  BY DEF ComputeStability
<1> HIDE DEF X, Y, P, L
<1>8. /\ r.importance + 0 + 0 + P + L(b) \in Int
      /\ r.importance + X + Y + P + L(r) \in Int
      /\ r.importance + 0 + 0 + P + L(b) <= r.importance + X + Y + P + L(r)
  BY <1>1, <1>2, <1>5
<1>9. ComputeStability(b) <= ComputeStability(r)
  BY <1>6, <1>7, <1>8, ClampedGrows
<1>10. ComputeStability(b) \in Int /\ ComputeStability(r) \in Int
  BY StabilityIsScore DEF Score
<1>. QED BY <1>9, <1>10 DEF Fresh

LEMMA NormalizedIsFresh ==
  ASSUME NEW in \in Input, NEW t \in Hours
  PROVE  Fresh(NormalizeRecord(in, t)) /\ NormalizeRecord(in, t).created = t
<1> DEFINE n == NormalizeRecord(in, t)
<1>1. /\ n.recalls = 0 /\ n.references = 0 /\ n.created = t /\ n.updated = t
      /\ n.type = "replay_case" \/ n.policy = "replay_preserve" => n.linked
  BY DEF NormalizeRecord, Scored
<1>2. n.stability = ComputeStability(n)
  BY DEF NormalizeRecord, Scored, ComputeStability
<1>. QED BY <1>1, <1>2 DEF Fresh

\* A decay takes at most 15 off, and only after twelve hours without a touch.
LEMMA DecayIsLate ==
  ASSUME NEW r \in Record, NEW t \in Hours, IsDecayEligible(r, t), ~IsExpired(r, t)
  PROVE  /\ ~Preserved(r)
         /\ r.updated + 12 <= t
         /\ DecayRecord(r, t).stability >= r.stability - 15
<1>1. /\ r.importance \in 0 .. 100 /\ r.stability \in 0 .. 100
      /\ r.recalls \in Nat /\ r.references \in Nat /\ r.updated \in Nat
  BY DEF Record, Score, Hours
<1>2. DecayWindow(r) \in Nat /\ DecayWindow(r) >= 12
  <2>1. r.importance \div 2 \in Nat /\ r.stability \div 3 \in Nat
    BY <1>1
  <2>. QED BY <1>1, <2>1 DEF DecayWindow
<1>3. LastActivity(r) \in Nat /\ LastActivity(r) >= r.updated
  BY <1>1, NeverAssumption DEF LastActivity, Record, Hours
<1>4. ~Preserved(r) /\ LastActivity(r) + DecayWindow(r) <= t
  BY DEF IsDecayEligible
<1>5. Penalty(r) \in 0 .. 15
  BY DEF Penalty
<1>6. DecayRecord(r, t).stability = Clamped(r.stability - Penalty(r))
  BY DEF DecayRecord, Record
<1>7. Clamped(r.stability - Penalty(r)) >= r.stability - 15
  BY <1>1, <1>5 DEF Clamped, Capped
<1>. QED BY <1>1, <1>2, <1>3, <1>4, <1>6, <1>7 DEF Hours

\* Whoever listed, recalled, decayed or preserved a copy that was on pace has
\* one that is.
LEMMA RulesKeepPace ==
  ASSUME NEW b \in Record, NEW r \in Record, Fresh(b), IsCopy(b, r),
         NEW t \in Hours, b.created <= t, r.updated <= t, PacedBy(b, r, t)
  PROVE  /\ PacedBy(b, NormalizeLegacyRecord(r), t)
         /\ PacedBy(b, RecallRecord(r, t), t)
         /\ \A u \in Hours : u <= t => PacedBy(b, PreserveRecord(r, u), t)
         /\ \A u \in Hours : u <= t /\ IsDecayEligible(r, u) /\ ~IsExpired(r, u) =>
              PacedBy(b, DecayRecord(r, u), t)
<1>0. /\ r.stability \in Int /\ r.updated \in Hours /\ b.created \in Hours /\ b.stability \in Int
      /\ FloorOf(b, t) \in Int /\ FloorOf(b, t) <= b.stability
  <2>1. t <= t
    BY DEF Hours
  <2>2. FloorOf(b, t) \in Int /\ FloorOf(b, t) <= b.stability
    BY <2>1, FloorFalls
  <2>. QED BY <2>2 DEF Record, Score
<1>1. PacedBy(b, NormalizeLegacyRecord(r), t)
  <2> DEFINE n == NormalizeLegacyRecord(r)
  <2>1. n \in Record /\ n.updated = r.updated
    BY LegacyIsRecord, RulesTimes
  <2>2. n.stability = r.stability \/ n.stability = ComputeStability(n)
    BY DEF NormalizeLegacyRecord, Scored, ComputeStability, Record
  <2>3. ~Preserved(n) => ~Preserved(r)
    BY DEF NormalizeLegacyRecord, Scored, Preserved, Record
  <2>4. IsCopy(b, n)
    BY RulesKeepIdentity DEF IsCopy, SameIdentity
  <2> HIDE DEF n
  <2>5. n.stability = r.stability \/ n.stability >= b.stability
    BY <2>1, <2>2, <2>4, StabilityGrows
  <2>6. n.stability \in Int
    BY <2>1 DEF Record, Score
  <2>7. n.stability >= FloorOf(b, t)
    BY <1>0, <2>5, <2>6 DEF PacedBy
  <2>8. ASSUME ~Preserved(n)
        PROVE  b.created <= n.updated /\ n.stability >= FloorOf(b, n.updated)
    <3>1. b.created <= r.updated /\ r.stability >= FloorOf(b, r.updated)
      BY <2>3, <2>8 DEF PacedBy
    <3>2. FloorOf(b, r.updated) \in Int /\ FloorOf(b, r.updated) <= b.stability
      BY <1>0, <3>1, FloorFalls
    <3>. QED BY <1>0, <2>1, <2>5, <2>6, <3>1, <3>2
  <2>. QED BY <2>7, <2>8 DEF PacedBy, n
<1>2. PacedBy(b, RecallRecord(r, t), t)
  <2> DEFINE n == RecallRecord(r, t)
  <2>1. n \in Record /\ n.updated = t
    BY RecalledIsRecord, RulesTimes
  <2>2. n.stability = ComputeStability(n)
    BY DEF RecallRecord, Scored, ComputeStability, Record
  <2>3. IsCopy(b, n)
    BY RulesKeepIdentity DEF IsCopy, SameIdentity
  <2> HIDE DEF n
  <2>4. n.stability >= b.stability /\ n.stability \in Int
    BY <2>1, <2>2, <2>3, StabilityGrows DEF Record, Score
  <2>5. n.stability >= FloorOf(b, t)
    BY <1>0, <2>4
  <2>. QED BY <2>1, <2>5 DEF PacedBy, n
<1>3. ASSUME NEW u \in Hours, u <= t
      PROVE  PacedBy(b, PreserveRecord(r, u), t)
  <2> DEFINE n == PreserveRecord(r, u)
  <2>1. n.linked
    BY DEF PreserveRecord, Record
  <2>2. n.stability \in Int /\ n.stability >= r.stability
    BY <1>0 DEF PreserveRecord, Record
  <2>. QED BY <1>0, <2>1, <2>2 DEF PacedBy, Preserved
<1>4. ASSUME NEW u \in Hours, u <= t, IsDecayEligible(r, u), ~IsExpired(r, u)
      PROVE  PacedBy(b, DecayRecord(r, u), t)
  <2> DEFINE n == DecayRecord(r, u)
  <2>1. n \in Record /\ n.updated = u
    BY DecayedIsRecord, RulesTimes
  <2>2. ~Preserved(r) /\ r.updated + 12 <= u /\ n.stability >= r.stability - 15
    BY <1>4, DecayIsLate
  <2> HIDE DEF n
  <2>3. n.stability \in Int
    BY <2>1 DEF Record, Score
  <2>4. b.created <= r.updated /\ r.stability >= FloorOf(b, r.updated)
    BY <2>2 DEF PacedBy
  <2>5. r.updated <= u /\ b.created <= u
    BY <1>0, <2>2, <2>4 DEF Hours
  <2>6. /\ FloorOf(b, r.updated) \in Int /\ FloorOf(b, u) \in Int
        /\ FloorOf(b, u) <= FloorOf(b, r.updated) - 15
    BY <1>0, <2>2, <2>4, <2>5, FloorFalls
  <2>7. FloorOf(b, t) <= FloorOf(b, u)
    BY <1>4, <2>5, FloorFalls
  <2>8. n.stability >= FloorOf(b, u)
    BY <1>0, <2>2, <2>3, <2>4, <2>6
  <2>9. n.stability >= FloorOf(b, t)
    BY <1>0, <2>3, <2>6, <2>7, <2>8
  <2>. QED BY <2>1, <2>5, <2>8, <2>9 DEF PacedBy, n
<1>. QED BY <1>1, <1>2, <1>3, <1>4

-----------------------------------------------------------------------------
\* The same for every copy there is.

Paced(i, r) == i \in UniqueIds => PacedBy(born[i], r, now)

FreshAt(r) == Fresh(r) /\ r.created <= now

TaskPaced(t) ==
  /\ t.at = "store" => FreshAt(t.rec)
  /\ t.at = "write" => Paced(t.id, t.rec)
  /\ t.at = "run" => \A op \in t.plan : Paced(op.id, op.rec)

PaceInv ==
  /\ \A i \in Ids : born[i] # Absent => FreshAt(born[i])
  /\ \A i \in Present : Paced(i, recs[i])
  /\ \A c \in Clients : TaskPaced(task[c])

LEMMA PaceInit == Init => PaceInv
<1>1. Idle.at = "idle"
  BY DEF Idle
<1>. QED BY <1>1 DEF Init, PaceInv, TaskPaced, Present

\* What a decay job plans is a decay of a record that was due.
LEMMA PlannedDecays ==
  ASSUME NEW job, NEW listing, NEW started, NEW op \in Plan(job, listing, started)
  PROVE  \/ /\ op.rec = DecayRecord(listing[op.id], started)
            /\ IsDecayEligible(listing[op.id], started) /\ ~IsExpired(listing[op.id], started)
         \/ op.rec = PreserveRecord(listing[op.id], started)
         \/ op.rec = listing[op.id]
<1>1. CASE job = "decay_update"
  <2>1. PICK i \in DecayUpdates(listing, started) :
              op = Update(i, DecayRecord(listing[i], started))
    BY <1>1 DEF Plan
  <2>. QED BY <2>1 DEF DecayUpdates, Update
<1>2. CASE job # "decay_update"
  BY <1>2 DEF Plan, Update, Delete
<1>. QED BY <1>1, <1>2

\* A copy of the record born under i, with what is known of the two.
LEMMA CopyFacts ==
  ASSUME TypeOK, PaceInv, NEW i \in UniqueIds, NEW r, CopyOf(i, r)
  PROVE  /\ born[i] \in Record /\ Fresh(born[i]) /\ born[i].created <= now
         /\ IsCopy(born[i], r)
BY DEF TypeOK, PaceInv, FreshAt, CopyOf, IsCopy, UniqueIds

LEMMA PlannedPace ==
  ASSUME TypeOK, CopiesInv, TimesInv, PaceInv, NEW job, NEW started \in Hours, started <= now,
         NEW op \in Plan(job, ListAll, started)
  PROVE  Paced(op.id, op.rec)
<1> SUFFICES ASSUME op.id \in UniqueIds
             PROVE  PacedBy(born[op.id], op.rec, now)
  BY DEF Paced
<1> DEFINE b == born[op.id]
           r == recs[op.id]
           l == ListAll[op.id]
<1>1. op.id \in Present
  BY PlannedIsPresent
<1>2. r \in Record /\ l \in Record /\ l = NormalizeLegacyRecord(r) /\ now \in Hours
  BY <1>1, ListingIsRecords DEF Present, TypeOK
<1>3. CopyOf(op.id, r) /\ r.updated <= now /\ PacedBy(b, r, now)
  BY <1>1 DEF CopiesInv, TimesInv, PaceInv, Paced, Present
<1>4. b \in Record /\ Fresh(b) /\ b.created <= now /\ IsCopy(b, r)
  BY <1>3, CopyFacts
<1>5. PacedBy(b, l, now)
  BY <1>2, <1>3, <1>4, RulesKeepPace
<1>6. IsCopy(b, l) /\ l.updated <= now
  BY <1>2, <1>3, <1>4, RulesKeepIdentity, RulesTimes DEF IsCopy, SameIdentity
<1>7. \/ /\ op.rec = DecayRecord(l, started)
         /\ IsDecayEligible(l, started) /\ ~IsExpired(l, started)
      \/ op.rec = PreserveRecord(l, started)
      \/ op.rec = l
  BY PlannedDecays
<1> HIDE DEF b, r, l
<1>8. /\ PacedBy(b, PreserveRecord(l, started), now)
      /\ IsDecayEligible(l, started) /\ ~IsExpired(l, started) =>
           PacedBy(b, DecayRecord(l, started), now)
  BY <1>2, <1>4, <1>5, <1>6, RulesKeepPace
<1>. QED BY <1>5, <1>7, <1>8 DEF b

\* While the clock stands still, what was on pace stays on pace.
LEMMA PacedStays ==
  ASSUME NEW i \in Ids, NEW r, CopyOf(i, r), Paced(i, r), CreationsStay, now' = now
  PROVE  Paced(i, r)'
BY DEF Paced, CopyOf, CreationsStay, UniqueIds

\* A record that is just stored is on pace.
LEMMA FreshIsPaced ==
  ASSUME NEW b \in Record, Fresh(b), NEW t \in Hours, b.created <= t
  PROVE  PacedBy(b, b, t)
<1>1. b.created \in Hours /\ b.created <= b.created /\ b.created = b.updated /\ b.stability \in Int
  BY DEF Fresh, Record, Hours, Score
<1>2. FloorOf(b, t) \in Int /\ FloorOf(b, t) <= b.stability
  BY <1>1, FloorFalls
<1>3. FloorOf(b, b.created) \in Int /\ FloorOf(b, b.created) <= b.stability
  BY <1>1, FloorFalls
<1>. QED BY <1>1, <1>2, <1>3 DEF PacedBy

LEMMA PaceStep ==
  ASSUME TypeOK, TypeOK', IdsInv, CopiesInv, CopiesInv', TimesInv, PaceInv, [Next]_vars
  PROVE  PaceInv'
<1>0. CreationsStay
  BY CreationsStayStep
<1>1. ASSUME NEW c \in Clients, ClientStep(c)
      PROVE  PaceInv'
  <2>1. now' = now /\ now \in Hours
    BY <1>1 DEF ClientStep, PostMemories, GetMemory, PostJob, Lookup, Store, Read, Write, List,
                Report, Apply, TypeOK
  <2>2. ASSUME NEW i \in Ids, NEW r, CopyOf(i, r), Paced(i, r)
        PROVE  Paced(i, r)'
    BY <1>0, <2>1, <2>2, PacedStays
  <2>3. ASSUME NEW i \in Ids, born'[i] # born[i]
        PROVE  /\ task[c].at = "store" /\ i = task[c].id
               /\ born'[i] = task[c].rec /\ recs'[i] = task[c].rec
    <3>1. Store(c)
      BY <1>1, <2>3 DEF ClientStep, PostMemories, GetMemory, PostJob, Lookup, Read, Write, List,
                        Report, Apply, history
    <3>. QED BY <2>3, <3>1 DEF Store, TypeOK
  <2>4. \A i \in Ids : born'[i] # Absent => FreshAt(born[i])'
    BY <2>1, <2>3 DEF PaceInv, TaskPaced, FreshAt
  <2>5. ASSUME NEW i \in Present'
        PROVE  Paced(i, recs[i])'
    <3>1. i \in Ids /\ recs'[i] # Absent
      BY <2>5 DEF Present
    <3>2. CASE recs'[i] = recs[i]
      <4>1. CopyOf(i, recs[i]) /\ Paced(i, recs[i])
        BY <3>1, <3>2 DEF CopiesInv, PaceInv, Present
      <4>. QED BY <2>2, <3>1, <3>2, <4>1
    <3>3. CASE recs'[i] # recs[i] /\ task[c].at = "store"
      <4>1. Store(c)
        <5>1. ~Write(c) /\ ~\E op \in task[c].plan : Apply(c, op)
          BY <3>3 DEF Write, Apply
        <5>. QED BY <1>1, <3>3, <5>1 DEF ClientStep, PostMemories, GetMemory, PostJob, Lookup, Read,
                    List, Report
      <4>2. born'[i] = task[c].rec /\ recs'[i] = task[c].rec /\ task[c].rec \in Record
        BY <3>1, <3>3, <4>1, TaskShape DEF Store, TypeOK
      <4>3. FreshAt(task[c].rec)
        BY <3>3 DEF PaceInv, TaskPaced
      <4>4. PacedBy(task[c].rec, task[c].rec, now)
        BY <2>1, <4>2, <4>3, FreshIsPaced DEF FreshAt
      <4>. QED BY <2>1, <4>2, <4>4 DEF Paced
    <3>4. CASE recs'[i] # recs[i] /\ task[c].at # "store"
      <4>1. \/ task[c].at = "write" /\ i = task[c].id /\ recs'[i] = task[c].rec
            \/ task[c].at = "run" /\ \E op \in task[c].plan : i = op.id /\ recs'[i] = op.rec
        BY <1>1, <3>1, <3>4, RecordOrigins
      <4>2. PICK r : recs'[i] = r /\ CopyOf(i, r) /\ Paced(i, r)
        BY <4>1 DEF CopiesInv, PaceInv, TaskPaced
      <4>. QED BY <2>2, <3>1, <4>2
    <3>. QED BY <3>2, <3>3, <3>4
  <2>6. ASSUME NEW t \in Task, TaskCopies(t), TaskPaced(t)
        PROVE  TaskPaced(t)'
    <3>1. t.at = "write" => Paced(t.id, t.rec)'
      BY <2>2, <2>6, TaskShape DEF TaskCopies, TaskPaced
    <3>2. t.at = "store" => FreshAt(t.rec)'
      BY <2>1, <2>6 DEF TaskPaced, FreshAt
    <3>3. ASSUME t.at = "run", NEW op \in t.plan
          PROVE  Paced(op.id, op.rec)'
      BY <2>2, <2>6, <3>3, TaskShape DEF TaskCopies, TaskPaced, Op
    <3>. QED BY <3>1, <3>2, <3>3 DEF TaskPaced
  <2>7. \A d \in Clients \ {c} : TaskPaced(task[d])'
    <3> SUFFICES ASSUME NEW d \in Clients \ {c}
                 PROVE  TaskPaced(task[d])'
      OBVIOUS
    <3>1. task'[d] = task[d] /\ task[d] \in Task /\ TaskCopies(task[d]) /\ TaskPaced(task[d])
      BY <1>1, OthersStay DEF TypeOK, CopiesInv, TaskCopies, PaceInv
    <3>. QED BY <2>6, <3>1
  <2>8. task'[c].at = "store" => FreshAt(task[c].rec)'
    <3> SUFFICES ASSUME task'[c].at = "store"
                 PROVE  FreshAt(task[c].rec)'
      OBVIOUS
    <3>1. Lookup(c)
      <4>1. task[c].at = "lookup"
        BY <1>1, TaskOrigins
      <4>2. \A b, j : ~PostMemories(c, b) /\ ~GetMemory(c, j) /\ ~PostJob(c, j)
        BY <4>1 DEF PostMemories, GetMemory, PostJob, Idle
      <4>. QED BY <1>1, <4>1, <4>2 DEF ClientStep, Store, Read, Write, List, Report
    <3>2. PICK in \in Input : task'[c].rec = NormalizeRecord(in, now)
      BY <3>1, LookedUp
    <3>. QED BY <2>1, <3>2, NormalizedIsFresh DEF FreshAt, Hours
  <2>9. task'[c].at = "write" => Paced(task[c].id, task[c].rec)'
    <3> SUFFICES ASSUME task'[c].at = "write"
                 PROVE  Paced(task[c].id, task[c].rec)'
      OBVIOUS
    <3> DEFINE i == task'[c].id
               r == recs[i]
    <3>1. Read(c)
      BY <1>1, TaskOrigins
    <3>2. /\ UNCHANGED <<shared, born>> /\ i \in Ids /\ r \in Record /\ r # Absent
          /\ task'[c].rec = RecallRecord(r, now)
      BY <3>1, Recalled
    <3>3. CopyOf(i, r) /\ r.updated <= now /\ Paced(i, r)
      BY <3>2 DEF CopiesInv, TimesInv, PaceInv, Present
    <3>4. Paced(i, RecallRecord(r, now))
      BY <2>1, <3>2, <3>3, CopyFacts, RulesKeepPace DEF Paced
    <3>. QED BY <2>1, <3>2, <3>4 DEF Paced, UniqueIds
  <2>10. ASSUME task'[c].at = "run", NEW op \in task'[c].plan
         PROVE  Paced(op.id, op.rec)'
    <3>1. CASE List(c)
      <4>1. /\ task'[c].plan = Plan(task[c].job, ListAll, task[c].started)
            /\ task[c].started \in Hours /\ task[c].started <= now
            /\ UNCHANGED <<shared, born>>
        BY <3>1, Listed DEF TimesInv, TaskTimes
      <4>2. Paced(op.id, op.rec)
        BY <2>10, <4>1, PlannedPace
      <4>. QED BY <2>1, <4>1, <4>2 DEF Paced, UniqueIds
    <3>2. ASSUME task[c].at = "run", NEW o \in task[c].plan, Apply(c, o)
          PROVE  Paced(op.id, op.rec)'
      <4>1. op \in task[c].plan
        BY <2>10, <3>2, ApplyCases
      <4>2. op.id \in Ids /\ CopyOf(op.id, op.rec) /\ Paced(op.id, op.rec)
        BY <3>2, <4>1, TaskShape DEF TypeOK, Op, CopiesInv, PaceInv, TaskPaced
      <4>. QED BY <2>2, <4>2
    <3>. QED BY <1>1, <2>10, <3>1, <3>2, TaskOrigins
  <2>11. TaskPaced(task[c])'
    BY <2>8, <2>9, <2>10 DEF TaskPaced
  <2>. QED BY <2>4, <2>5, <2>7, <2>11 DEF PaceInv
<1>2. CASE Tick
  <2>1. /\ now \in Hours /\ now' \in Hours /\ now <= now'
        /\ UNCHANGED <<recs, task, born, shared>>
    BY <1>2, BoundsAssumption DEF Tick, TypeOK, Hours, history
  <2>2. ASSUME NEW i \in Ids, NEW r, r \in Record, CopyOf(i, r), Paced(i, r)
        PROVE  Paced(i, r)'
    <3> SUFFICES ASSUME i \in UniqueIds
                 PROVE  PacedBy(born[i], r, now')
      BY <2>1 DEF Paced, UniqueIds
    <3>1. born[i] \in Record /\ born[i].created <= now
      BY <2>2, CopyFacts
    <3>2. /\ FloorOf(born[i], now) \in Int /\ FloorOf(born[i], now') \in Int
          /\ FloorOf(born[i], now') <= FloorOf(born[i], now)
      BY <2>1, <3>1, FloorFalls
    <3>3. r.stability \in Int
      BY <2>2 DEF Record, Score
    <3>. QED BY <2>2, <3>2, <3>3 DEF Paced, PacedBy
  <2>3. ASSUME NEW r \in Record, FreshAt(r)
        PROVE  FreshAt(r)'
    BY <2>1, <2>3 DEF FreshAt, Record, Hours
  <2>4. \A i \in Ids : born'[i] # Absent => FreshAt(born[i])'
    BY <2>1, <2>3 DEF PaceInv, TypeOK
  <2>5. \A i \in Present : Paced(i, recs[i])'
    <3> SUFFICES ASSUME NEW i \in Present
                 PROVE  Paced(i, recs[i])'
      OBVIOUS
    <3>1. i \in Ids /\ recs[i] \in Record /\ CopyOf(i, recs[i]) /\ Paced(i, recs[i])
      BY DEF Present, TypeOK, CopiesInv, PaceInv
    <3>. QED BY <2>1, <2>2, <3>1
  <2>6. ASSUME NEW c \in Clients
        PROVE  TaskPaced(task[c])'
    <3>1. task[c] \in Task /\ TaskCopies(task[c]) /\ TaskPaced(task[c]) /\ task'[c] = task[c]
      BY <2>1 DEF TypeOK, CopiesInv, TaskCopies, PaceInv
    <3>2. task[c].at = "store" => FreshAt(task[c].rec)'
      BY <2>3, <3>1, TaskShape DEF TaskPaced
    <3>3. task[c].at = "write" => Paced(task[c].id, task[c].rec)'
      BY <2>2, <3>1, TaskShape DEF TaskPaced, TaskCopies
    <3>4. ASSUME task[c].at = "run", NEW op \in task[c].plan
          PROVE  Paced(op.id, op.rec)'
      <4>1. /\ op.id \in Ids /\ op.rec \in Record /\ CopyOf(op.id, op.rec)
            /\ Paced(op.id, op.rec)
        BY <3>1, <3>4, TaskShape DEF Op, TaskCopies, TaskPaced
      <4>. QED BY <2>2, <4>1
    <3>. QED BY <3>1, <3>2, <3>3, <3>4 DEF TaskPaced
  <2>. QED BY <2>1, <2>4, <2>5, <2>6 DEF PaceInv, Present
<1>3. CASE UNCHANGED vars
  BY <1>3 DEF vars, history, PaceInv, TaskPaced, Paced, FreshAt, Present, UniqueIds
<1>. QED BY <1>1, <1>2, <1>3, StepCases

LEMMA PaceInvariant == Spec => [](IInv /\ JobsInv /\ PaceInv)
<1>1. Init => PaceInv
  BY PaceInit
<1>2. IInv /\ IInv' /\ JobsInv /\ PaceInv /\ [Next]_vars => PaceInv'
  BY PaceStep DEF IInv, JobsInv
<1>. QED BY <1>1, <1>2, JobsInvariant, PTL DEF Spec

\* A record loses at most 15 points for every whole twelve hours it has existed,
\* however many decay jobs and stale writes interleave: every copy anyone holds
\* is above that line, now and at the time it was last touched
\* (domain/memory/models.go:264-286).
THEOREM DecayKeepsPace == Spec => []DecayIsPaced
<1>1. IInv /\ PaceInv => DecayIsPaced
  BY DEF PaceInv, Paced, PacedBy, FloorOf, DecayIsPaced, Present, UniqueIds
<1>. QED BY <1>1, PaceInvariant, PTL

-----------------------------------------------------------------------------
\* What is left to do after a job has run on a listing, with nobody in between.

\* A listing holds normalised records: normalising them again changes nothing.
IsListing(l) ==
  \A i \in DOMAIN l : l[i] \in Record /\ NormalizeLegacyRecord(l[i]) = l[i]

LEMMA NormalizeTwice ==
  ASSUME NEW r \in Record
  PROVE  NormalizeLegacyRecord(NormalizeLegacyRecord(r)) = NormalizeLegacyRecord(r)
<1> DEFINE a == [r EXCEPT !.linked = @ \/ r.type = "replay_case" \/ r.policy = "replay_preserve"]
           n == NormalizeLegacyRecord(r)
<1>1. a \in Record /\ (a.type = "replay_case" \/ a.policy = "replay_preserve" => a.linked)
  BY DEF Record
<1>2. a.stability = r.stability
  BY DEF Record
<1>3. ASSUME NEW x \in Record, x.type = "replay_case" \/ x.policy = "replay_preserve" => x.linked
      PROVE  NormalizeLegacyRecord(x) = IF x.stability = 0 THEN Scored(x) ELSE x
  <2>1. x.linked \in BOOLEAN
    BY DEF Record
  <2>2. (x.linked \/ x.type = "replay_case" \/ x.policy = "replay_preserve") = x.linked
    BY <1>3, <2>1
  <2>3. [x EXCEPT !.linked = x.linked] = x
    BY DEF Record
  <2>. QED BY <2>2, <2>3 DEF NormalizeLegacyRecord
<1>4. n = IF r.stability = 0 THEN Scored(a) ELSE a
  BY DEF NormalizeLegacyRecord
<1> HIDE DEF a, n
<1>5. CASE r.stability # 0
  BY <1>1, <1>2, <1>3, <1>4, <1>5 DEF n
<1>6. CASE r.stability = 0
  <2>1. Scored(a) \in Record /\ Scored(a).linked = a.linked /\ Scored(a).type = a.type
        /\ Scored(a).policy = a.policy
    BY <1>1, ScoredIsRecord DEF Scored, Record
  <2>2. ComputeStability(Scored(a)) = ComputeStability(a)
    BY <1>1 DEF ComputeStability, Scored, Record
  <2>3. Scored(Scored(a)) = Scored(a)
    BY <1>1, <2>2 DEF Scored, Record
  <2>. QED BY <1>1, <1>3, <1>4, <1>6, <2>1, <2>3 DEF n
<1>. QED BY <1>5, <1>6

LEMMA ListAllIsListing ==
  ASSUME TypeOK
  PROVE  IsListing(ListAll)
<1>1. DOMAIN ListAll = Present
  BY DEF ListAll
<1>. QED BY <1>1, ListingIsRecords, NormalizeTwice DEF IsListing, Present, TypeOK

\* Which records a job writes to, deletes and leaves.
Written(job, l, t) ==
  CASE job = "decay_update" -> DecayUpdates(l, t)
    [] job = "replay_preservation_enforcement" -> PreservationUpdates(l)
    [] OTHER -> {}

Deleted(job, l, t) ==
  CASE job = "expired_cleanup" -> ExpiredDeletes(l, t)
    [] job = "stale_summary_compaction" -> StaleDeletes(l)
    [] OTHER -> {}

Rewritten(job, r, t) ==
  IF job = "decay_update" THEN DecayRecord(r, t) ELSE PreserveRecord(r, t)

LEMMA PlanByIds ==
  ASSUME NEW job \in JobTypes, NEW l, NEW t
  PROVE  Plan(job, l, t) = {Update(i, Rewritten(job, l[i], t)) : i \in Written(job, l, t)}
                           \cup {Delete(i, l[i]) : i \in Deleted(job, l, t)}
BY DEF Plan, Written, Deleted, Rewritten, JobTypes

LEMMA EmptyPlan ==
  ASSUME NEW job \in JobTypes, NEW l, NEW t,
         Written(job, l, t) = {}, Deleted(job, l, t) = {}
  PROVE  Plan(job, l, t) = {}
BY PlanByIds

LEMMA AfterJobIs ==
  ASSUME NEW job \in JobTypes, NEW l, NEW t
  PROVE  /\ DOMAIN AfterJob(job, l, t) = DOMAIN l \ Deleted(job, l, t)
         /\ \A i \in DOMAIN l \ Deleted(job, l, t) :
              AfterJob(job, l, t)[i] =
                NormalizeLegacyRecord(IF i \in Written(job, l, t)
                                      THEN Rewritten(job, l[i], t) ELSE l[i])
<1> DEFINE plan == Plan(job, l, t)
           gone == {op.id : op \in {o \in plan : o.do = "delete"}}
           rec(i) == IF \E op \in plan : op.id = i
                     THEN (CHOOSE op \in plan : op.id = i).rec ELSE l[i]
<1>1. plan = {Update(i, Rewritten(job, l[i], t)) : i \in Written(job, l, t)}
             \cup {Delete(i, l[i]) : i \in Deleted(job, l, t)}
  BY PlanByIds
<1>2. \A o, p \in plan : o.id = p.id => o = p
  BY PlanIsFunctional
<1> HIDE DEF plan
<1>3. gone = Deleted(job, l, t)
  <2>1. \A i \in Deleted(job, l, t) : Delete(i, l[i]) \in plan
    BY <1>1
  <2>2. \A i : Delete(i, l[i]).do = "delete" /\ Delete(i, l[i]).id = i
    BY DEF Delete
  <2>3. Deleted(job, l, t) \subseteq gone
    BY <2>1, <2>2
  <2>4. ASSUME NEW op \in plan, op.do = "delete"
        PROVE  op.id \in Deleted(job, l, t)
    <3>1. \A i, r : Update(i, r).do # "delete"
      BY DEF Update
    <3>2. PICK i \in Deleted(job, l, t) : op = Delete(i, l[i])
      BY <1>1, <2>4, <3>1
    <3>. QED BY <2>2, <3>2
  <2>. QED BY <2>3, <2>4
<1>4. ASSUME NEW i \in DOMAIN l \ Deleted(job, l, t)
      PROVE  rec(i) = IF i \in Written(job, l, t) THEN Rewritten(job, l[i], t) ELSE l[i]
  <2>1. CASE i \in Written(job, l, t)
    <3>1. Update(i, Rewritten(job, l[i], t)) \in plan
      BY <1>1, <2>1
    <3>2. (CHOOSE op \in plan : op.id = i) = Update(i, Rewritten(job, l[i], t))
      <4>1. Update(i, Rewritten(job, l[i], t)).id = i
        BY DEF Update
      <4>. QED BY <1>2, <3>1, <4>1
    <3>3. Update(i, Rewritten(job, l[i], t)).rec = Rewritten(job, l[i], t)
          /\ Update(i, Rewritten(job, l[i], t)).id = i
      BY DEF Update
    <3>. QED BY <2>1, <3>1, <3>2, <3>3
  <2>2. CASE i \notin Written(job, l, t)
    <3>1. \A op \in plan : op.id # i
      BY <1>1, <1>4, <2>2 DEF Update, Delete
    <3>. QED BY <2>2, <3>1
  <2>. QED BY <2>1, <2>2
<1>5. AfterJob(job, l, t) = [i \in DOMAIN l \ gone |-> NormalizeLegacyRecord(rec(i))]
  BY DEF AfterJob, plan
<1> HIDE DEF gone, rec
<1>. QED BY <1>3, <1>4, <1>5

\* Who is left alone stays as it is listed.
LEMMA AfterJobKeeps ==
  ASSUME NEW job \in JobTypes, NEW l, IsListing(l), NEW t \in Hours
  PROVE  /\ IsListing(AfterJob(job, l, t))
         /\ DOMAIN AfterJob(job, l, t) = DOMAIN l \ Deleted(job, l, t)
         /\ \A i \in DOMAIN AfterJob(job, l, t) :
              AfterJob(job, l, t)[i] = IF i \in Written(job, l, t)
                                       THEN NormalizeLegacyRecord(Rewritten(job, l[i], t))
                                       ELSE l[i]
<1> DEFINE m == AfterJob(job, l, t)
<1>1. DOMAIN m = DOMAIN l \ Deleted(job, l, t)
  BY AfterJobIs
<1>2. ASSUME NEW i \in DOMAIN m
      PROVE  /\ m[i] \in Record /\ NormalizeLegacyRecord(m[i]) = m[i]
             /\ m[i] = IF i \in Written(job, l, t)
                       THEN NormalizeLegacyRecord(Rewritten(job, l[i], t)) ELSE l[i]
  <2>1. i \in DOMAIN l /\ l[i] \in Record /\ NormalizeLegacyRecord(l[i]) = l[i]
    BY <1>1 DEF IsListing
  <2>2. Rewritten(job, l[i], t) \in Record
    BY <2>1, DecayedIsRecord, PreservedIsRecord DEF Rewritten
  <2>3. m[i] = NormalizeLegacyRecord(IF i \in Written(job, l, t)
                                     THEN Rewritten(job, l[i], t) ELSE l[i])
    BY <1>1, AfterJobIs
  <2>4. m[i] = IF i \in Written(job, l, t)
               THEN NormalizeLegacyRecord(Rewritten(job, l[i], t)) ELSE l[i]
    BY <2>1, <2>3
  <2> HIDE DEF m
  <2>. QED BY <2>1, <2>2, <2>4, LegacyIsRecord, NormalizeTwice
<1>. QED BY <1>1, <1>2 DEF IsListing

\* A decayed record is not decayed again at the same time, nor counted in the
\* decay queue.
LEMMA DecayedIsSettled ==
  ASSUME NEW r \in Record, NEW t \in Hours, ~IsExpired(r, t)
  PROVE  ~IsDecayEligible(NormalizeLegacyRecord(DecayRecord(r, t)), t)
<1> DEFINE d == DecayRecord(r, t)
           n == NormalizeLegacyRecord(d)
<1>1. d \in Record /\ d.updated = t /\ d.expires = r.expires
  BY DecayedIsRecord DEF DecayRecord, Record
<1> HIDE DEF d
<1>2. n \in Record /\ n.updated = t /\ n.expires = r.expires
  <2>1. n \in Record /\ n.updated = d.updated
    BY <1>1, LegacyIsRecord, RulesTimes
  <2>2. SameIdentity(n, d)
    BY <1>1, RulesKeepIdentity
  <2>. QED BY <1>1, <2>1, <2>2 DEF SameIdentity
<1> HIDE DEF n
<1>3. LastActivity(n) \in Nat /\ LastActivity(n) >= t
  BY <1>2, NeverAssumption DEF LastActivity, Record, Hours
<1>4. DecayWindow(n) \in Nat /\ DecayWindow(n) >= 12
  <2>1. /\ n.importance \in 0 .. 100 /\ n.stability \in 0 .. 100
        /\ n.recalls \in Nat /\ n.references \in Nat
    BY <1>2 DEF Record, Score
  <2>2. n.importance \div 2 \in Nat /\ n.stability \div 3 \in Nat
    BY <2>1
  <2>. QED BY <2>1, <2>2 DEF DecayWindow
<1>5. ~(LastActivity(n) + DecayWindow(n) <= t)
  BY <1>3, <1>4 DEF Hours
<1>6. ~IsExpired(n, t)
  BY <1>2 DEF IsExpired
<1>. QED BY <1>5, <1>6 DEF IsDecayEligible, n, d

LEMMA PreservedIsSettled ==
  ASSUME NEW r \in Record, NEW t \in Hours
  PROVE  ~NeedsPreservation(NormalizeLegacyRecord(PreserveRecord(r, t)))
<1> DEFINE d == PreserveRecord(r, t)
           n == NormalizeLegacyRecord(d)
<1>1. d \in Record /\ d.linked /\ d.policy = "replay_preserve" /\ d.stability >= 70
  <2>1. d \in Record
    BY PreservedIsRecord
  <2>2. d.linked /\ d.policy = "replay_preserve"
    BY DEF PreserveRecord, Record
  <2>3. d.stability >= 70
    BY DEF PreserveRecord, Record, Score
  <2>. QED BY <2>1, <2>2, <2>3
<1> HIDE DEF d
<1>2. d.stability # 0
  BY <1>1 DEF Record, Score
<1>3. n.linked /\ n.policy = d.policy /\ n.stability = d.stability
  BY <1>1, <1>2 DEF NormalizeLegacyRecord, Record
<1>4. ~(n.stability < 70)
  BY <1>1, <1>3 DEF Record, Score
<1>. QED BY <1>1, <1>3, <1>4 DEF NeedsPreservation, n, d

LEMMA JobSettles ==
  ASSUME NEW job \in JobTypes, NEW l, IsListing(l), NEW t \in Hours
  PROVE  Plan(job, AfterJob(job, l, t), t) = {}
<1> DEFINE m == AfterJob(job, l, t)
<1>1. /\ DOMAIN m = DOMAIN l \ Deleted(job, l, t)
      /\ \A i \in DOMAIN m :
           m[i] = IF i \in Written(job, l, t)
                  THEN NormalizeLegacyRecord(Rewritten(job, l[i], t)) ELSE l[i]
  BY AfterJobKeeps
<1>2. \A i \in DOMAIN l : l[i] \in Record
  BY DEF IsListing
<1> HIDE DEF m
<1>3. CASE job = "decay_update"
  <2>1. ASSUME NEW i \in DecayUpdates(m, t)
        PROVE  FALSE
    <3>1. i \in DOMAIN m /\ i \in DOMAIN l /\ IsDecayEligible(m[i], t) /\ ~IsExpired(m[i], t)
      BY <1>1 DEF DecayUpdates
    <3>2. i \in DecayUpdates(l, t)
      BY <1>1, <1>3, <3>1 DEF DecayUpdates, Written
    <3>3. m[i] = NormalizeLegacyRecord(DecayRecord(l[i], t)) /\ ~IsExpired(l[i], t)
      BY <1>1, <1>3, <3>1, <3>2 DEF DecayUpdates, Written, Rewritten
    <3>. QED BY <1>2, <3>1, <3>3, DecayedIsSettled
  <2>. QED BY <1>3, <2>1 DEF m, Plan
<1>4. CASE job = "expired_cleanup"
  <2>1. ExpiredDeletes(m, t) = {}
    BY <1>1, <1>4 DEF ExpiredDeletes, Written, Deleted
  <2>. QED BY <1>4, <2>1 DEF m, Plan
<1>5. CASE job = "stale_summary_compaction"
  <2>1. DOMAIN m = DOMAIN l \ StaleDeletes(l) /\ \A i \in DOMAIN m : m[i] = l[i]
    BY <1>1, <1>5 DEF Written, Deleted
  <2>2. StaleDeletes(m) = {}
    BY <2>1 DEF StaleDeletes, Newer, SameGroup
  <2>. QED BY <1>5, <2>2 DEF m, Plan
<1>6. CASE job = "replay_preservation_enforcement"
  <2>1. ASSUME NEW i \in PreservationUpdates(m)
        PROVE  FALSE
    <3>1. i \in DOMAIN m /\ i \in DOMAIN l /\ NeedsPreservation(m[i])
      BY <1>1 DEF PreservationUpdates
    <3>2. i \in PreservationUpdates(l)
      BY <1>1, <1>6, <3>1 DEF PreservationUpdates, Written
    <3>3. m[i] = NormalizeLegacyRecord(PreserveRecord(l[i], t))
      BY <1>1, <1>6, <3>1, <3>2 DEF Written, Rewritten
    <3>. QED BY <1>2, <3>1, <3>3, PreservedIsSettled
  <2>. QED BY <1>6, <2>1 DEF m, Plan
<1>. QED BY <1>3, <1>4, <1>5, <1>6 DEF JobTypes

\* The decay queue after a decay is what has expired, after a cleanup it has
\* nothing that has expired.
LEMMA QueueAfterDecay ==
  ASSUME NEW l, IsListing(l), NEW t \in Hours,
         NEW i \in DecayQueue(AfterJob("decay_update", l, t), t)
  PROVE  /\ AfterJob("decay_update", l, t)[i] = l[i] /\ i \in DecayQueue(l, t)
         /\ IsExpired(l[i], t)
<1> DEFINE m == AfterJob("decay_update", l, t)
<1>0. "decay_update" \in JobTypes
  BY DEF JobTypes
<1>1. /\ DOMAIN m = DOMAIN l
      /\ \A j \in DOMAIN m :
           m[j] = IF j \in DecayUpdates(l, t)
                  THEN NormalizeLegacyRecord(DecayRecord(l[j], t)) ELSE l[j]
  BY <1>0, AfterJobKeeps DEF Written, Deleted, Rewritten
<1>2. i \in DOMAIN m /\ IsDecayEligible(m[i], t) /\ l[i] \in Record
  BY <1>1 DEF DecayQueue, IsListing
<1> HIDE DEF m
<1>3. i \notin DecayUpdates(l, t)
  <2>1. i \in DecayUpdates(l, t) => ~IsExpired(l[i], t)
    BY DEF DecayUpdates
  <2>. QED BY <1>1, <1>2, <2>1, DecayedIsSettled
<1>4. m[i] = l[i] /\ i \in DOMAIN l /\ IsDecayEligible(l[i], t)
  BY <1>1, <1>2, <1>3
<1>. QED BY <1>3, <1>4 DEF DecayUpdates, DecayQueue, m

LEMMA AfterCleanup ==
  ASSUME NEW l, IsListing(l), NEW t \in Hours
  PROVE  /\ DOMAIN AfterJob("expired_cleanup", l, t) = DOMAIN l \ ExpiredDeletes(l, t)
         /\ \A i \in DOMAIN AfterJob("expired_cleanup", l, t) :
              AfterJob("expired_cleanup", l, t)[i] = l[i]
         /\ IsListing(AfterJob("expired_cleanup", l, t))
<1>0. "expired_cleanup" \in JobTypes
  BY DEF JobTypes
<1>. QED BY <1>0, AfterJobKeeps DEF Written, Deleted

\* Whatever has expired and may decay is what a cleanup deletes.
LEMMA QueueIsWorkedOff ==
  ASSUME NEW l, IsListing(l), NEW t \in Hours
  PROVE  /\ DecayQueue(AfterJob("decay_update", AfterJob("expired_cleanup", l, t), t), t) = {}
         /\ DecayQueue(AfterJob("expired_cleanup", AfterJob("decay_update", l, t), t), t) = {}
<1>0. "decay_update" \in JobTypes
  BY DEF JobTypes
<1>1. ASSUME NEW k, NEW i \in DecayQueue(k, t), IsExpired(k[i], t)
      PROVE  i \in ExpiredDeletes(k, t)
  BY <1>1 DEF DecayQueue, IsDecayEligible, ExpiredDeletes
<1>2. DecayQueue(AfterJob("decay_update", AfterJob("expired_cleanup", l, t), t), t) = {}
  <2> DEFINE k == AfterJob("expired_cleanup", l, t)
  <2>1. /\ IsListing(k) /\ DOMAIN k = DOMAIN l \ ExpiredDeletes(l, t)
        /\ \A i \in DOMAIN k : k[i] = l[i]
    BY AfterCleanup
  <2> HIDE DEF k
  <2>2. ASSUME NEW i \in DecayQueue(AfterJob("decay_update", k, t), t)
        PROVE  FALSE
    <3>1. i \in DecayQueue(k, t) /\ IsExpired(k[i], t)
      BY <2>1, QueueAfterDecay
    <3>2. i \in DecayQueue(l, t) /\ IsExpired(l[i], t) /\ i \notin ExpiredDeletes(l, t)
      BY <2>1, <3>1 DEF DecayQueue
    <3>. QED BY <1>1, <3>2
  <2>. QED BY <2>2 DEF k
<1>3. DecayQueue(AfterJob("expired_cleanup", AfterJob("decay_update", l, t), t), t) = {}
  <2> DEFINE k == AfterJob("decay_update", l, t)
             m == AfterJob("expired_cleanup", k, t)
  <2>1. IsListing(k)
    BY <1>0, AfterJobKeeps
  <2>2. DOMAIN m = DOMAIN k \ ExpiredDeletes(k, t) /\ \A i \in DOMAIN m : m[i] = k[i]
    BY <2>1, AfterCleanup
  <2> HIDE DEF m
  <2>3. ASSUME NEW i \in DecayQueue(m, t)
        PROVE  FALSE
    <3>1. i \in DecayQueue(k, t) /\ i \notin ExpiredDeletes(k, t)
      BY <2>2 DEF DecayQueue
    <3>2. k[i] = l[i] /\ IsExpired(l[i], t)
      BY <3>1, QueueAfterDecay
    <3>. QED BY <1>1, <3>1, <3>2
  <2>. QED BY <2>3 DEF m
<1>. QED BY <1>2, <1>3

\* Whatever the store holds, a job asked for twice in a row finds nothing to
\* do the second time, and what the overview counts as the decay queue is
\* worked off by a decay and a cleanup in either order (ops/service.go:120,137).
THEOREM MaintenanceSettles == Spec => []JobsSettle
<1>1. TypeOK => JobsSettle
  <2> SUFFICES ASSUME TypeOK
               PROVE  JobsSettle
    OBVIOUS
  <2>1. IsListing(ListAll) /\ now \in Hours
    BY ListAllIsListing DEF TypeOK
  <2>2. \A job \in JobTypes : Plan(job, AfterJob(job, ListAll, now), now) = {}
    BY <2>1, JobSettles
  <2>3. /\ DecayQueue(AfterJob("decay_update", AfterJob("expired_cleanup", ListAll, now), now), now) = {}
        /\ DecayQueue(AfterJob("expired_cleanup", AfterJob("decay_update", ListAll, now), now), now) = {}
    BY <2>1, QueueIsWorkedOff
  <2>. QED BY <2>2, <2>3 DEF JobsSettle
<1>. QED BY <1>1, Typing, PTL

=============================================================================
