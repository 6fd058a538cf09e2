------------------------- MODULE MemoryServiceProofs -------------------------
(***************************************************************************)
(* Machine-checked proofs about MemoryService, for any number of creators, *)
(* readers and maintainers, any inputs and any clock.                      *)
(***************************************************************************)
EXTENDS MemoryService, LifecycleProofs, SequenceTheorems, FiniteSetTheorems,
        WellFoundedInduction

\* The steps of Next, without its quantifiers.
ClientStep(c) ==
  \/ c \in Creators /\ \E batch \in Batches : PostMemories(c, batch)
  \/ c \in Readers /\ \E i \in Ids : GetMemory(c, i)
  \/ c \in Maintainers /\ \E job \in Jobs : PostJob(c, job)
  \/ Lookup(c) \/ Store(c) \/ Read(c) \/ Write(c) \/ List(c) \/ Report(c)
  \/ task[c].at = "run" /\ \E op \in task[c].plan : Apply(c, op)

LEMMA StepCases ==
  ASSUME [Next]_vars
  PROVE  (\E c \in Clients : ClientStep(c)) \/ Tick \/ UNCHANGED vars
BY DEF Next, Serve, ClientStep, Clients

Todos == Seq(Input \cup BadInput) \ {<<>>}

\* What a task holds, by the place of its client.
LEMMA TaskShape ==
  ASSUME NEW t \in Task
  PROVE  /\ t.at \in {"idle", "lookup", "store", "read", "write", "list", "run"}
         /\ t.at = "lookup" => t.todo \in Todos
         /\ t.at = "store" => t.todo \in Todos /\ t.id \in Ids /\ t.rec \in Record
         /\ t.at = "read" => t.id \in Ids
         /\ t.at = "write" => t.id \in Ids /\ t.rec \in Record
         /\ t.at = "list" => t.job \in Jobs /\ t.started \in Hours
         /\ t.at = "run" => /\ t.job \in Jobs /\ t.started \in Hours /\ t.plan \in SUBSET Op
                            /\ t.last \in Record \cup {Absent} /\ t.failed \in BOOLEAN
                            /\ t = [at |-> "run", job |-> t.job, started |-> t.started,
                                    plan |-> t.plan, last |-> t.last, failed |-> t.failed]
BY DEF Task, Idle, Todos

LEMMA MakeTasks ==
  /\ Idle \in Task
  /\ \A todo \in Todos : [at |-> "lookup", todo |-> todo] \in Task
  /\ \A todo \in Todos, i \in Ids, r \in Record :
       [at |-> "store", todo |-> todo, id |-> i, rec |-> r] \in Task
  /\ \A i \in Ids : [at |-> "read", id |-> i] \in Task
  /\ \A i \in Ids, r \in Record : [at |-> "write", id |-> i, rec |-> r] \in Task
  /\ \A job \in Jobs, started \in Hours :
       [at |-> "list", job |-> job, started |-> started] \in Task
  /\ \A job \in Jobs, started \in Hours, plan \in SUBSET Op,
        last \in Record \cup {Absent}, failed \in BOOLEAN :
       [at |-> "run", job |-> job, started |-> started, plan |-> plan,
        last |-> last, failed |-> failed] \in Task
BY DEF Task, Todos

-----------------------------------------------------------------------------
\* What a job plans, and the copies its plan holds.

LEMMA ListingIsRecords ==
  ASSUME TypeOK
  PROVE  \A i \in Present : i \in Ids /\ ListAll[i] \in Record
                            /\ ListAll[i] = NormalizeLegacyRecord(recs[i])
<1>1. \A i \in Present : i \in Ids /\ recs[i] \in Record
  BY DEF TypeOK, Present
<1>. QED BY <1>1, LegacyIsRecord DEF ListAll

\* Every planned write is a decayed, preserved or plain copy of a listed
\* record, and what is to be deleted was neither pinned nor linked.
LEMMA PlannedWrites ==
  ASSUME NEW job, NEW listing, NEW started, NEW op \in Plan(job, listing, started)
  PROVE  /\ op.id \in DOMAIN listing
         /\ \/ op = Update(op.id, DecayRecord(listing[op.id], started))
            \/ op = Update(op.id, PreserveRecord(listing[op.id], started))
            \/ /\ op = Delete(op.id, listing[op.id])
               /\ ~listing[op.id].pinned /\ ~listing[op.id].linked
<1>1. CASE job = "decay_update"
  <2>1. PICK i \in DecayUpdates(listing, started) :
              op = Update(i, DecayRecord(listing[i], started))
    BY <1>1 DEF Plan
  <2>. QED BY <2>1 DEF DecayUpdates, Update
<1>2. CASE job = "expired_cleanup"
  <2>1. PICK i \in ExpiredDeletes(listing, started) : op = Delete(i, listing[i])
    BY <1>2 DEF Plan
  <2>. QED BY <2>1 DEF ExpiredDeletes, Delete, Preserved
<1>3. CASE job = "stale_summary_compaction"
  <2>1. PICK i \in StaleDeletes(listing) : op = Delete(i, listing[i])
    BY <1>3 DEF Plan
  <2>. QED BY <2>1 DEF StaleDeletes, Delete
<1>4. CASE job = "replay_preservation_enforcement"
  <2>1. PICK i \in PreservationUpdates(listing) :
              op = Update(i, PreserveRecord(listing[i], started))
    BY <1>4 DEF Plan
  <2>. QED BY <2>1 DEF PreservationUpdates, Update
<1>5. CASE job \notin JobTypes
  BY <1>5 DEF Plan, JobTypes
<1>. QED BY <1>1, <1>2, <1>3, <1>4, <1>5 DEF JobTypes

LEMMA PlanIsOps ==
  ASSUME TypeOK, NEW job, NEW started \in Hours
  PROVE  Plan(job, ListAll, started) \in SUBSET Op
<1> SUFFICES ASSUME NEW op \in Plan(job, ListAll, started) PROVE op \in Op
  OBVIOUS
<1>1. op.id \in Present
  BY PlannedWrites DEF ListAll
<1>2. op.id \in Ids /\ ListAll[op.id] \in Record
  BY <1>1, ListingIsRecords
<1>3. DecayRecord(ListAll[op.id], started) \in Record /\ PreserveRecord(ListAll[op.id], started) \in Record
  BY <1>2, DecayedIsRecord, PreservedIsRecord
<1>. QED BY <1>2, <1>3, PlannedWrites DEF Op, Update, Delete

-----------------------------------------------------------------------------
\* The type invariant.

LEMMA TailOfLongSequence ==
  ASSUME NEW S, NEW s \in Seq(S), Len(s) > 1
  PROVE  Tail(s) \in Seq(S) \ {<<>>}
<1>1. Tail(s) \in Seq(S) /\ Len(Tail(s)) = Len(s) - 1
  BY HeadTailProperties
<1>2. Len(s) \in Nat
  BY LenProperties
<1>3. Len(Tail(s)) # 0
  BY <1>1, <1>2
<1>. QED BY <1>1, <1>3, EmptySeq

LEMMA AdvanceType ==
  ASSUME task \in [Clients -> Task], NEW c \in Clients, NEW todo \in Todos, Advance(c, todo)
  PROVE  task' \in [Clients -> Task]
<1>1. Len(todo) > 1 => Tail(todo) \in Todos
  BY TailOfLongSequence DEF Todos
<1>. QED BY <1>1, MakeTasks DEF Advance, Continue

LEMMA TypeInit == Init => TypeOK
<1> SUFFICES ASSUME Init PROVE TypeOK
  OBVIOUS
<1>0. 0 \in 0 .. MaxId /\ 0 \in 0 .. MaxGets /\ 0 \in Nat
  BY BoundsAssumption
<1>1. lastId \in 0 .. MaxId /\ posted \in 0 .. MaxId /\ gets \in 0 .. MaxGets /\ now \in Hours
  BY <1>0 DEF Init, Hours
<1>2. task \in [Clients -> Task] /\ jobs \in [JobTypes \cup Jobs -> JobResult]
  BY MakeTasks DEF Init, JobResult
<1>. QED BY <1>1, <1>2 DEF Init, TypeOK

LEMMA TypeStep ==
  ASSUME TypeOK, [Next]_vars
  PROVE  TypeOK'
<1> USE DEF TypeOK, history
<1>1. ASSUME NEW c \in Clients, ClientStep(c)
      PROVE  TypeOK'
  <2>0. task[c] \in Task
    OBVIOUS
  <2>1. ASSUME NEW batch \in Batches, PostMemories(c, batch)
        PROVE  TypeOK'
    <3>1. batch \in Todos
      BY BatchesAssumption DEF Todos
    <3>2. Len(batch) \in Nat
      BY <3>1 DEF Todos
    <3>3. posted' \in 0 .. MaxId
      BY <2>1, <3>2, BoundsAssumption DEF PostMemories
    <3>4. task' \in [Clients -> Task]
      BY <2>1, <3>1, MakeTasks DEF PostMemories, Continue
    <3>. QED BY <2>1, <3>3, <3>4 DEF PostMemories
  <2>2. ASSUME NEW i \in Ids, GetMemory(c, i)
        PROVE  TypeOK'
    <3>1. gets' \in 0 .. MaxGets
      BY <2>2, BoundsAssumption DEF GetMemory
    <3>2. task' \in [Clients -> Task]
      BY <2>2, MakeTasks DEF GetMemory, Continue
    <3>. QED BY <2>2, <3>1, <3>2 DEF GetMemory
  <2>3. ASSUME NEW job \in Jobs, PostJob(c, job)
        PROVE  TypeOK'
    <3>1. task' \in [Clients -> Task]
      BY <2>3, MakeTasks DEF PostJob, Continue
    <3>. QED BY <2>3, <3>1 DEF PostJob
  <2>4. CASE Lookup(c)
    <3> DEFINE in == Head(task[c].todo)
    <3>1. task[c].todo \in Todos /\ in \in Input \cup BadInput
      BY <2>0, <2>4, TaskShape DEF Lookup, Todos
    <3>2. CASE Advance(c, task[c].todo) /\ UNCHANGED <<lastId, shared>>
      BY <2>4, <3>1, <3>2, AdvanceType DEF Lookup
    <3>3. CASE Continue(c, Idle) /\ UNCHANGED <<lastId, shared>>
      BY <2>4, <3>3, MakeTasks DEF Lookup, Continue
    <3>4. ASSUME in \in Input, NEW i \in GeneratedIds, lastId' = i,
                 shared' = IF i = lastId THEN shared \cup {i} ELSE shared,
                 Continue(c, [at |-> "store", todo |-> task[c].todo,
                              id |-> i, rec |-> NormalizeRecord(in, now)])
          PROVE  TypeOK'
      <4>1. NormalizeRecord(in, now) \in Record
        BY <3>1, <3>4, NormalizedIsRecord
      <4>2. i \in Ids /\ i \in 0 .. MaxId
        BY BoundsAssumption DEF GeneratedIds, Ids
      <4>3. task' \in [Clients -> Task]
        BY <3>1, <3>4, <4>1, <4>2, MakeTasks DEF Continue
      <4>. QED BY <2>4, <3>4, <4>2, <4>3 DEF Lookup
    <3>. QED BY <2>4, <3>2, <3>3, <3>4 DEF Lookup
  <2>5. CASE Store(c)
    <3>1. task[c].todo \in Todos /\ task[c].id \in Ids /\ task[c].rec \in Record
      BY <2>0, <2>5, TaskShape DEF Store
    <3>2. task' \in [Clients -> Task]
      BY <2>5, <3>1, AdvanceType, MakeTasks DEF Store, Continue
    <3>. QED BY <2>5, <3>1, <3>2 DEF Store
  <2>6. CASE Read(c)
    <3>1. task[c].id \in Ids
      BY <2>0, <2>6, TaskShape DEF Read
    <3>2. recs[task[c].id] # Absent => RecallRecord(recs[task[c].id], now) \in Record
      BY <3>1, RecalledIsRecord
    <3>3. task' \in [Clients -> Task]
      BY <2>6, <3>1, <3>2, MakeTasks DEF Read, Continue
    <3>. QED BY <2>6, <3>3 DEF Read
  <2>7. CASE Write(c)
    <3>1. task[c].id \in Ids /\ task[c].rec \in Record
      BY <2>0, <2>7, TaskShape DEF Write
    <3>2. task' \in [Clients -> Task]
      BY <2>7, MakeTasks DEF Write, Continue
    <3>. QED BY <2>7, <3>1, <3>2 DEF Write
  <2>8. CASE List(c)
    <3>1. task[c].job \in Jobs /\ task[c].started \in Hours
      BY <2>0, <2>8, TaskShape DEF List
    <3>2. Plan(task[c].job, ListAll, task[c].started) \in SUBSET Op
      BY <3>1, PlanIsOps
    <3>3. task' \in [Clients -> Task]
      BY <2>8, <3>1, <3>2, MakeTasks DEF List, Continue
    <3>. QED BY <2>8, <3>3 DEF List
  <2>9. CASE Report(c)
    <3>1. task' \in [Clients -> Task]
      BY <2>9, MakeTasks DEF Report, Continue
    <3>2. jobs' \in [JobTypes \cup Jobs -> JobResult]
      BY <2>9 DEF Report, JobResult
    <3>. QED BY <2>9, <3>1, <3>2 DEF Report
  <2>10. ASSUME task[c].at = "run", NEW op \in task[c].plan, Apply(c, op)
         PROVE  TypeOK'
    <3>1. /\ task[c].job \in Jobs /\ task[c].started \in Hours /\ task[c].plan \in SUBSET Op
          /\ task[c].last \in Record \cup {Absent} /\ task[c].failed \in BOOLEAN
          /\ task[c] = [at |-> "run", job |-> task[c].job, started |-> task[c].started,
                        plan |-> task[c].plan, last |-> task[c].last,
                        failed |-> task[c].failed]
      BY <2>0, <2>10, TaskShape
    <3>2. op.id \in Ids /\ op.rec \in Record
      BY <3>1 DEF Op
    <3>3. \/ task'[c] = [at |-> "run", job |-> task[c].job, started |-> task[c].started,
                         plan |-> task[c].plan \ {op}, last |-> op.rec,
                         failed |-> task[c].failed]
          \/ task'[c] = [at |-> "run", job |-> task[c].job, started |-> task[c].started,
                         plan |-> {}, last |-> task[c].last, failed |-> TRUE]
      BY ZenonT(30), <2>10, <3>1 DEF Apply, Continue
    <3>4. task'[c] \in Task
      <4>1. task[c].plan \ {op} \in SUBSET Op /\ {} \in SUBSET Op /\ TRUE \in BOOLEAN
        BY <3>1
      <4>2. op.rec \in Record \cup {Absent}
        BY <3>2
      <4>3. ASSUME NEW plan \in SUBSET Op, NEW last \in Record \cup {Absent},
                   NEW failed \in BOOLEAN
            PROVE  [at |-> "run", job |-> task[c].job, started |-> task[c].started,
                    plan |-> plan, last |-> last, failed |-> failed] \in Task
        BY <3>1, MakeTasks
      <4>4. /\ [at |-> "run", job |-> task[c].job, started |-> task[c].started,
                plan |-> task[c].plan \ {op}, last |-> op.rec,
                failed |-> task[c].failed] \in Task
            /\ [at |-> "run", job |-> task[c].job, started |-> task[c].started,
                plan |-> {}, last |-> task[c].last, failed |-> TRUE] \in Task
        BY <3>1, <4>1, <4>2, <4>3
      <4>. QED BY <3>3, <4>4
    <3>5. task' \in [Clients -> Task]
      BY <2>10, <3>4 DEF Apply, Continue
    <3>. QED BY <2>10, <3>2, <3>5 DEF Apply
  <2>. QED BY <1>1, <2>1, <2>2, <2>3, <2>4, <2>5, <2>6, <2>7, <2>8, <2>9, <2>10 DEF ClientStep
<1>2. CASE Tick
  BY <1>2, BoundsAssumption DEF Tick, Hours
<1>3. CASE UNCHANGED vars
  BY <1>3 DEF vars
<1>. QED BY <1>1, <1>2, <1>3, StepCases

-----------------------------------------------------------------------------
\* Where identifiers come from: a pending create owns its identifier, unless
\* another request was handed the same one.

LEMMA IdsInit == Init => IdsInv
<1> SUFFICES ASSUME Init PROVE IdsInv
  OBVIOUS
<1>1. \A i \in Ids : recs[i] = Absent /\ born[i] = Absent
  BY DEF Init
<1>2. \A c \in Clients : task[c].at = "idle"
  BY DEF Init, Idle
<1>. QED BY <1>1, <1>2 DEF IdsInv

\* A task that is not a pending create can be left out of the argument.
LEMMA IdsKept ==
  ASSUME TypeOK, IdsInv, NEW c \in Clients,
         \A d \in Clients \ {c} : task'[d] = task[d],
         task'[c].at # "store",
         UNCHANGED <<lastId, shared, born>>,
         \A i \in Ids : recs[i] = Absent => recs'[i] = Absent
  PROVE  IdsInv'
BY DEF TypeOK, IdsInv, UniqueIds

\* Where a client goes when it goes on to the next input, or ends.
LEMMA AdvanceLeaves ==
  ASSUME TypeOK, NEW c \in Clients, NEW todo,
         Advance(c, todo) \/ Continue(c, Idle)
  PROVE  /\ task'[c].at \in {"lookup", "idle"}
         /\ \A d \in Clients \ {c} : task'[d] = task[d]
BY DEF TypeOK, Advance, Continue, Idle

LEMMA IdsStep ==
  ASSUME TypeOK, IdsInv, [Next]_vars
  PROVE  IdsInv'
<1>1. ASSUME NEW c \in Clients, ClientStep(c)
      PROVE  IdsInv'
  <2>1. ASSUME NEW batch \in Batches, PostMemories(c, batch)
        PROVE  IdsInv'
    BY <2>1, IdsKept DEF PostMemories, Continue, history, TypeOK
  <2>2. ASSUME NEW i \in Ids, GetMemory(c, i)
        PROVE  IdsInv'
    BY <2>2, IdsKept DEF GetMemory, Continue, history, TypeOK
  <2>3. ASSUME NEW job \in Jobs, PostJob(c, job)
        PROVE  IdsInv'
    BY <2>3, IdsKept DEF PostJob, Continue, history, TypeOK
  <2>4. CASE Lookup(c)
    <3>1. CASE (Advance(c, task[c].todo) \/ Continue(c, Idle)) /\ UNCHANGED <<lastId, shared>>
      BY <2>4, <3>1, AdvanceLeaves, IdsKept DEF Lookup
    <3>2. ASSUME NEW r, NEW i \in GeneratedIds, lastId' = i,
                 shared' = IF i = lastId THEN shared \cup {i} ELSE shared,
                 Continue(c, [at |-> "store", todo |-> task[c].todo, id |-> i, rec |-> r])
          PROVE  IdsInv'
      <4>1. UNCHANGED <<recs, born>> /\ lastId \in Nat
        BY <2>4, BoundsAssumption DEF Lookup, TypeOK
      <4>2. /\ task'[c].at = "store" /\ task'[c].id = i
            /\ \A d \in Clients \ {c} : task'[d] = task[d]
        BY <3>2 DEF Continue, TypeOK
      <4>3. i \in Ids /\ (i = lastId \/ i = lastId + 1)
        BY <3>2 DEF GeneratedIds
      <4>4. shared \subseteq shared' /\ lastId <= lastId'
        BY <3>2, <4>1, <4>3
      <4>5. ASSUME i \notin shared'
            PROVE  /\ born[i] = Absent
                   /\ \A d \in Clients : task[d].at = "store" => task[d].id # i
        <5>1. i = lastId + 1
          BY <3>2, <4>3, <4>5
        <5>2. \A d \in Clients : task[d].at = "store" => task[d].id <= lastId
          BY DEF IdsInv
        <5>3. born[i] # Absent => i <= lastId
          BY <4>3 DEF IdsInv
        <5>4. ~(i <= lastId)
          BY <4>1, <5>1
        <5>. QED BY <5>2, <5>3, <5>4
      <4>6. ASSUME NEW j \in Ids, born[j] # Absent
            PROVE  j <= lastId'
        <5>1. j <= lastId /\ j \in Nat /\ lastId' \in Nat
          BY <3>2, <4>1, <4>3, <4>6 DEF IdsInv, Ids
        <5>. QED BY <4>1, <4>4, <5>1
      <4>7. ASSUME NEW d \in Clients, task'[d].at = "store"
            PROVE  /\ task'[d].id <= lastId'
                   /\ task'[d].id \in UniqueIds' =>
                        /\ born'[task'[d].id] = Absent
                        /\ \A e \in Clients \ {d} :
                             task'[e].at = "store" => task'[e].id # task'[d].id
        <5>1. CASE d = c
          BY <3>2, <4>1, <4>2, <4>3, <4>5, <5>1 DEF UniqueIds, Ids
        <5>2. CASE d # c
          <6>1. task'[d] = task[d] /\ task[d] \in Task
            BY <4>2, <5>2 DEF TypeOK
          <6>2. task[d].id <= lastId /\ task[d].id \in Ids
            BY <4>7, <6>1, TaskShape DEF IdsInv
          <6>3. task'[d].id <= lastId'
            <7>1. task[d].id \in Nat /\ lastId' \in Nat
              BY <3>2, <4>3, <6>2 DEF Ids
            <7>. QED BY <4>1, <4>4, <6>1, <6>2, <7>1
          <6>4. task[d].id \in UniqueIds' => task[d].id \in UniqueIds
            BY <4>4 DEF UniqueIds
          <6>5. task[d].id \in UniqueIds' => task[d].id # i
            BY <4>5, <4>7, <6>1 DEF UniqueIds
          <6>. QED BY <4>1, <4>2, <4>7, <6>1, <6>3, <6>4, <6>5 DEF IdsInv
        <5>. QED BY <5>1, <5>2
      <4>. QED BY <4>1, <4>6, <4>7 DEF IdsInv
    <3>. QED BY <2>4, <3>1, <3>2 DEF Lookup
  <2>5. CASE Store(c)
    <3>1. task[c].at = "store" /\ task[c].id \in Ids /\ task[c].rec \in Record
      BY <2>5, TaskShape DEF Store, TypeOK
    <3>2. /\ task'[c].at \in {"lookup", "idle"}
          /\ \A d \in Clients \ {c} : task'[d] = task[d]
      BY <2>5, AdvanceLeaves DEF Store
    <3>3. CASE UNCHANGED <<recs, born>>
      BY <2>5, <3>2, <3>3, IdsKept DEF Store
    <3>4. CASE /\ recs' = [recs EXCEPT ![task[c].id] = task[c].rec]
               /\ born' = [born EXCEPT ![task[c].id] = task[c].rec]
      <4>1. UNCHANGED <<lastId, shared>>
        BY <2>5 DEF Store
      <4>2. \A i \in Ids : (recs'[i] # Absent => born'[i] # Absent)
                           /\ (born'[i] # Absent => i <= lastId)
        BY <3>1, <3>4 DEF IdsInv, TypeOK
      <4>3. \A d \in Clients \ {c} :
               task[d].at = "store" /\ task[d].id \in UniqueIds => task[d].id # task[c].id
        BY <3>1 DEF IdsInv
      <4>4. ASSUME NEW d \in Clients, task'[d].at = "store"
            PROVE  d # c /\ task'[d] = task[d] /\ task[d].id \in Ids
        BY <3>2, <4>4, TaskShape DEF TypeOK
      <4>. QED BY <3>1, <3>2, <3>4, <4>1, <4>2, <4>3, <4>4 DEF IdsInv, UniqueIds, TypeOK
    <3>. QED BY <2>5, <3>3, <3>4 DEF Store
  <2>6. CASE Read(c)
    BY <2>6, IdsKept DEF Read, Continue, Idle, history, TypeOK
  <2>7. CASE Write(c)
    <3>1. task[c].id \in Ids
      BY <2>7, TaskShape DEF Write, TypeOK
    <3>. QED BY <2>7, <3>1, IdsKept DEF Write, Continue, Idle, history, TypeOK
  <2>8. CASE List(c)
    BY <2>8, IdsKept DEF List, Continue, history, TypeOK
  <2>9. CASE Report(c)
    BY <2>9, IdsKept DEF Report, Continue, Idle, history, TypeOK
  <2>10. ASSUME task[c].at = "run", NEW op \in task[c].plan, Apply(c, op)
         PROVE  IdsInv'
    <3>1. task'[c].at = "run" /\ \A d \in Clients \ {c} : task'[d] = task[d]
      <4>1. task[c] = [at |-> "run", job |-> task[c].job, started |-> task[c].started,
                       plan |-> task[c].plan, last |-> task[c].last,
                       failed |-> task[c].failed]
        BY <2>10, TaskShape DEF TypeOK
      <4>. QED BY ZenonT(30), <2>10, <4>1 DEF Apply, Continue, TypeOK
    <3>2. \A i \in Ids : recs[i] = Absent => recs'[i] = Absent
      BY <2>10 DEF Apply, TypeOK
    <3>. QED BY <2>10, <3>1, <3>2, IdsKept DEF Apply, history
  <2>. QED BY <1>1, <2>1, <2>2, <2>3, <2>4, <2>5, <2>6, <2>7, <2>8, <2>9, <2>10 DEF ClientStep
<1>2. CASE Tick
  BY <1>2 DEF Tick, history, IdsInv, UniqueIds
<1>3. CASE UNCHANGED vars
  BY <1>3 DEF vars, history, IdsInv, UniqueIds
<1>. QED BY <1>1, <1>2, <1>3, StepCases

-----------------------------------------------------------------------------
\* Every rule keeps a record's identity and its link.

LEMMA RulesKeepIdentity ==
  ASSUME NEW r \in Record, NEW time \in Hours
  PROVE  /\ SameIdentity(r, r)
         /\ SameIdentity(NormalizeLegacyRecord(r), r) /\ (r.linked => NormalizeLegacyRecord(r).linked)
         /\ SameIdentity(RecallRecord(r, time), r)    /\ RecallRecord(r, time).linked = r.linked
         /\ SameIdentity(DecayRecord(r, time), r)     /\ DecayRecord(r, time).linked = r.linked
         /\ SameIdentity(PreserveRecord(r, time), r)  /\ PreserveRecord(r, time).linked
BY DEF SameIdentity, NormalizeLegacyRecord, RecallRecord, DecayRecord, PreserveRecord,
       Scored, Record

LEMMA CopyOfCopy ==
  ASSUME NEW i, NEW r, NEW s, CopyOf(i, r), SameIdentity(s, r), r.linked => s.linked
  PROVE  CopyOf(i, s)
BY DEF CopyOf, SameIdentity

\* What no step undoes: a creation, under an identifier of its own.
CreationsStay ==
  /\ shared \subseteq shared'
  /\ \A i \in UniqueIds : born[i] # Absent => born'[i] = born[i]

LEMMA CopyKept ==
  ASSUME NEW i \in Ids, NEW r, CopyOf(i, r), CreationsStay
  PROVE  CopyOf(i, r)'
BY DEF CopyOf, UniqueIds, SameIdentity, CreationsStay

LEMMA CreationsStayStep ==
  ASSUME TypeOK, IdsInv, [Next]_vars
  PROVE  CreationsStay
<1>1. ASSUME NEW c \in Clients, Store(c)
      PROVE  CreationsStay
  <2>1. task[c].at = "store" /\ task[c].id \in Ids
    BY <1>1, TaskShape DEF Store, TypeOK
  <2>2. task[c].id \in UniqueIds => born[task[c].id] = Absent
    BY <2>1 DEF IdsInv
  <2>. QED BY <1>1, <2>1, <2>2 DEF Store, CreationsStay, UniqueIds, TypeOK
<1>2. ASSUME NEW c \in Clients, ClientStep(c), ~Store(c)
      PROVE  shared \subseteq shared' /\ born' = born
  BY <1>2 DEF ClientStep, PostMemories, GetMemory, PostJob, Lookup, Read, Write, List, Report,
              Apply, history
<1>3. Tick \/ UNCHANGED vars => shared' = shared /\ born' = born
  BY DEF Tick, vars, history
<1>. QED BY <1>1, <1>2, <1>3, StepCases DEF CreationsStay

-----------------------------------------------------------------------------

LEMMA CopiesInit == Init => CopiesInv
<1> SUFFICES ASSUME Init PROVE CopiesInv
  OBVIOUS
<1>1. \A i \in Ids : recs[i] = Absent
  BY DEF Init
<1>2. \A c \in Clients : task[c].at = "idle"
  BY DEF Init, Idle
<1>. QED BY <1>1, <1>2 DEF CopiesInv

\* The copies one task holds.
TaskCopies(t) ==
  /\ t.at = "write" => CopyOf(t.id, t.rec)
  /\ t.at = "run" => \A op \in t.plan :
       CopyOf(op.id, op.rec) /\ (op.do = "delete" => ~op.rec.pinned /\ ~op.rec.linked)

LEMMA TaskCopiesKept ==
  ASSUME NEW t \in Task, TaskCopies(t), CreationsStay
  PROVE  TaskCopies(t)'
<1>1. t.at = "write" => CopyOf(t.id, t.rec)'
  <2> SUFFICES ASSUME t.at = "write" PROVE CopyOf(t.id, t.rec)'
    OBVIOUS
  <2>1. t.id \in Ids /\ CopyOf(t.id, t.rec)
    BY TaskShape DEF TaskCopies
  <2>. QED BY <2>1, CopyKept
<1>2. ASSUME t.at = "run", NEW op \in t.plan
      PROVE  CopyOf(op.id, op.rec)' /\ (op.do = "delete" => ~op.rec.pinned /\ ~op.rec.linked)
  <2>1. op.id \in Ids /\ CopyOf(op.id, op.rec) /\ (op.do = "delete" => ~op.rec.pinned /\ ~op.rec.linked)
    BY <1>2, TaskShape DEF TaskCopies, Op
  <2>. QED BY <2>1, CopyKept
<1>. QED BY <1>1, <1>2 DEF TaskCopies

\* Enough to look at the task of the client that moved and at what it stored.
LEMMA CopiesKept ==
  ASSUME TypeOK, CopiesInv, CreationsStay, NEW c \in Clients,
         \A d \in Clients \ {c} : task'[d] = task[d],
         \A i \in Ids : recs'[i] # Absent => recs'[i] = recs[i] \/ CopyOf(i, recs[i])',
         TaskCopies(task[c])'
  PROVE  CopiesInv'
<1>1. ASSUME NEW i \in Ids, recs'[i] # Absent
      PROVE  CopyOf(i, recs[i])'
  <2>1. CASE recs'[i] = recs[i]
    <3>1. CopyOf(i, recs[i])
      BY <1>1, <2>1 DEF CopiesInv
    <3>. QED BY <3>1, <2>1, CopyKept
  <2>. QED BY <1>1, <2>1
<1>2. ASSUME NEW d \in Clients
      PROVE  TaskCopies(task[d])'
  <2>1. CASE d # c
    <3>1. task[d] \in Task /\ TaskCopies(task[d]) /\ task'[d] = task[d]
      BY <2>1 DEF TypeOK, CopiesInv, TaskCopies
    <3>. QED BY <3>1, TaskCopiesKept
  <2>. QED BY <2>1
<1>. QED BY <1>1, <1>2 DEF CopiesInv, TaskCopies

\* A job's plan holds copies of what it has just listed.
LEMMA PlanIsCopies ==
  ASSUME TypeOK, CopiesInv, NEW job, NEW started \in Hours,
         NEW op \in Plan(job, ListAll, started)
  PROVE  /\ CopyOf(op.id, op.rec)
         /\ op.do = "delete" => ~op.rec.pinned /\ ~op.rec.linked
<1> DEFINE r == recs[op.id]
           l == NormalizeLegacyRecord(r)
<1>1. op.id \in Present
  BY PlannedWrites DEF ListAll
<1>2. op.id \in Ids /\ r \in Record /\ CopyOf(op.id, r) /\ ListAll[op.id] = l /\ l \in Record
  BY <1>1, ListingIsRecords DEF Present, CopiesInv, TypeOK
<1>3. CopyOf(op.id, l)
  <2>1. SameIdentity(l, r) /\ (r.linked => l.linked)
    BY <1>2, RulesKeepIdentity
  <2>. QED BY <1>2, <2>1, CopyOfCopy
<1> HIDE DEF r, l
<1>4. CopyOf(op.id, DecayRecord(l, started)) /\ CopyOf(op.id, PreserveRecord(l, started))
  BY <1>2, <1>3, RulesKeepIdentity, CopyOfCopy
<1>5. \/ op = Update(op.id, DecayRecord(l, started))
      \/ op = Update(op.id, PreserveRecord(l, started))
      \/ op = Delete(op.id, l) /\ ~l.pinned /\ ~l.linked
  BY <1>2, PlannedWrites
<1>. QED BY <1>3, <1>4, <1>5 DEF Update, Delete

LEMMA CopiesStep ==
  ASSUME TypeOK, IdsInv, CopiesInv, [Next]_vars
  PROVE  CopiesInv'
<1>0. CreationsStay
  BY CreationsStayStep
<1>1. ASSUME NEW c \in Clients, ClientStep(c)
      PROVE  CopiesInv'
  <2> USE <1>0
  <2>0. task[c] \in Task
    BY DEF TypeOK
  <2>1. ASSUME NEW batch \in Batches, PostMemories(c, batch)
        PROVE  CopiesInv'
    BY <2>1, CopiesKept DEF PostMemories, Continue, TypeOK, TaskCopies
  <2>2. ASSUME NEW i \in Ids, GetMemory(c, i)
        PROVE  CopiesInv'
    BY <2>2, CopiesKept DEF GetMemory, Continue, TypeOK, TaskCopies
  <2>3. ASSUME NEW job \in Jobs, PostJob(c, job)
        PROVE  CopiesInv'
    BY <2>3, CopiesKept DEF PostJob, Continue, TypeOK, TaskCopies
  <2>4. CASE Lookup(c)
    <3>1. task'[c].at \in {"lookup", "idle", "store"} /\ \A d \in Clients \ {c} : task'[d] = task[d]
      BY <2>4 DEF Lookup, Advance, Continue, Idle, TypeOK
    <3>. QED BY <2>4, <3>1, CopiesKept DEF Lookup, TaskCopies
  <2>5. CASE Store(c)
    <3>1. task[c].at = "store" /\ task[c].id \in Ids /\ task[c].rec \in Record
      BY <2>0, <2>5, TaskShape DEF Store
    <3>2. task'[c].at \in {"lookup", "idle"} /\ \A d \in Clients \ {c} : task'[d] = task[d]
      BY <2>5, AdvanceLeaves DEF Store
    <3>3. ASSUME NEW i \in Ids, recs'[i] # Absent, recs'[i] # recs[i]
          PROVE  CopyOf(i, recs[i])'
      <4>1. i = task[c].id /\ recs'[i] = task[c].rec /\ born'[i] = task[c].rec
        BY <2>5, <3>1, <3>3 DEF Store, TypeOK
      <4>. QED BY <3>1, <3>3, <4>1 DEF CopyOf, SameIdentity
    <3>. QED BY <3>2, <3>3, CopiesKept DEF TaskCopies
  <2>6. CASE Read(c)
    <3> DEFINE i == task[c].id
               r == RecallRecord(recs[i], now)
    <3>1. i \in Ids
      BY <2>0, <2>6, TaskShape DEF Read
    <3>2. ASSUME recs[i] # Absent, Continue(c, [at |-> "write", id |-> i, rec |-> r])
          PROVE  TaskCopies(task[c])'
      <4>1. recs[i] \in Record /\ now \in Hours /\ CopyOf(i, recs[i])
        BY <3>1, <3>2 DEF TypeOK, CopiesInv
      <4>2. CopyOf(i, r)
        BY <4>1, RulesKeepIdentity, CopyOfCopy
      <4>3. task'[c] = [at |-> "write", id |-> i, rec |-> r]
        BY <3>2 DEF Continue, TypeOK
      <4>4. [at |-> "write", id |-> i, rec |-> r] \in Task
        BY <3>1, <4>1, RecalledIsRecord, MakeTasks
      <4> HIDE DEF i, r
      <4>5. TaskCopies([at |-> "write", id |-> i, rec |-> r])
        BY <4>2 DEF TaskCopies
      <4>. QED BY <4>3, <4>4, <4>5, TaskCopiesKept
    <3>3. ASSUME Continue(c, Idle)
          PROVE  TaskCopies(task[c])'
      BY <3>3 DEF Continue, Idle, TaskCopies, TypeOK
    <3>4. TaskCopies(task[c])' /\ UNCHANGED recs
      BY <2>6, <3>2, <3>3 DEF Read
    <3>5. \A d \in Clients \ {c} : task'[d] = task[d]
      BY <2>6 DEF Read, Continue, TypeOK
    <3>. QED BY <3>4, <3>5, CopiesKept
  <2>7. CASE Write(c)
    <3>1. task[c].id \in Ids /\ CopyOf(task[c].id, task[c].rec)
      BY <2>0, <2>7, TaskShape DEF Write, CopiesInv
    <3>2. ASSUME NEW i \in Ids, recs'[i] # Absent, recs'[i] # recs[i]
          PROVE  CopyOf(i, recs[i])'
      <4>1. i = task[c].id /\ recs'[i] = task[c].rec
        BY <2>7, <3>1, <3>2 DEF Write, TypeOK
      <4>2. \A r : CopyOf(i, r) => CopyOf(i, r)'
        BY CopyKept
      <4>. QED BY <3>1, <4>1, <4>2
    <3>. QED BY <2>7, <3>2, CopiesKept DEF Write, Continue, Idle, TypeOK, TaskCopies
  <2>8. CASE List(c)
    <3> DEFINE plan == Plan(task[c].job, ListAll, task[c].started)
               t == [at |-> "run", job |-> task[c].job, started |-> task[c].started,
                     plan |-> plan, last |-> Absent, failed |-> task[c].job \notin JobTypes]
    <3>1. task[c].job \in Jobs /\ task[c].started \in Hours
      BY <2>0, <2>8, TaskShape DEF List
    <3>2. t \in Task
      BY <3>1, PlanIsOps, MakeTasks
    <3>3. TaskCopies(t)
      BY <3>1, PlanIsCopies DEF TaskCopies
    <3>4. task'[c] = t /\ \A d \in Clients \ {c} : task'[d] = task[d]
      BY <2>8 DEF List, Continue, TypeOK
    <3> HIDE DEF t, plan
    <3>5. TaskCopies(task[c])'
      BY <3>2, <3>3, <3>4, TaskCopiesKept
    <3>. QED BY <2>8, <3>4, <3>5, CopiesKept DEF List
  <2>9. CASE Report(c)
    BY <2>9, CopiesKept DEF Report, Continue, Idle, TypeOK, TaskCopies
  <2>10. ASSUME task[c].at = "run", NEW op \in task[c].plan, Apply(c, op)
         PROVE  CopiesInv'
    <3>1. /\ op \in Op /\ CopyOf(op.id, op.rec) /\ TaskCopies(task[c])
          /\ task[c] = [at |-> "run", job |-> task[c].job, started |-> task[c].started,
                        plan |-> task[c].plan, last |-> task[c].last,
                        failed |-> task[c].failed]
      BY <2>0, <2>10, TaskShape DEF CopiesInv, TaskCopies
    <3>2. op.id \in Ids /\ TaskCopies(task[c])
      BY <3>1 DEF Op
    <3>3. \A i \in Ids : \A r : CopyOf(i, r) => CopyOf(i, r)'
      BY CopyKept
    <3>4. ASSUME NEW i \in Ids, recs'[i] # Absent, recs'[i] # recs[i]
          PROVE  CopyOf(i, recs[i])'
      <4>1. i = op.id /\ recs'[i] = op.rec
        BY <2>10, <3>2, <3>4 DEF Apply, TypeOK
      <4>. QED BY <3>1, <3>3, <4>1
    <3>5. /\ task'[c].at = "run" /\ task'[c].plan \subseteq task[c].plan
          /\ \A d \in Clients \ {c} : task'[d] = task[d]
      <4>1. \/ Continue(c, [task[c] EXCEPT !.plan = @ \ {op}, !.last = op.rec])
            \/ Continue(c, [task[c] EXCEPT !.plan = {}, !.failed = TRUE])
        BY <2>10 DEF Apply
      <4>2. \/ task'[c] = [task[c] EXCEPT !.plan = task[c].plan \ {op}, !.last = op.rec]
            \/ task'[c] = [task[c] EXCEPT !.plan = {}, !.failed = TRUE]
        BY <4>1 DEF Continue, TypeOK
      <4>3. \A d \in Clients \ {c} : task'[d] = task[d]
        BY <4>1 DEF Continue, TypeOK
      <4>. QED BY <2>10, <3>1, <4>2, <4>3
    <3>6. \A o \in task[c].plan : CopyOf(o.id, o.rec)'
      BY <2>0, <2>10, <3>1, <3>3, TaskShape DEF TaskCopies, Op
    <3>7. TaskCopies(task[c])'
      BY <2>10, <3>1, <3>5, <3>6 DEF TaskCopies
    <3>. QED BY <3>4, <3>5, <3>7, CopiesKept
  <2>. QED BY <1>1, <2>1, <2>2, <2>3, <2>4, <2>5, <2>6, <2>7, <2>8, <2>9, <2>10 DEF ClientStep
<1>2. CASE Tick
  BY <1>2 DEF Tick, history, CopiesInv, CopyOf, UniqueIds
<1>3. CASE UNCHANGED vars
  BY <1>3 DEF vars, history, CopiesInv, CopyOf, UniqueIds
<1>. QED BY <1>1, <1>2, <1>3, StepCases

-----------------------------------------------------------------------------

IInv == TypeOK /\ IdsInv /\ CopiesInv

LEMMA Invariant == Spec => []IInv
<1>1. Init => IInv
  BY TypeInit, IdsInit, CopiesInit DEF IInv
<1>2. IInv /\ [Next]_vars => IInv'
  BY TypeStep, IdsStep, CopiesStep DEF IInv
<1>. QED BY <1>1, <1>2, PTL DEF Spec

\* Every record in the store, in a request and in a plan passes Validate.
THEOREM Typing == Spec => []TypeOK
<1>1. IInv => TypeOK
  BY DEF IInv
<1>. QED BY <1>1, Invariant, PTL

\* What a record is never changes after its creation, although reads and
\* jobs write back whole records they read earlier (memory/service.go:116).
THEOREM IdentityIsKept == Spec => []IdentityNeverChanges
<1>1. IInv => IdentityNeverChanges
  BY DEF IInv, CopiesInv, CopyOf, IdentityNeverChanges, UniqueIds
<1>. QED BY <1>1, Invariant, PTL

\* A deleted record never comes back: a create that is still to be stored
\* has an identifier of its own, and Update refuses what is gone.
THEOREM DeletionIsFinal == Spec => DeletedStaysDeleted
<1>1. ASSUME IInv, [Next]_vars, NEW i \in UniqueIds, born[i] # Absent, recs[i] = Absent
      PROVE  recs'[i] = Absent
  <2>1. ASSUME NEW c \in Clients, Store(c)
        PROVE  recs'[i] = Absent
    <3>1. task[c].at = "store" /\ task[c].id \in Ids
      BY <1>1, <2>1, TaskShape DEF Store, IInv, TypeOK
    <3>2. task[c].id # i
      BY <1>1, <3>1 DEF IInv, IdsInv
    <3>. QED BY <1>1, <2>1, <3>2 DEF Store, IInv, TypeOK, UniqueIds
  <2>2. ASSUME NEW c \in Clients, Write(c)
        PROVE  recs'[i] = Absent
    BY <1>1, <2>2 DEF Write, IInv, TypeOK
  <2>3. ASSUME NEW c \in Clients, NEW op \in task[c].plan, Apply(c, op)
        PROVE  recs'[i] = Absent
    BY <1>1, <2>3 DEF Apply, IInv, TypeOK, UniqueIds
  <2>4. ASSUME NEW c \in Clients, ClientStep(c), ~Store(c), ~Write(c),
               ~\E op \in task[c].plan : Apply(c, op)
        PROVE  recs' = recs
    BY <2>4 DEF ClientStep, PostMemories, GetMemory, PostJob, Lookup, Read, List, Report
  <2>5. Tick \/ UNCHANGED vars => recs' = recs
    BY DEF Tick, vars
  <2>. QED BY <1>1, <2>1, <2>2, <2>3, <2>4, <2>5, StepCases
<1>2. IInv /\ [Next]_vars =>
        [\A i \in UniqueIds : born[i] # Absent /\ recs[i] = Absent => recs'[i] = Absent]_vars
  BY <1>1
<1>. QED BY <1>2, Invariant, PTL DEF Spec, DeletedStaysDeleted

\* What was created pinned or linked to a replay is never deleted, whatever
\* listing a job works from (ops/service.go:184,218).
THEOREM ProtectionHolds == Spec => ProtectedNeverDeleted
<1>1. ASSUME IInv, [Next]_vars, NEW i \in UniqueIds, BornProtected(i), recs[i] # Absent
      PROVE  recs'[i] # Absent
  <2>0. i \in Ids /\ born[i] # Absent /\ (born[i].pinned \/ born[i].linked)
    BY <1>1 DEF UniqueIds, BornProtected
  <2>1. ASSUME NEW c \in Clients, Store(c)
        PROVE  recs'[i] # Absent
    <3>1. task[c].rec # Absent /\ task[c].id \in Ids
      BY <1>1, <2>1, TaskShape, AbsentAssumption DEF Store, IInv, TypeOK
    <3>. QED BY <1>1, <2>0, <2>1, <3>1 DEF Store, IInv, TypeOK
  <2>2. ASSUME NEW c \in Clients, Write(c)
        PROVE  recs'[i] # Absent
    <3>1. task[c].rec # Absent /\ task[c].id \in Ids
      BY <1>1, <2>2, TaskShape, AbsentAssumption DEF Write, IInv, TypeOK
    <3>. QED BY <1>1, <2>0, <2>2, <3>1 DEF Write, IInv, TypeOK
  <2>3. ASSUME NEW c \in Clients, task[c].at = "run", NEW op \in task[c].plan, Apply(c, op)
        PROVE  recs'[i] # Absent
    <3>1. /\ op \in Op /\ CopyOf(op.id, op.rec)
          /\ op.do = "delete" => ~op.rec.pinned /\ ~op.rec.linked
      BY <1>1, <2>3, TaskShape DEF IInv, TypeOK, CopiesInv
    <3>2. op.id = i => op.do # "delete"
      BY <1>1, <2>0, <3>1 DEF CopyOf, SameIdentity
    <3>3. op.rec # Absent /\ op.id \in Ids
      BY <3>1, AbsentAssumption DEF Op
    <3>. QED BY <1>1, <2>0, <2>3, <3>2, <3>3 DEF Apply, IInv, TypeOK
  <2>4. ASSUME NEW c \in Clients, ClientStep(c), ~Store(c), ~Write(c),
               ~(task[c].at = "run" /\ \E op \in task[c].plan : Apply(c, op))
        PROVE  recs' = recs
    BY <2>4 DEF ClientStep, PostMemories, GetMemory, PostJob, Lookup, Read, List, Report
  <2>5. Tick \/ UNCHANGED vars => recs' = recs
    BY DEF Tick, vars
  <2>. QED BY <1>1, <2>1, <2>2, <2>3, <2>4, <2>5, StepCases
<1>2. IInv /\ [Next]_vars =>
        [\A i \in UniqueIds : BornProtected(i) /\ recs[i] # Absent => recs'[i] # Absent]_vars
  BY <1>1
<1>. QED BY <1>2, Invariant, PTL DEF Spec, ProtectedNeverDeleted

-----------------------------------------------------------------------------
\* What one step of a client does to its task and to the store.

LEMMA OthersStay ==
  ASSUME TypeOK, NEW c \in Clients, ClientStep(c)
  PROVE  \A d \in Clients \ {c} : task'[d] = task[d]
BY DEF ClientStep, PostMemories, GetMemory, PostJob, Lookup, Store, Read, Write, List, Report,
       Apply, Advance, Continue, TypeOK

\* An Apply makes its write, or ends the plan when the record is gone.
LEMMA ApplyCases ==
  ASSUME TypeOK, NEW c \in Clients, task[c].at = "run", NEW op \in task[c].plan, Apply(c, op)
  PROVE  /\ op \in Op /\ task'[c].at = "run"
         /\ task'[c].job = task[c].job /\ task'[c].started = task[c].started
         /\ \/ /\ recs[op.id] # Absent
               /\ task'[c].plan = task[c].plan \ {op} /\ task'[c].failed = task[c].failed
               /\ \A i \in Ids \ {op.id} : recs'[i] = recs[i]
               /\ recs'[op.id] = (IF op.do = "delete" THEN Absent ELSE op.rec)
            \/ /\ recs[op.id] = Absent
               /\ task'[c].plan = {} /\ recs' = recs
<1>1. /\ task[c] = [at |-> "run", job |-> task[c].job, started |-> task[c].started,
                    plan |-> task[c].plan, last |-> task[c].last, failed |-> task[c].failed]
      /\ op \in Op
  BY TaskShape DEF TypeOK
<1>2. CASE /\ recs[op.id] # Absent
           /\ recs' = [recs EXCEPT ![op.id] = IF op.do = "delete" THEN Absent ELSE op.rec]
           /\ Continue(c, [task[c] EXCEPT !.plan = @ \ {op}, !.last = op.rec])
  <2>1. task'[c] = [at |-> "run", job |-> task[c].job, started |-> task[c].started,
                    plan |-> task[c].plan \ {op}, last |-> op.rec, failed |-> task[c].failed]
    BY <1>1, <1>2 DEF Continue, TypeOK
  <2>2. op.id \in Ids
    BY <1>1 DEF Op
  <2>3. \A i \in Ids \ {op.id} : recs'[i] = recs[i]
    BY <1>2 DEF TypeOK
  <2>4. recs'[op.id] = (IF op.do = "delete" THEN Absent ELSE op.rec)
    BY <1>2, <2>2 DEF TypeOK
  <2>. QED BY <1>1, <1>2, <2>1, <2>3, <2>4
<1>3. CASE /\ recs[op.id] = Absent
           /\ Continue(c, [task[c] EXCEPT !.plan = {}, !.failed = TRUE])
           /\ UNCHANGED recs
  <2>1. task'[c] = [at |-> "run", job |-> task[c].job, started |-> task[c].started,
                    plan |-> {}, last |-> task[c].last, failed |-> TRUE]
    BY <1>1, <1>3 DEF Continue, TypeOK
  <2>. QED BY <1>1, <1>3, <2>1
<1>. QED BY <1>2, <1>3 DEF Apply

\* Only a create adds a record.
LEMMA OnlyStoreAdds ==
  ASSUME TypeOK, NEW c \in Clients, ClientStep(c),
         NEW i \in Ids, recs[i] = Absent, recs'[i] # Absent
  PROVE  /\ task[c].at = "store" /\ i = task[c].id
         /\ recs'[i] = task[c].rec /\ born'[i] = task[c].rec
         /\ \A j \in Ids \ {i} : recs'[j] = recs[j] /\ born'[j] = born[j]
<1>1. ~Write(c)
  BY DEF Write, TypeOK
<1>2. ASSUME task[c].at = "run", NEW op \in task[c].plan, Apply(c, op)
      PROVE  FALSE
  BY <1>2, ApplyCases
<1>3. Store(c)
  BY <1>1, <1>2 DEF ClientStep, PostMemories, GetMemory, PostJob, Lookup, Read, List, Report
<1>. QED BY <1>3 DEF Store, TypeOK

\* Only a job removes one, by a delete it has planned.
LEMMA OnlyJobsRemove ==
  ASSUME TypeOK, NEW c \in Clients, ClientStep(c),
         NEW i \in Ids, recs[i] # Absent, recs'[i] = Absent
  PROVE  /\ task[c].at = "run" /\ task'[c].at = "run"
         /\ \E op \in task[c].plan :
              /\ op.id = i /\ op.do = "delete" /\ task'[c].plan = task[c].plan \ {op}
         /\ \A j \in Ids \ {i} : recs'[j] = recs[j]
<1>0. \A r \in Record : r # Absent
  BY AbsentAssumption
<1>1. ~Store(c)
  BY <1>0, TaskShape DEF Store, TypeOK
<1>2. ~Write(c)
  BY <1>0, TaskShape DEF Write, TypeOK
<1>3. PICK op \in task[c].plan : task[c].at = "run" /\ Apply(c, op)
  BY <1>1, <1>2 DEF ClientStep, PostMemories, GetMemory, PostJob, Lookup, Read, List, Report
<1>4. op \in Op /\ op.rec \in Record
  BY <1>3, ApplyCases DEF Op
<1>. QED BY <1>0, <1>3, <1>4, ApplyCases

\* Where a client that is at some place came from.
LEMMA TaskOrigins ==
  ASSUME TypeOK, NEW c \in Clients, ClientStep(c)
  PROVE  /\ task'[c].at = "lookup" => c \in Creators \/ task[c].at \in {"lookup", "store"}
         /\ task'[c].at = "store" => task[c].at = "lookup"
         /\ task'[c].at = "write" => task[c].at = "read" /\ Read(c)
         /\ task'[c].at = "list" =>
              c \in Maintainers /\ task'[c].started = now
         /\ task'[c].at = "run" =>
              \/ task[c].at = "list" /\ List(c)
              \/ task[c].at = "run" /\ \E op \in task[c].plan : Apply(c, op)
<1>1. Idle.at = "idle"
  BY DEF Idle
<1>2. CASE \/ c \in Creators /\ \E batch \in Batches : PostMemories(c, batch)
           \/ c \in Readers /\ \E i \in Ids : GetMemory(c, i)
           \/ c \in Maintainers /\ \E job \in Jobs : PostJob(c, job)
  BY <1>2 DEF PostMemories, GetMemory, PostJob, Continue, TypeOK
<1>3. CASE Lookup(c) \/ Store(c)
  BY <1>1, <1>3 DEF Lookup, Store, Advance, Continue, TypeOK
<1>4. CASE Read(c) \/ Write(c) \/ Report(c)
  BY <1>1, <1>4 DEF Read, Write, Report, Continue, TypeOK
<1>5. CASE List(c)
  BY <1>5 DEF List, Continue, TypeOK
<1>6. ASSUME task[c].at = "run", NEW op \in task[c].plan, Apply(c, op)
      PROVE  task'[c].at = "run"
  BY <1>6, ApplyCases
<1>. QED BY <1>2, <1>3, <1>4, <1>5, <1>6 DEF ClientStep

-----------------------------------------------------------------------------
\* Creators create, maintainers maintain; a plan has one write per record.

RolesInv ==
  \A c \in Clients : /\ task[c].at \in {"lookup", "store"} => c \in Creators
                     /\ task[c].at \in {"list", "run"} => c \in Maintainers

PlanInv ==
  \A c \in Clients : task[c].at = "run" =>
    \A o, p \in task[c].plan : o.id = p.id => o = p

LEMMA PlanIsFunctional ==
  ASSUME NEW job, NEW listing, NEW started,
         NEW o \in Plan(job, listing, started), NEW p \in Plan(job, listing, started), o.id = p.id
  PROVE  o = p
<1>1. CASE job = "decay_update"
  BY <1>1 DEF Plan, Update
<1>2. CASE job = "expired_cleanup"
  BY <1>2 DEF Plan, Delete
<1>3. CASE job = "stale_summary_compaction"
  BY <1>3 DEF Plan, Delete
<1>4. CASE job = "replay_preservation_enforcement"
  BY <1>4 DEF Plan, Update
<1>5. CASE job \notin JobTypes
  BY <1>5 DEF Plan, JobTypes
<1>. QED BY <1>1, <1>2, <1>3, <1>4, <1>5 DEF JobTypes

\* What a job has just listed.
LEMMA Listed ==
  ASSUME TypeOK, NEW c \in Clients, List(c)
  PROVE  /\ task[c].at = "list" /\ task[c].job \in Jobs /\ task[c].started \in Hours
         /\ task'[c].at = "run" /\ task'[c].job = task[c].job
         /\ task'[c].started = task[c].started
         /\ task'[c].plan = Plan(task[c].job, ListAll, task[c].started)
         /\ task[c].job \in JobTypes => task'[c].failed = FALSE
         /\ UNCHANGED <<recs, now, shared, born, jobs>>
<1>1. task'[c] = [at |-> "run", job |-> task[c].job, started |-> task[c].started,
                  plan |-> Plan(task[c].job, ListAll, task[c].started), last |-> Absent,
                  failed |-> task[c].job \notin JobTypes]
  BY DEF List, Continue, TypeOK
<1>2. task[c].job \in Jobs /\ task[c].started \in Hours
  BY TaskShape DEF List, TypeOK
<1>3. task[c].job \in JobTypes => (task[c].job \notin JobTypes) = FALSE
  OBVIOUS
<1>4. /\ task'[c].at = "run" /\ task'[c].job = task[c].job
      /\ task'[c].started = task[c].started
      /\ task'[c].plan = Plan(task[c].job, ListAll, task[c].started)
      /\ task'[c].failed = (task[c].job \notin JobTypes)
  BY <1>1
<1>5. task[c].job \in JobTypes => task'[c].failed = FALSE
  BY <1>3, <1>4, Zenon
<1>. QED BY <1>2, <1>4, <1>5 DEF List, history

LEMMA PlannedIsPresent ==
  ASSUME TypeOK, NEW job, NEW started, NEW op \in Plan(job, ListAll, started)
  PROVE  op.id \in Present
BY PlannedWrites DEF ListAll

LEMMA RolesInit == Init => RolesInv /\ PlanInv
<1>1. Idle.at = "idle"
  BY DEF Idle
<1>. QED BY <1>1 DEF Init, RolesInv, PlanInv

LEMMA RolesStep ==
  ASSUME TypeOK, RolesInv, PlanInv, [Next]_vars
  PROVE  RolesInv' /\ PlanInv'
<1>1. ASSUME NEW c \in Clients, ClientStep(c)
      PROVE  RolesInv' /\ PlanInv'
  <2>1. RolesInv'
    BY <1>1, OthersStay, TaskOrigins DEF RolesInv, List
  <2>2. ASSUME task'[c].at = "run"
        PROVE  \A o, p \in task'[c].plan : o.id = p.id => o = p
    <3>1. CASE List(c)
      <4>1. task'[c].plan = Plan(task[c].job, ListAll, task[c].started)
        BY <3>1, Listed
      <4>. QED BY <4>1, PlanIsFunctional
    <3>2. CASE task[c].at = "run" /\ \E op \in task[c].plan : Apply(c, op)
      BY <3>2, ApplyCases DEF PlanInv
    <3>. QED BY <1>1, <2>2, <3>1, <3>2, TaskOrigins
  <2>3. PlanInv'
    BY <1>1, <2>2, OthersStay DEF PlanInv
  <2>. QED BY <2>1, <2>3
<1>2. Tick \/ UNCHANGED vars => RolesInv' /\ PlanInv'
  BY DEF Tick, vars, RolesInv, PlanInv
<1>. QED BY <1>1, <1>2, StepCases

-----------------------------------------------------------------------------
\* One client that runs the jobs finds everything it has listed.

Alone(S) == \A c, d \in S : c = d

LEMMA AtMostOne ==
  ASSUME NEW S, IsFiniteSet(S), Cardinality(S) <= 1
  PROVE  Alone(S)
<1>1. Cardinality(S) \in Nat
  BY FS_CardinalityType
<1>2. Cardinality(S) = 0 \/ Cardinality(S) = 1
  BY <1>1
<1>3. S = {} \/ \E x : S = {x}
  BY <1>2, FS_EmptySet, FS_Singleton
<1>. QED BY <1>3 DEF Alone

LoneInv ==
  Alone(Maintainers) =>
    /\ \A c \in Clients : task[c].at = "run" =>
         /\ task[c].job \in JobTypes => task[c].failed = FALSE
         /\ \A op \in task[c].plan : op.id \in Present
    /\ \A j \in JobTypes : jobs[j] # "failed"

LEMMA LoneInit == Init => LoneInv
<1>1. Idle.at = "idle"
  BY DEF Idle
<1>. QED BY <1>1 DEF Init, LoneInv

LEMMA LoneStep ==
  ASSUME TypeOK, RolesInv, PlanInv, LoneInv, [Next]_vars
  PROVE  LoneInv'
<1> SUFFICES ASSUME Alone(Maintainers)
             PROVE  LoneInv'
  BY DEF LoneInv
<1>1. ASSUME NEW c \in Clients, ClientStep(c)
      PROVE  LoneInv'
  <2>1. ASSUME NEW d \in Clients, task'[d].at = "run", d # c, NEW op \in task'[d].plan
        PROVE  op.id \in Present'
    <3>1. task'[d] = task[d] /\ d \in Maintainers /\ op.id \in Present
      BY <1>1, <2>1, OthersStay DEF RolesInv, LoneInv
    <3>2. c \notin Maintainers
      BY <2>1, <3>1 DEF Alone
    <3>. QED BY <1>1, <3>1, <3>2, OnlyJobsRemove DEF RolesInv, Present
  <2>2. ASSUME NEW d \in Clients, task'[d].at = "run", d # c
        PROVE  task'[d].job \in JobTypes => task'[d].failed = FALSE
    BY <1>1, <2>2, OthersStay DEF LoneInv
  <2>3. ASSUME task'[c].at = "run"
        PROVE  /\ task'[c].job \in JobTypes => task'[c].failed = FALSE
               /\ \A op \in task'[c].plan : op.id \in Present'
    <3>1. CASE List(c)
      <4>1. task'[c].plan = Plan(task[c].job, ListAll, task[c].started) /\ recs' = recs
        BY <3>1, Listed
      <4>2. task'[c].job \in JobTypes => task'[c].failed = FALSE
        BY <3>1, Listed
      <4>3. \A op \in task'[c].plan : op.id \in Present
        BY <4>1, PlannedIsPresent
      <4>. QED BY <4>1, <4>2, <4>3 DEF Present
    <3>2. ASSUME task[c].at = "run", NEW op \in task[c].plan, Apply(c, op)
          PROVE  /\ task'[c].job \in JobTypes => task'[c].failed = FALSE
                 /\ \A o \in task'[c].plan : o.id \in Present'
      <4>1. op.id \in Ids /\ recs[op.id] # Absent
        BY <3>2 DEF LoneInv, Present
      <4>2. /\ task'[c].plan = task[c].plan \ {op} /\ task'[c].failed = task[c].failed
            /\ task'[c].job = task[c].job
            /\ \A i \in Ids \ {op.id} : recs'[i] = recs[i]
        BY <3>2, <4>1, ApplyCases
      <4>3. \A o \in task'[c].plan : o.id # op.id /\ o.id \in Present
        BY <3>2, <4>2 DEF PlanInv, LoneInv
      <4>. QED BY <3>2, <4>2, <4>3 DEF LoneInv, Present
    <3>. QED BY <1>1, <2>3, <3>1, <3>2, TaskOrigins
  <2>4. ASSUME NEW j \in JobTypes
        PROVE  jobs'[j] # "failed"
    <3>1. CASE jobs' = jobs
      BY <3>1 DEF LoneInv
    <3>2. CASE Report(c)
      <4>1. CASE task[c].job = j
        <5>1. task[c].failed = FALSE
          BY <3>2, <4>1 DEF LoneInv, Report
        <5>. QED BY <3>2, <4>1, <5>1 DEF Report, TypeOK
      <4>2. CASE task[c].job # j
        BY <3>2, <4>2 DEF Report, TypeOK, LoneInv
      <4>. QED BY <4>1, <4>2
    <3>. QED BY <1>1, <3>1, <3>2 DEF ClientStep, PostMemories, GetMemory, PostJob, Lookup, Store,
                 Read, Write, List, Apply
  <2>. QED BY <2>1, <2>2, <2>3, <2>4 DEF LoneInv
<1>2. Tick \/ UNCHANGED vars => LoneInv'
  BY DEF Tick, vars, LoneInv, Present
<1>. QED BY <1>1, <1>2, StepCases

-----------------------------------------------------------------------------
\* One client that creates: identifiers are its own, and the key it has looked
\* up is still free when it stores.

KeyInv ==
  Alone(Creators) =>
    /\ shared = {}
    /\ \A i, j \in Present : recs[i].key # NoKey /\ recs[i].key = recs[j].key => i = j
    /\ \A c \in Clients : task[c].at = "store" /\ task[c].rec.key # NoKey =>
         \A i \in Present : recs[i].key # task[c].rec.key

LEMMA KeyInit == Init => KeyInv
<1>1. Idle.at = "idle"
  BY DEF Idle
<1>. QED BY <1>1 DEF Init, KeyInv, Present

\* As long as no identifier is shared, what stays present stays what it is.
LEMMA PresentKeepsIdentity ==
  ASSUME TypeOK, CopiesInv, CopiesInv', CreationsStay, shared = {}, shared' = {},
         NEW i \in Ids, recs[i] # Absent, recs'[i] # Absent
  PROVE  SameIdentity(recs'[i], recs[i])
<1>1. born[i] # Absent /\ SameIdentity(recs[i], born[i])
  BY DEF CopiesInv, CopyOf, UniqueIds
<1>2. SameIdentity(recs'[i], born'[i])
  BY DEF CopiesInv, CopyOf, UniqueIds, SameIdentity
<1>3. born'[i] = born[i]
  BY <1>1 DEF CreationsStay, UniqueIds
<1>. QED BY <1>1, <1>2, <1>3 DEF SameIdentity

\* What a create has looked up: its key is free in the store.
LEMMA LookedUp ==
  ASSUME TypeOK, NEW c \in Clients, Lookup(c), task'[c].at = "store"
  PROVE  /\ UNCHANGED <<recs, born, now>>
         /\ task'[c].rec.key # NoKey => \A i \in Present : recs[i].key # task'[c].rec.key
         /\ task'[c].id \in GeneratedIds /\ lastId' = task'[c].id
         /\ shared' = IF task'[c].id = lastId THEN shared \cup {task'[c].id} ELSE shared
         /\ \E in \in Input : task'[c].rec = NormalizeRecord(in, now)
<1> DEFINE in == Head(task[c].todo)
<1>1. task[c].todo \in Todos /\ in \in Input \cup BadInput
  BY TaskShape DEF Lookup, Todos, TypeOK
<1>2. ~Advance(c, task[c].todo) /\ ~Continue(c, Idle)
  BY AdvanceLeaves
<1>3. PICK i \in GeneratedIds :
        /\ ~KeyTaken(in.key) /\ in \in Input
        /\ lastId' = i
        /\ shared' = IF i = lastId THEN shared \cup {i} ELSE shared
        /\ Continue(c, [at |-> "store", todo |-> task[c].todo,
                        id |-> i, rec |-> NormalizeRecord(in, now)])
  BY <1>2 DEF Lookup
<1>4. task'[c] = [at |-> "store", todo |-> task[c].todo, id |-> i,
                  rec |-> NormalizeRecord(in, now)]
  BY <1>3 DEF Continue, TypeOK
<1>5. in \in Input /\ NormalizeRecord(in, now).key = in.key
  BY <1>1, <1>3 DEF NormalizeRecord, Scored
<1> HIDE DEF in
<1>6. in.key # NoKey => \A j \in Present : recs[j].key # in.key
  BY <1>3 DEF KeyTaken
<1>. QED BY <1>3, <1>4, <1>5, <1>6 DEF Lookup

LEMMA KeyStep ==
  ASSUME TypeOK, TypeOK', IdsInv, CopiesInv, CopiesInv', RolesInv, KeyInv, [Next]_vars
  PROVE  KeyInv'
<1> SUFFICES ASSUME Alone(Creators)
             PROVE  KeyInv'
  BY DEF KeyInv
<1>0. CreationsStay
  BY CreationsStayStep
<1>1. ASSUME NEW c \in Clients, ClientStep(c)
      PROVE  KeyInv'
  <2>1. shared' = {}
    <3>1. CASE Lookup(c) /\ task'[c].at = "store"
      <4>1. c \in Creators /\ task[c].at = "lookup"
        BY <3>1 DEF RolesInv, Lookup
      <4>2. task'[c].id = lastId + 1
        BY <3>1, <4>1, LookedUp DEF GeneratedIds, Alone
      <4>3. task'[c].id # lastId
        BY <4>2, BoundsAssumption DEF TypeOK
      <4>. QED BY <3>1, <4>3, LookedUp DEF KeyInv
    <3>2. CASE Lookup(c) /\ task'[c].at # "store"
      <4>1. \A i, r : ~Continue(c, [at |-> "store", todo |-> task[c].todo, id |-> i, rec |-> r])
        BY <3>2 DEF Continue, TypeOK
      <4>. QED BY <3>2, <4>1 DEF Lookup, KeyInv
    <3>3. CASE ~Lookup(c)
      BY <1>1, <3>3 DEF ClientStep, PostMemories, GetMemory, PostJob, Store, Read, Write, List,
                        Report, Apply, history, KeyInv
    <3>. QED BY <3>1, <3>2, <3>3
  <2>2. \A i \in Ids : recs[i] # Absent /\ recs'[i] # Absent => recs'[i].key = recs[i].key
    BY <1>0, <2>1, PresentKeepsIdentity DEF KeyInv, SameIdentity
  <2>3. ASSUME NEW i \in Ids, recs[i] = Absent, recs'[i] # Absent
        PROVE  /\ c \in Creators /\ task[c].at = "store" /\ recs'[i].key = task[c].rec.key
               /\ \A j \in Ids \ {i} : recs'[j] = recs[j]
    BY <1>1, <2>3, OnlyStoreAdds DEF RolesInv
  <2>4. ASSUME NEW i \in Present', NEW j \in Present',
               recs'[i].key # NoKey, recs'[i].key = recs'[j].key
        PROVE  i = j
    <3>1. i \in Ids /\ j \in Ids /\ recs'[i] # Absent /\ recs'[j] # Absent
      BY <2>4 DEF Present
    <3>2. CASE recs[i] # Absent /\ recs[j] # Absent
      BY <2>2, <2>4, <3>1, <3>2 DEF KeyInv, Present
    <3>3. ASSUME recs[i] = Absent, recs[j] # Absent, i # j
          PROVE  FALSE
      BY <2>3, <2>4, <3>1, <3>3 DEF KeyInv, Present
    <3>4. ASSUME recs[j] = Absent, recs[i] # Absent, i # j
          PROVE  FALSE
      BY <2>3, <2>4, <3>1, <3>4 DEF KeyInv, Present
    <3>5. ASSUME recs[j] = Absent, recs[i] = Absent, i # j
          PROVE  FALSE
      BY <2>3, <3>1, <3>5
    <3>. QED BY <3>2, <3>3, <3>4, <3>5
  <2>5. ASSUME NEW d \in Clients, task'[d].at = "store", task'[d].rec.key # NoKey,
               NEW i \in Present'
        PROVE  recs'[i].key # task'[d].rec.key
    <3>1. CASE d = c
      <4>1. Lookup(c)
        <5>1. task[c].at = "lookup"
          BY <1>1, <2>5, <3>1, TaskOrigins
        <5>2. \A b, j : ~PostMemories(c, b) /\ ~GetMemory(c, j) /\ ~PostJob(c, j)
          BY <5>1 DEF PostMemories, GetMemory, PostJob, Idle
        <5>. QED BY <1>1, <5>1, <5>2 DEF ClientStep, Store, Read, Write, List, Report
      <4>. QED BY <2>5, <3>1, <4>1, LookedUp DEF Present
    <3>2. CASE d # c
      <4>1. task'[d] = task[d] /\ d \in Creators
        BY <1>1, <2>5, <3>2, OthersStay DEF RolesInv
      <4>2. i \in Ids /\ recs[i] # Absent
        BY <2>3, <2>5, <3>2, <4>1 DEF Alone, Present
      <4>. QED BY <2>2, <2>5, <4>1, <4>2 DEF KeyInv, Present
    <3>. QED BY <3>1, <3>2
  <2>. QED BY <2>1, <2>4, <2>5 DEF KeyInv
<1>2. Tick \/ UNCHANGED vars => KeyInv'
  BY DEF Tick, vars, history, KeyInv, Present
<1>. QED BY <1>1, <1>2, StepCases

-----------------------------------------------------------------------------
\* No record and no job is ahead of the clock.

TaskTimes(t) ==
  /\ t.at \in {"list", "run"} => t.started <= now
  /\ t.at \in {"store", "write"} => t.rec.updated <= now
  /\ t.at = "run" => \A op \in t.plan : op.rec.updated <= now

TimesInv ==
  /\ \A i \in Present : recs[i].updated <= now
  /\ \A c \in Clients : TaskTimes(task[c])

LEMMA RulesTimes ==
  ASSUME NEW r \in Record, NEW time \in Hours
  PROVE  /\ NormalizeLegacyRecord(r).updated = r.updated
         /\ RecallRecord(r, time).updated = time
         /\ DecayRecord(r, time).updated = time
         /\ PreserveRecord(r, time).updated = time
BY DEF NormalizeLegacyRecord, RecallRecord, DecayRecord, PreserveRecord, Scored, Record

LEMMA PlannedTimes ==
  ASSUME TypeOK, TimesInv, NEW job, NEW started \in Hours, started <= now,
         NEW op \in Plan(job, ListAll, started)
  PROVE  op.rec.updated <= now
<1> DEFINE l == ListAll[op.id]
<1>1. op.id \in Present
  BY PlannedIsPresent
<1>2. l \in Record /\ l = NormalizeLegacyRecord(recs[op.id]) /\ recs[op.id] \in Record
  BY <1>1, ListingIsRecords DEF Present, TypeOK
<1>3. l.updated <= now
  BY <1>1, <1>2, RulesTimes DEF TimesInv, Hours
<1> HIDE DEF l
<1>4. DecayRecord(l, started).updated = started /\ PreserveRecord(l, started).updated = started
  BY <1>2, RulesTimes
<1>5. op.rec \in {DecayRecord(l, started), PreserveRecord(l, started), l}
  BY PlannedWrites DEF l, Update, Delete
<1>. QED BY <1>3, <1>4, <1>5

LEMMA TimesInit == Init => TimesInv
<1>1. Idle.at = "idle"
  BY DEF Idle
<1>. QED BY <1>1 DEF Init, TimesInv, TaskTimes, Present

\* What a read hands to its write.
LEMMA Recalled ==
  ASSUME TypeOK, NEW c \in Clients, Read(c), task'[c].at = "write"
  PROVE  /\ UNCHANGED <<recs, now, shared, born>>
         /\ task'[c].id \in Ids /\ recs[task'[c].id] \in Record
         /\ recs[task'[c].id] # Absent
         /\ task'[c].rec = RecallRecord(recs[task'[c].id], now)
<1>1. task[c].id \in Ids
  BY TaskShape DEF Read, TypeOK
<1>2. ~Continue(c, Idle)
  BY DEF Continue, Idle, TypeOK
<1>3. /\ recs[task[c].id] # Absent
      /\ task'[c] = [at |-> "write", id |-> task[c].id,
                     rec |-> RecallRecord(recs[task[c].id], now)]
  BY <1>2 DEF Read, Continue, TypeOK
<1>. QED BY <1>1, <1>3 DEF Read, history, TypeOK

\* Where a stored record comes from.
LEMMA RecordOrigins ==
  ASSUME TypeOK, NEW c \in Clients, ClientStep(c), NEW i \in Ids, recs'[i] # Absent,
         recs'[i] # recs[i]
  PROVE  \/ task[c].at \in {"store", "write"} /\ i = task[c].id /\ recs'[i] = task[c].rec
         \/ task[c].at = "run" /\ \E op \in task[c].plan : i = op.id /\ recs'[i] = op.rec
<1>1. CASE Store(c) \/ Write(c)
  BY <1>1 DEF Store, Write, TypeOK
<1>2. ASSUME task[c].at = "run", NEW op \in task[c].plan, Apply(c, op)
      PROVE  i = op.id /\ recs'[i] = op.rec
  BY <1>2, ApplyCases
<1>. QED BY <1>1, <1>2 DEF ClientStep, PostMemories, GetMemory, PostJob, Lookup, Read, List, Report

LEMMA TimesStep ==
  ASSUME TypeOK, TimesInv, [Next]_vars
  PROVE  TimesInv'
<1>1. ASSUME NEW c \in Clients, ClientStep(c)
      PROVE  TimesInv'
  <2>1. now' = now
    BY <1>1 DEF ClientStep, PostMemories, GetMemory, PostJob, Lookup, Store, Read, Write, List,
                Report, Apply
  <2>2. ASSUME NEW i \in Present'
        PROVE  recs'[i].updated <= now
    <3>1. i \in Ids /\ recs'[i] # Absent
      BY <2>2 DEF Present
    <3>. QED BY <1>1, <3>1, RecordOrigins DEF TimesInv, TaskTimes, Present
  <2>3. task'[c].at = "list" => task'[c].started <= now
    BY <1>1, TaskOrigins DEF TypeOK, Hours
  <2>4. task'[c].at = "store" => task'[c].rec.updated <= now
    <3>1. \A in \in Input : NormalizeRecord(in, now).updated = now
      BY DEF NormalizeRecord, Scored
    <3>2. task'[c].at = "store" => Lookup(c)
      <4>1. task'[c].at = "store" => task[c].at = "lookup"
        BY <1>1, TaskOrigins
      <4>2. task[c].at = "lookup" => \A b, j : ~PostMemories(c, b) /\ ~GetMemory(c, j) /\ ~PostJob(c, j)
        BY DEF PostMemories, GetMemory, PostJob, Idle
      <4>. QED BY <1>1, <4>1, <4>2 DEF ClientStep, Store, Read, Write, List, Report
    <3>. QED BY <3>1, <3>2, LookedUp DEF TypeOK, Hours
  <2>5. task'[c].at = "write" => task'[c].rec.updated <= now
    BY <1>1, TaskOrigins, Recalled, RulesTimes DEF TypeOK, Hours
  <2>6. ASSUME task'[c].at = "run"
        PROVE  task'[c].started <= now /\ \A op \in task'[c].plan : op.rec.updated <= now
    <3>1. CASE List(c)
      <4>1. task[c].started \in Hours /\ task[c].started <= now
        BY <3>1, Listed DEF TimesInv, TaskTimes
      <4>2. task'[c].plan = Plan(task[c].job, ListAll, task[c].started)
        BY <3>1, Listed
      <4>3. task'[c].started <= now
        BY <3>1, <4>1, Listed
      <4>. QED BY <4>1, <4>2, <4>3, PlannedTimes
    <3>2. CASE task[c].at = "run" /\ \E op \in task[c].plan : Apply(c, op)
      BY <3>2, ApplyCases DEF TimesInv, TaskTimes
    <3>. QED BY <1>1, <2>6, <3>1, <3>2, TaskOrigins
  <2>7. TaskTimes(task[c])'
    BY <2>1, <2>3, <2>4, <2>5, <2>6 DEF TaskTimes
  <2>8. \A d \in Clients \ {c} : TaskTimes(task[d])'
    BY <1>1, <2>1, OthersStay DEF TimesInv, TaskTimes
  <2>. QED BY <2>1, <2>2, <2>7, <2>8 DEF TimesInv
<1>2. CASE Tick
  <2>1. now \in Nat /\ now' \in Nat /\ now <= now' /\ UNCHANGED <<recs, task>>
    BY <1>2, BoundsAssumption DEF Tick, TypeOK, Hours
  <2>2. \A i \in Present : recs[i].updated \in Nat
    BY DEF Present, TypeOK, Record, Hours
  <2>3. ASSUME NEW c \in Clients
        PROVE  TaskTimes(task[c])'
    <3>1. task[c] \in Task /\ TaskTimes(task[c]) /\ task'[c] = task[c]
      BY <2>1 DEF TypeOK, TimesInv
    <3>2. task[c].at \in {"list", "run"} => task[c].started \in Nat
      BY <3>1, TaskShape DEF Hours
    <3>3. task[c].at \in {"store", "write"} => task[c].rec.updated \in Nat
      BY <3>1, TaskShape DEF Record, Hours
    <3>4. task[c].at = "run" => \A op \in task[c].plan : op.rec.updated \in Nat
      BY <3>1, TaskShape DEF Op, Record, Hours
    <3>. QED BY <2>1, <3>1, <3>2, <3>3, <3>4 DEF TaskTimes
  <2>. QED BY <2>1, <2>2, <2>3 DEF TimesInv, Present
<1>3. CASE UNCHANGED vars
  BY <1>3 DEF vars, TimesInv, TaskTimes, Present
<1>. QED BY <1>1, <1>2, <1>3, StepCases

-----------------------------------------------------------------------------
\* A compaction keeps the newest record of every group, and nobody else deletes.

LEMMA Smallest ==
  ASSUME NEW S \in SUBSET Nat, S # {}
  PROVE  \E i \in S : \A j \in S : i <= j
<1>1. IsWellFoundedOn(OpToRel(<, Nat), Nat)
  BY NatLessThanWellFounded
<1>2. S \subseteq Nat
  OBVIOUS
<1>3. \E i \in S : \A j \in S : ~(<<j, i>> \in OpToRel(<, Nat))
  <2> HIDE DEF OpToRel
  <2>. QED BY <1>1, <1>2, WFMin, Zenon
<1>4. PICK i \in S : \A j \in S : ~(<<j, i>> \in OpToRel(<, Nat))
  BY <1>3
<1>5. \A j \in S : ~(j < i)
  BY <1>4 DEF OpToRel
<1>. QED BY <1>5

\* Of finitely many listed records one comes first in the order of compaction.
LEMMA HasNewest ==
  ASSUME NEW listing, NEW T \in SUBSET Nat, T # {}, NEW limit \in Nat,
         \A i \in T : listing[i].updated \in Nat /\ listing[i].updated <= limit
  PROVE  \E k \in T : \A j \in T : ~Newer(listing, j, k)
<1> DEFINE Age(i) == limit - listing[i].updated
           Ages == {Age(i) : i \in T}
<1>1. \A i \in T : Age(i) \in Nat
  <2> TAKE i \in T
  <2>1. PICK u \in Nat : u = listing[i].updated /\ u <= limit
    OBVIOUS
  <2>2. limit - u \in Nat
    BY <2>1
  <2>. QED BY <2>1, <2>2
<1>2. \A i, j \in T : /\ Age(i) = Age(j) <=> listing[i].updated = listing[j].updated
                      /\ Age(i) <= Age(j) => ~(listing[i].updated < listing[j].updated)
  OBVIOUS
<1> HIDE DEF Age
<1>3. Ages \in SUBSET Nat /\ Ages # {}
  BY <1>1
<1>4. PICK m \in Ages : \A n \in Ages : m <= n
  BY <1>3, Smallest
<1>5. PICK a \in T : m = Age(a)
  OBVIOUS
<1>6. \A j \in T : Age(a) <= Age(j)
  BY <1>4, <1>5
<1> DEFINE U == {i \in T : Age(i) = Age(a)}
<1>7. U \in SUBSET Nat /\ U # {}
  OBVIOUS
<1>8. PICK k \in U : \A j \in U : k <= j
  BY <1>7, Smallest
<1>9. ASSUME NEW j \in T, Newer(listing, j, k)
      PROVE  FALSE
  <2>1. k \in T /\ Age(k) = Age(a) /\ Age(k) <= Age(j)
    BY <1>6, <1>8
  <2>2. ~(listing[k].updated < listing[j].updated)
    BY <1>2, <2>1
  <2>3. listing[j].updated = listing[k].updated /\ j < k
    BY <1>9, <2>1, <2>2 DEF Newer
  <2>4. j \in U
    BY <1>2, <2>1, <2>3
  <2>5. k <= j /\ j \in Nat /\ k \in Nat
    BY <1>8, <2>1, <2>4
  <2>. QED BY <2>3, <2>5
<1>. QED BY <1>8, <1>9

\* What a job deletes has expired, or leaves another of its group.
LEMMA DeletesLeaveOne ==
  ASSUME TypeOK, TimesInv, NEW job, NEW started \in Hours,
         NEW op \in Plan(job, ListAll, started), op.do = "delete"
  PROVE  \/ IsExpired(op.rec, started)
         \/ \E k \in Present : /\ SameGroup(recs[k], op.rec)
                               /\ \A o \in Plan(job, ListAll, started) : o.id # k
<1>1. CASE job = "expired_cleanup"
  BY <1>1 DEF Plan, ExpiredDeletes, Delete
<1>2. CASE job = "stale_summary_compaction"
  <2>1. PICK i \in StaleDeletes(ListAll) : op = Delete(i, ListAll[i])
    BY <1>2 DEF Plan
  <2> DEFINE T == {k \in Present : SameGroup(ListAll[k], ListAll[i])}
  <2>2. i \in T
    BY <2>1 DEF StaleDeletes, ListAll, SameGroup
  <2>3. T \in SUBSET Nat
    BY DEF Present, Ids
  <2>4. \A k \in T : ListAll[k].updated \in Nat /\ ListAll[k].updated <= now
    <3> SUFFICES ASSUME NEW k \in T
                 PROVE  ListAll[k].updated \in Nat /\ ListAll[k].updated <= now
      OBVIOUS
    <3>1. ListAll[k] \in Record /\ ListAll[k] = NormalizeLegacyRecord(recs[k]) /\ recs[k] \in Record
      BY ListingIsRecords DEF Present, TypeOK
    <3>2. ListAll[k].updated = recs[k].updated
      BY <3>1, RulesTimes DEF Hours, TypeOK
    <3>. QED BY <3>1, <3>2 DEF TimesInv, Record, Hours
  <2>5. PICK k \in T : \A j \in T : ~Newer(ListAll, j, k)
    <3> HIDE DEF T
    <3>. QED BY <2>2, <2>3, <2>4, HasNewest DEF TypeOK, Hours
  <2>6. k \notin StaleDeletes(ListAll)
    <3>1. \A j \in Present : SameGroup(ListAll[j], ListAll[k]) => j \in T
      BY <2>5 DEF SameGroup
    <3>. QED BY <2>5, <3>1 DEF StaleDeletes, ListAll
  <2>7. \A o \in Plan(job, ListAll, started) : o.id # k
    BY <1>2, <2>6 DEF Plan, Delete
  <2>8. SameGroup(recs[k], op.rec)
    <3>1. ListAll[k] = NormalizeLegacyRecord(recs[k]) /\ recs[k] \in Record
      BY ListingIsRecords DEF Present, TypeOK
    <3>2. SameIdentity(ListAll[k], recs[k])
      BY <3>1, RulesKeepIdentity DEF TypeOK
    <3>. QED BY <2>1, <3>2 DEF Delete, SameGroup, SameIdentity
  <2>. QED BY <2>7, <2>8
<1>3. CASE job \notin {"expired_cleanup", "stale_summary_compaction"}
  BY <1>3 DEF Plan, Update
<1>. QED BY <1>1, <1>2, <1>3

GroupInv ==
  Alone(Maintainers) /\ shared = {} =>
    \A c \in Clients : task[c].at = "run" =>
      \A op \in task[c].plan : op.do = "delete" =>
        \/ IsExpired(op.rec, now)
        \/ \E k \in Present : SameGroup(recs[k], op.rec) /\ \A o \in task[c].plan : o.id # k

LEMMA GroupInit == Init => GroupInv
<1>1. Idle.at = "idle"
  BY DEF Idle
<1>. QED BY <1>1 DEF Init, GroupInv

LEMMA ExpiredStaysExpired ==
  ASSUME NEW r \in Record, NEW t \in Hours, NEW u \in Hours, t <= u, IsExpired(r, t)
  PROVE  IsExpired(r, u)
BY DEF IsExpired, Record, Hours

LEMMA GroupStep ==
  ASSUME TypeOK, TypeOK', IdsInv, CopiesInv, CopiesInv', RolesInv, TimesInv, GroupInv, [Next]_vars
  PROVE  GroupInv'
<1>0. CreationsStay
  BY CreationsStayStep
<1> SUFFICES ASSUME Alone(Maintainers), shared' = {}
             PROVE  GroupInv'
  BY DEF GroupInv
<1>00. shared = {}
  BY <1>0 DEF CreationsStay
<1>1. ASSUME NEW c \in Clients, ClientStep(c)
      PROVE  GroupInv'
  <2>1. now' = now
    BY <1>1 DEF ClientStep, PostMemories, GetMemory, PostJob, Lookup, Store, Read, Write, List,
                Report, Apply
  <2>2. ASSUME NEW d \in Clients, task[d].at = "run", task'[d].plan \subseteq task[d].plan,
               NEW op \in task'[d].plan, op.do = "delete"
        PROVE  \/ IsExpired(op.rec, now)
               \/ \E k \in Present' : SameGroup(recs'[k], op.rec) /\ \A o \in task'[d].plan : o.id # k
    <3>1. SUFFICES ASSUME NEW k \in Present, SameGroup(recs[k], op.rec),
                          \A o \in task[d].plan : o.id # k
                   PROVE  k \in Present' /\ SameGroup(recs'[k], op.rec)
      BY <1>00, <2>2 DEF GroupInv
    <3>2. k \in Ids /\ recs[k] # Absent
      BY DEF Present
    <3>3. recs'[k] # Absent
      <4>1. SUFFICES ASSUME recs'[k] = Absent
                     PROVE  FALSE
        OBVIOUS
      <4>2. task[c].at = "run" /\ \E o \in task[c].plan : o.id = k
        BY <1>1, <3>2, <4>1, OnlyJobsRemove
      <4>3. c = d
        BY <2>2, <4>2 DEF RolesInv, Alone
      <4>. QED BY <3>1, <4>2, <4>3
    <3>4. SameIdentity(recs'[k], recs[k])
      BY <1>0, <1>00, <3>2, <3>3, PresentKeepsIdentity
    <3>. QED BY <3>1, <3>2, <3>3, <3>4 DEF Present, SameGroup, SameIdentity
  <2>3. ASSUME task'[c].at = "run", List(c), NEW op \in task'[c].plan, op.do = "delete"
        PROVE  \/ IsExpired(op.rec, now)
               \/ \E k \in Present' : SameGroup(recs'[k], op.rec) /\ \A o \in task'[c].plan : o.id # k
    <3>1. /\ task'[c].plan = Plan(task[c].job, ListAll, task[c].started) /\ recs' = recs
          /\ task[c].started \in Hours /\ task[c].started <= now
      BY <2>3, Listed DEF TimesInv, TaskTimes
    <3>2. op.rec \in Record
      BY <2>3, <3>1, PlanIsOps DEF Op
    <3>3. IsExpired(op.rec, task[c].started) => IsExpired(op.rec, now)
      BY <3>1, <3>2, ExpiredStaysExpired DEF TypeOK
    <3>. QED BY <2>3, <3>1, <3>3, DeletesLeaveOne DEF Present
  <2>4. ASSUME NEW d \in Clients, task'[d].at = "run"
        PROVE  \/ task[d].at = "run" /\ task'[d].plan \subseteq task[d].plan
               \/ d = c /\ List(c)
    <3>1. CASE d # c
      BY <1>1, <2>4, <3>1, OthersStay
    <3>2. CASE d = c
      <4>1. ASSUME task[c].at = "run", NEW op \in task[c].plan, Apply(c, op)
            PROVE  task'[c].plan \subseteq task[c].plan
        BY <4>1, ApplyCases
      <4>. QED BY <1>1, <2>4, <3>2, <4>1, TaskOrigins
    <3>. QED BY <3>1, <3>2
  <2>. QED BY <2>1, <2>2, <2>3, <2>4 DEF GroupInv
<1>2. CASE Tick
  <2>1. now \in Hours /\ now' \in Hours /\ now <= now' /\ UNCHANGED <<recs, task>>
    BY <1>2, BoundsAssumption DEF Tick, TypeOK, Hours
  <2>2. ASSUME NEW c \in Clients, task[c].at = "run", NEW op \in task[c].plan,
               IsExpired(op.rec, now)
        PROVE  IsExpired(op.rec, now')
    <3>1. op.rec \in Record
      BY <2>2, TaskShape DEF TypeOK, Op
    <3>. QED BY <2>1, <2>2, <3>1, ExpiredStaysExpired
  <2>. QED BY <1>00, <2>1, <2>2 DEF GroupInv, Present
<1>3. CASE UNCHANGED vars
  BY <1>00, <1>3 DEF vars, GroupInv, Present
<1>. QED BY <1>1, <1>2, <1>3, StepCases

-----------------------------------------------------------------------------
\* The invariants of the jobs and of the keys, on top of IInv.

JobsInv == RolesInv /\ PlanInv /\ LoneInv /\ KeyInv /\ TimesInv /\ GroupInv

LEMMA JobsInvariant == Spec => [](IInv /\ JobsInv)
<1>1. Init => IInv /\ JobsInv
  BY TypeInit, IdsInit, CopiesInit, RolesInit, LoneInit, KeyInit, TimesInit, GroupInit
     DEF IInv, JobsInv
<1>2. IInv /\ [Next]_vars => IInv'
  BY TypeStep, IdsStep, CopiesStep DEF IInv
<1>3. IInv /\ IInv' /\ JobsInv /\ [Next]_vars => JobsInv'
  BY RolesStep, LoneStep, KeyStep, TimesStep, GroupStep DEF IInv, JobsInv
<1>. QED BY <1>1, <1>2, <1>3, PTL DEF Spec

\* While one client runs the jobs, none fails half way: no other deletes, and
\* its own plan names every record once (ops/service.go:163-260).
THEOREM LoneJobsComplete == Spec => []LoneJobNeverFails
<1>1. JobsInv => LoneJobNeverFails
  BY AtMostOne, ClientsAssumption DEF JobsInv, LoneInv, LoneJobNeverFails
<1>. QED BY <1>1, JobsInvariant, PTL

\* While one client creates, the key it looked up is still free when it stores
\* the record (memory/service.go:60-75).
THEOREM SequentialKeysAreUnique == Spec => []SequentialCreatesShareNoKey
<1>1. JobsInv => SequentialCreatesShareNoKey
  BY AtMostOne, ClientsAssumption DEF JobsInv, KeyInv, SequentialCreatesShareNoKey
<1>. QED BY <1>1, JobsInvariant, PTL

\* While one client runs the jobs, a source keeps a record until all it has
\* about it have expired (ops/service.go:178-228).
THEOREM GroupsSurvive == Spec => LastOfGroupSurvives
<1>1. ASSUME IInv, JobsInv, [Next]_vars, Cardinality(Maintainers) <= 1, shared = {},
             NEW i \in Present, \A j \in Group(i) : recs'[j] = Absent
      PROVE  \A j \in Group(i) : IsExpired(recs[j], now)
  <2>1. i \in Ids /\ recs[i] # Absent /\ i \in Group(i) /\ recs'[i] = Absent
    BY <1>1 DEF Present, Group, SameGroup
  <2>2. PICK c \in Clients : ClientStep(c)
    BY <1>1, <2>1, StepCases DEF Tick, vars
  <2>3. /\ task[c].at = "run"
        /\ \A j \in Ids \ {i} : recs'[j] = recs[j]
    BY <1>1, <2>1, <2>2, OnlyJobsRemove DEF IInv
  <2>4. PICK op \in task[c].plan : op.id = i /\ op.do = "delete"
    BY <1>1, <2>1, <2>2, OnlyJobsRemove DEF IInv
  <2>5. Group(i) = {i}
    BY <1>1, <2>1, <2>3 DEF Group, Present
  <2>6. SameIdentity(recs[i], op.rec)
    <3>1. CopyOf(i, recs[i]) /\ CopyOf(i, op.rec)
      BY <1>1, <2>1, <2>3, <2>4 DEF IInv, CopiesInv
    <3>. QED BY <1>1, <2>1, <3>1 DEF CopyOf, UniqueIds, SameIdentity
  <2>7. ~\E k \in Present : SameGroup(recs[k], op.rec) /\ \A o \in task[c].plan : o.id # k
    <3>1. SUFFICES ASSUME NEW k \in Present, SameGroup(recs[k], op.rec)
                   PROVE  k = i
      BY <2>4
    <3>2. SameGroup(recs[k], recs[i])
      BY <2>6, <3>1 DEF SameGroup, SameIdentity
    <3>. QED BY <2>5, <3>2 DEF Group
  <2>8. IsExpired(op.rec, now)
    BY <1>1, <2>3, <2>4, <2>7, AtMostOne, ClientsAssumption DEF JobsInv, GroupInv
  <2>. QED BY <2>5, <2>6, <2>8 DEF IsExpired, SameIdentity
<1>2. IInv /\ JobsInv /\ [Next]_vars =>
        [Cardinality(Maintainers) <= 1 /\ shared = {} =>
           \A i \in Present :
             (\A j \in Group(i) : recs'[j] = Absent) =>
               \A j \in Group(i) : IsExpired(recs[j], now)]_vars
  BY <1>1
<1>. QED BY <1>2, JobsInvariant, PTL DEF Spec, LastOfGroupSurvives

=============================================================================
