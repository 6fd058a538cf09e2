--------------------------- MODULE MemoryService ----------------------------
(***************************************************************************)
(* The memory service (internal/services/memory) and the maintenance jobs  *)
(* of the ops service (internal/services/ops), run by concurrent HTTP      *)
(* requests over the memory records of one store.                          *)
(*                                                                         *)
(* The store is atomic, as FileStore implements it: one action per store   *)
(* call.  Between two store calls of a request any other request may run.  *)
(* That matters because a Get is a read and a later write of the whole     *)
(* record, a create looks its idempotency key up first and writes later,   *)
(* and a job lists the store once and then works through what it saw.      *)
(***************************************************************************)
EXTENDS Lifecycle, Sequences

CONSTANTS
  Creators,     \* clients that post memories, replays and trust artifacts
  Readers,      \* clients that get a memory by its id
  Maintainers,  \* clients that run maintenance jobs
  Batches,      \* the bodies of create requests: sequences of inputs
  Jobs,         \* the job types requested
  Absent,       \* no record under this id
  MaxId,        \* bound on the inputs posted, so on the identifiers
  MaxGets,      \* bound on the gets requested
  Ticks,        \* by how many hours the clock may move at once
  MaxNow        \* bound on the clock

\* Inputs that normalizeRecord or Validate refuses: only their key is looked at.
BadInput == [refused : {TRUE}, key : Keys \cup {NoKey}]

ASSUME BatchesAssumption == Batches \subseteq Seq(Input \cup BadInput) \ {<<>>}
ASSUME AbsentAssumption  == Absent \notin Record
ASSUME ClientsAssumption == IsFiniteSet(Creators) /\ IsFiniteSet(Maintainers)
ASSUME BoundsAssumption  == /\ MaxId \in Nat \ {0}
                            /\ Ticks \subseteq Nat
                            /\ MaxNow \in Nat /\ MaxGets \in Nat

Clients == Creators \cup Readers \cup Maintainers
Ids     == 1 .. MaxId

VARIABLES
  recs,    \* [Ids -> Record \cup {Absent}]: the memory records of the store
  lastId,  \* the last identifier handed out by idGen
  now,     \* the clock, in hours
  task,    \* what each client is in the middle of
  jobs,    \* the last result of each maintenance job
  posted,  \* how many inputs have been posted (bounds the model)
  gets,    \* how many gets have been requested (bounds the model)
  born,    \* history: every record as it was created, deleted ones included
  shared   \* history: the identifiers handed out to more than one request

history == <<born, shared>>
vars == <<recs, lastId, now, task, jobs, posted, gets, history>>

Idle == [at |-> "idle"]

Init ==
  /\ recs   = [i \in Ids |-> Absent]
  /\ lastId = 0
  /\ now    = 0
  /\ task   = [c \in Clients |-> Idle]
  /\ jobs   = [j \in JobTypes \cup Jobs |-> "never run"]
  /\ posted = 0
  /\ gets   = 0
  /\ born   = [i \in Ids |-> Absent]
  /\ shared = {}

Present == {i \in Ids : recs[i] # Absent}

\* FileStore.loadAll: every listing normalises what it reads.
ListAll == [i \in Present |-> NormalizeLegacyRecord(recs[i])]

Continue(c, t) == task' = [task EXCEPT ![c] = t]

-----------------------------------------------------------------------------
\* Create, CreateBatch, and the Store calls of the replay and trust services.

PostMemories(c, batch) ==
  /\ task[c] = Idle
  /\ posted + Len(batch) <= MaxId
  /\ posted' = posted + Len(batch)
  /\ Continue(c, [at |-> "lookup", todo |-> batch])
  /\ UNCHANGED <<recs, lastId, now, jobs, gets, history>>

\* The next input of the batch, or the end of the request.
Advance(c, todo) ==
  Continue(c, IF Len(todo) > 1 THEN [at |-> "lookup", todo |-> Tail(todo)] ELSE Idle)

\* Mutant of KeyTaken: the lookup stops after the first record.
FirstHasKey(key) == key # NoKey /\ recs[1] # Absent /\ recs[1].key = key

KeyTaken(key) == key # NoKey /\ \E i \in Present : recs[i].key = key

\* idGen is the clock in nanoseconds: fresh, unless another request read the
\* same nanosecond and has not stored its record yet.  (posted keeps the
\* identifiers within Ids.)
GeneratedIds ==
  Ids \cap ({lastId + 1} \cup
            {i \in {lastId} : \E d \in Creators : task[d].at = "store" /\ task[d].id = i})

\* Looks the idempotency key up, of an input that will be refused too; when it
\* is free, reads the clock and normalises the input.  A refused input ends
\* the request, and what the batch stored before it stays.
Lookup(c) ==
  /\ task[c].at = "lookup"
  /\ LET in == Head(task[c].todo)
     IN \/ /\ KeyTaken(in.key)
           /\ Advance(c, task[c].todo)
           /\ UNCHANGED <<lastId, shared>>
        \/ /\ ~KeyTaken(in.key) /\ in \in BadInput
           /\ Continue(c, Idle)
           /\ UNCHANGED <<lastId, shared>>
        \/ /\ ~KeyTaken(in.key) /\ in \in Input
           /\ \E i \in GeneratedIds :
                /\ lastId' = i
                /\ shared' = IF i = lastId THEN shared \cup {i} ELSE shared
                /\ Continue(c, [at |-> "store", todo |-> task[c].todo,
                                id |-> i, rec |-> NormalizeRecord(in, now)])
  /\ UNCHANGED <<recs, now, jobs, posted, gets, born>>

\* FileStore.Create; a second record with the same id ends the request.
Store(c) ==
  /\ task[c].at = "store"
  /\ LET i == task[c].id
     IN \/ /\ recs[i] = Absent
           /\ recs' = [recs EXCEPT ![i] = task[c].rec]
           /\ born' = [born EXCEPT ![i] = task[c].rec]
           /\ Advance(c, task[c].todo)
        \/ /\ recs[i] # Absent
           /\ Continue(c, Idle)
           /\ UNCHANGED <<recs, born>>
  /\ UNCHANGED <<lastId, now, jobs, posted, gets, shared>>

-----------------------------------------------------------------------------
\* Get: read the record, then write it back recalled.

GetMemory(c, i) ==
  /\ task[c] = Idle
  /\ i <= lastId
  /\ gets < MaxGets
  /\ gets' = gets + 1
  /\ Continue(c, [at |-> "read", id |-> i])
  /\ UNCHANGED <<recs, lastId, now, jobs, posted, history>>

\* Mutant of Read: a get removes the record when it has expired.
ReadPurges(c) ==
  /\ task[c].at = "read"
  /\ LET i == task[c].id
         gone == IF recs[i] = Absent THEN TRUE ELSE IsExpired(recs[i], now)
     IN /\ recs' = IF gone THEN [recs EXCEPT ![i] = Absent] ELSE recs
        /\ Continue(c, IF gone THEN Idle
                       ELSE [at |-> "write", id |-> i, rec |-> RecallRecord(recs[i], now)])
  /\ UNCHANGED <<lastId, now, jobs, posted, gets, history>>

Read(c) ==
  /\ task[c].at = "read"
  /\ LET r == recs[task[c].id]
     IN \/ /\ r = Absent
           /\ Continue(c, Idle)
        \/ /\ r # Absent
           /\ Continue(c, [at |-> "write", id |-> task[c].id, rec |-> RecallRecord(r, now)])
  /\ UNCHANGED <<recs, lastId, now, jobs, posted, gets, history>>

\* Mutant of Write: the file is written whether it exists or not.
WriteAnyway(c) ==
  /\ task[c].at = "write"
  /\ recs' = [recs EXCEPT ![task[c].id] = task[c].rec]
  /\ Continue(c, Idle)
  /\ UNCHANGED <<lastId, now, jobs, posted, gets, history>>

\* FileStore.Update: nothing is checked but that the record still exists.
Write(c) ==
  /\ task[c].at = "write"
  /\ LET i == task[c].id
     IN recs' = IF recs[i] = Absent THEN recs ELSE [recs EXCEPT ![i] = task[c].rec]
  /\ Continue(c, Idle)
  /\ UNCHANGED <<lastId, now, jobs, posted, gets, history>>

-----------------------------------------------------------------------------
\* RunJob: note the time, list the store, make the planned writes, note the
\* outcome.  A write carries the record as it was listed.

PostJob(c, job) ==
  /\ task[c] = Idle
  /\ Continue(c, [at |-> "list", job |-> job, started |-> now])
  /\ UNCHANGED <<recs, lastId, now, jobs, posted, gets, history>>

Update(i, r) == [do |-> "update", id |-> i, rec |-> r]
Delete(i, r) == [do |-> "delete", id |-> i, rec |-> r]

Plan(job, listing, started) ==
  CASE job = "decay_update" ->
         {Update(i, DecayRecord(listing[i], started)) : i \in DecayUpdates(listing, started)}
    [] job = "expired_cleanup" ->
         {Delete(i, listing[i]) : i \in ExpiredDeletes(listing, started)}
    [] job = "stale_summary_compaction" ->
         {Delete(i, listing[i]) : i \in StaleDeletes(listing)}
    [] job = "replay_preservation_enforcement" ->
         {Update(i, PreserveRecord(listing[i], started)) : i \in PreservationUpdates(listing)}
    [] OTHER -> {}

List(c) ==
  /\ task[c].at = "list"
  /\ Continue(c, [at      |-> "run",
                  job     |-> task[c].job,
                  started |-> task[c].started,
                  plan    |-> Plan(task[c].job, ListAll, task[c].started),
                  last    |-> Absent,
                  failed  |-> task[c].job \notin JobTypes])
  /\ UNCHANGED <<recs, lastId, now, jobs, posted, gets, history>>

\* Jobs go through a listing in the order of the file names, so of the
\* identifiers; compaction goes through one group after another, in any order
\* of the groups, and within a group from the newest record to the oldest.
IsNext(t, op) ==
  IF t.job # "stale_summary_compaction"
  THEN \A other \in t.plan : op.id <= other.id
  ELSE /\ \A other \in t.plan :
            SameGroup(other.rec, op.rec) /\ other # op =>
              \/ op.rec.updated > other.rec.updated
              \/ op.rec.updated = other.rec.updated /\ op.id < other.id
       /\ t.last # Absent /\ (\E other \in t.plan : SameGroup(other.rec, t.last)) =>
            SameGroup(op.rec, t.last)

\* Mutant of Apply: a job waits for the record it has listed.
ApplyWaits(c, op) ==
  /\ task[c].at = "run"
  /\ op \in task[c].plan
  /\ IsNext(task[c], op)
  /\ recs[op.id] # Absent
  /\ recs' = [recs EXCEPT ![op.id] = IF op.do = "delete" THEN Absent ELSE op.rec]
  /\ Continue(c, [task[c] EXCEPT !.plan = @ \ {op}, !.last = op.rec])
  /\ UNCHANGED <<lastId, now, jobs, posted, gets, history>>

\* One UpdateRecord or Delete.  When the record is gone the job stops.
Apply(c, op) ==
  /\ task[c].at = "run"
  /\ op \in task[c].plan
  /\ IsNext(task[c], op)
  /\ \/ /\ recs[op.id] # Absent
        /\ recs' = [recs EXCEPT ![op.id] = IF op.do = "delete" THEN Absent ELSE op.rec]
        /\ Continue(c, [task[c] EXCEPT !.plan = @ \ {op}, !.last = op.rec])
     \/ /\ recs[op.id] = Absent
        /\ Continue(c, [task[c] EXCEPT !.plan = {}, !.failed = TRUE])
        /\ UNCHANGED recs
  /\ UNCHANGED <<lastId, now, jobs, posted, gets, history>>

\* recordJobSuccess or recordJobFailure; an unsupported job is recorded too.
Report(c) ==
  /\ task[c].at = "run"
  /\ task[c].plan = {}
  /\ jobs' = [jobs EXCEPT ![task[c].job] =
                IF task[c].failed THEN "failed" ELSE "completed"]
  /\ Continue(c, Idle)
  /\ UNCHANGED <<recs, lastId, now, posted, gets, history>>

-----------------------------------------------------------------------------

Tick ==
  /\ \E k \in Ticks : now + k <= MaxNow /\ now' = now + k
  /\ UNCHANGED <<recs, lastId, task, jobs, posted, gets, history>>

\* The next step of a request that is being served.
Serve(c) ==
  \/ Lookup(c) \/ Store(c)
  \/ Read(c) \/ Write(c)
  \/ List(c) \/ Report(c)
  \/ task[c].at = "run" /\ \E op \in task[c].plan : Apply(c, op)

Next ==
  \/ \E c \in Creators : \E batch \in Batches : PostMemories(c, batch)
  \/ \E c \in Readers : \E i \in Ids : GetMemory(c, i)
  \/ \E c \in Maintainers : \E job \in Jobs : PostJob(c, job)
  \/ \E c \in Clients : Serve(c)
  \/ Tick

\* A goroutine that serves a request runs on, and every store call returns
\* (FileStore, EveryCallReturns).  Nothing forces new requests or the clock.
Fairness == \A c \in Clients : WF_vars(Serve(c))

Spec     == Init /\ [][Next]_vars
FairSpec == Spec /\ Fairness

-----------------------------------------------------------------------------
\* Properties.

Op == [do : {"update", "delete"}, id : Ids, rec : Record]

Task ==
  {Idle}
  \cup [at : {"lookup"}, todo : Seq(Input \cup BadInput) \ {<<>>}]
  \cup [at : {"store"}, todo : Seq(Input \cup BadInput) \ {<<>>}, id : Ids, rec : Record]
  \cup [at : {"read"}, id : Ids]
  \cup [at : {"write"}, id : Ids, rec : Record]
  \cup [at : {"list"}, job : Jobs, started : Hours]
  \cup [at : {"run"}, job : Jobs, started : Hours, plan : SUBSET Op,
        last : Record \cup {Absent}, failed : BOOLEAN]

JobResult == {"never run", "completed", "failed"}

\* Types: every record in the store, in a request and in a plan passes
\* Validate, scores stay within 0..100 included.
TypeOK ==
  /\ recs   \in [Ids -> Record \cup {Absent}]
  /\ lastId \in 0 .. MaxId
  /\ now    \in Hours
  /\ task   \in [Clients -> Task]
  /\ jobs   \in [JobTypes \cup Jobs -> JobResult]
  /\ posted \in 0 .. MaxId
  /\ gets   \in 0 .. MaxGets
  /\ born   \in [Ids -> Record \cup {Absent}]
  /\ shared \in SUBSET Ids

SameIdentity(r, s) ==
  /\ r.type = s.type /\ r.src = s.src /\ r.importance = s.importance
  /\ r.pinned = s.pinned /\ r.expires = s.expires /\ r.key = s.key
  /\ r.tagged = s.tagged /\ r.created = s.created

\* An identifier that two requests took in the same nanosecond can name two
\* records one after the other, when the first is deleted before the second
\* is stored; the next four properties are about the others.
UniqueIds == Ids \ shared

\* Whole records are written back by reads and jobs that saw the store long
\* ago; yet what a record is, as opposed to how it has been used, never
\* changes after its creation (memory/service.go:116, ops/service.go:170).
IdentityNeverChanges ==
  \A i \in UniqueIds :
    recs[i] # Absent => born[i] # Absent /\ SameIdentity(recs[i], born[i])

\* A record that was deleted never comes back, although a read or a job that
\* saw it before writes it later: Update refuses what is gone
\* (file_store.go:88-94).
DeletedStaysDeleted ==
  [][\A i \in UniqueIds : born[i] # Absent /\ recs[i] = Absent => recs'[i] = Absent]_vars

\* Where the identifiers and the copies of records come from; with the type
\* invariant the inductive invariant of the proofs.
IdsInv ==
  /\ \A i \in Ids : (recs[i] # Absent => born[i] # Absent) /\ (born[i] # Absent => i <= lastId)
  /\ \A c \in Clients : task[c].at = "store" =>
       /\ task[c].id <= lastId
       /\ task[c].id \in UniqueIds =>
            /\ born[task[c].id] = Absent
            /\ \A d \in Clients \ {c} : task[d].at = "store" => task[d].id # task[c].id

\* r is a copy, perhaps an old one, of the record that was created under i.
CopyOf(i, r) ==
  i \in UniqueIds => /\ born[i] # Absent
                     /\ SameIdentity(r, born[i])
                     /\ born[i].linked => r.linked

CopiesInv ==
  /\ \A i \in Ids : recs[i] # Absent => CopyOf(i, recs[i])
  /\ \A c \in Clients :
       /\ task[c].at = "write" => CopyOf(task[c].id, task[c].rec)
       /\ task[c].at = "run" => \A op \in task[c].plan :
            CopyOf(op.id, op.rec) /\ (op.do = "delete" => ~op.rec.pinned /\ ~op.rec.linked)

\* Records that are pinned or linked to a replay from their creation.
BornProtected(i) == born[i] # Absent /\ (born[i].pinned \/ born[i].linked)

\* No job and no interleaving of jobs and stale writes ever deletes a record
\* that was created pinned, as a replay case or with policy replay_preserve
\* (ops/service.go:184,218).
ProtectedNeverDeleted ==
  [][\A i \in UniqueIds : BornProtected(i) /\ recs[i] # Absent => recs'[i] # Absent]_vars

\* A record loses at most 15 points of its score for every whole twelve hours
\* it has existed, however many decay jobs run, one after another or at once:
\* penalties do not compound, since each job writes a score computed from its
\* own listing, and a decay restarts the window (domain/memory/models.go:264-286).
\* The bound is on the sum.  A decay that is written late can bring an older
\* UpdatedAt back, and then two penalties fall within one window.
DecayIsPaced ==
  \A i \in UniqueIds : recs[i] # Absent =>
    recs[i].stability >= born[i].stability - 15 * ((now - born[i].created) \div 12)

\* When at most one client creates, an idempotency key is held by at most one
\* record; two creates in flight are IdempotencyKeyIsUnique's subject.
SequentialCreatesShareNoKey ==
  Cardinality(Creators) <= 1 =>
    \A i, j \in Present : recs[i].key # NoKey /\ recs[i].key = recs[j].key => i = j

\* When one client runs the jobs, compaction and cleanup never empty a group
\* of records about the same source while some record of it has not expired,
\* whatever is created and recalled meanwhile.  (Under an identifier that two
\* requests took, a stale write can put one record in the place of the other,
\* and so in another group.)
Group(i) == {j \in Present : SameGroup(recs[j], recs[i])}

LastOfGroupSurvives ==
  [][Cardinality(Maintainers) <= 1 /\ shared = {} =>
       \A i \in Present :
         (\A j \in Group(i) : recs'[j] = Absent) => \A j \in Group(i) : IsExpired(recs[j], now)]_vars

\* When one client runs the jobs, no job fails half way: only jobs delete, so
\* what a job has listed is still there when it gets to it.
LoneJobNeverFails ==
  Cardinality(Maintainers) <= 1 =>
    \A j \in JobTypes : jobs[j] # "failed"

\* Every request ends: a batch, a get or a job, even when its records are
\* deleted under it and while others keep creating.
EveryRequestEnds == \A c \in Clients : task[c] # Idle ~> task[c] = Idle

-----------------------------------------------------------------------------
\* What the documentation says and some executions refute.

\* A create with an idempotency key that is in use returns the stored record
\* instead of creating a duplicate (docs/api.md).
IdempotencyKeyIsUnique ==
  \A i, j \in Present : recs[i].key # NoKey /\ recs[i].key = recs[j].key => i = j

\* Stale compaction preserves the latest useful summary (docs/operations.md):
\* of the records about one source that were never recalled, the one created
\* last is not deleted in favour of an older one.
LatestSummarySurvives ==
  [][\A i \in Present : recs'[i] = Absent /\ ~IsExpired(recs[i], now) =>
       \E j \in Present : /\ SameGroup(recs[j], recs[i]) /\ recs'[j] # Absent
                          /\ \/ recs[j].recalls > 0
                             \/ recs[j].created >= recs[i].created]_vars

=============================================================================
