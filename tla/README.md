# A TLA+ verification of clawmem

clawmem is a small Go service that keeps memory records for agents ("clawbots") and scoped
notes for control-plane runs, each as one JSON file, behind an HTTP API. This directory models
the part of it that can go wrong in ways a unit test does not reach: concurrent requests over a
store whose calls are atomic but whose services are not, maintenance jobs that work from a
listing, files that are written in place, and snapshots that are linked into a chain.

`PROJECT.json` lists the components, runs, hazards, theorems and findings, and maps every
definition that models code to its lines. `mutants` names, for every property of a passing run,
a plausible bug (an operator of the module, marked "Mutant of") under which TLC finds that
property violated.

## The system

| part | state | operations | how it interacts |
| --- | --- | --- | --- |
| file store, `internal/platform/store` | three directories of `<id>.json`, one `sync.RWMutex` | Create, Update, Delete, Get, List, ListAll, Count, FindByIdempotency, Summary; the same for scoped records and snapshots, of which nothing is deleted and snapshots are never updated | called by every service, from one goroutine per HTTP request |
| memory lifecycle, `internal/domain/memory` | none | stability, recall, expiry, decay, validation | used by the store and by the services |
| memory service, `internal/services/memory` | none | Create (with idempotency key), CreateBatch, CreateSeed, Get (counts as a recall and is written back), List | two store calls for a create or a get |
| maintenance, `internal/services/ops` | the last result of each job | RunJob: decay, expired cleanup, stale compaction, replay preservation; summaries | lists the store once, then one Update or Delete per record |
| replay and trust, `internal/services/{replay,trust}` | none | Store (a create with a fixed type), List | through the memory service |
| scoped memory, `internal/services/scopedmemory` | none | PersistNotes, UpdateRecordStatus, CreateSnapshot; context, queries, exports | a notes request makes a store call for each note, look-up, resolution and snapshot |
| HTTP handlers, middleware, bootstrap with seeding, application lifecycle, configuration | the running server | decode and answer; seed an empty store; shut down within ten seconds | |

What is hard in it, and what the properties are for:

- **Between two store calls anything may happen.** A look-up of an idempotency key and the create
  that follows, a read and the write of the whole record it read, a job's listing and the deletes
  it leads to, a check of a status transition and its write.
- **Steps fail in the middle.** A batch at its third input, a job at a record another job has
  deleted, a notes request after half of its notes, a file between `O_TRUNC` and its payload.
- **Scores and times feed back.** Decay, recall and preservation change the fields that the next
  job decides by.
- **Reads are many calls too.** A listing is made page by page, by offset, while others write; a
  context is five listings, an export two, a snapshot of a whole scope a listing and a later store.
- **The process ends in the middle of things.** While it seeds, while a request is half done,
  between the truncation of a file and its payload; by a signal, after ten seconds, or at once;
  and the next start finds what that left.
- **A reader/writer lock with an error path in every call.**

For each part, correctness means: the store is linearizable, never shows a write in progress,
and always answers; a record keeps its identity, never comes back once deleted, and is never
deleted if it was protected from its creation (all this as long as no other request took its
identifier in the same nanosecond); scores stay in range and sink no further than the hours lived
allow; what a note says never changes and every note is in a snapshot; when requests come one at a
time, a gap exists once, nothing is opened again, and the snapshots of a scope form one chain while
they fit a page; a read shows what did not change while it was made; a store is seeded when it is empty and
never else, and no answered request is lost by the way the process ends.

## The modules

| module | what it is |
| --- | --- |
| `StoreOps` | requests, answers and effects of one store call, executed indivisibly |
| `AtomicStore` | the abstract store: a call is made, takes effect at one instant, returns |
| `FileStore` | the store as it is built, step by step under the mutex, with I/O errors and crashes; `Atomic` is the refinement mapping |
| `Lifecycle` | the pure rules for a memory record and what each job intends to do with a listing |
| `MemoryService` | creates, batches, gets and maintenance jobs of concurrent requests over an atomic store |
| `MemoryApi` | what is built on the memory service: replays and trust artifacts, the decay queue of the maintenance overview |
| `ScopedRules` | the pure rules of scoped memory: classes, statuses, transitions of a status |
| `ScopedMemory` | notes, status changes and snapshots of concurrent requests over an atomic store |
| `NotesLedger` | the abstract scoped memory: one request at a time, its whole effect at once |
| `ScopedContext` | the pure rules of a compact context: what it shows, in which order |
| `ScopedReads` | listings page by page, contexts, exports and whole-scope snapshots, while others write |
| `Startup` | the life of the process: start, seeding, serving, shutdown, and the starts that follow |
| `MCFileStore`, `MCMemory`, `MCScoped`, `MCReads`, `MCStartup` | small instances for TLC |
| `FileStoreProofs`, `FileStoreRefinement`, `LifecycleProofs`, `MemoryServiceProofs`, `MemoryApiProofs`, `ScopedMemoryProofs`, `ScopedReadsProofs`, `StartupProofs` | theorems |

The layers meet at the store. `FileStore` shows that, without failures, the calls on the files
are those of `AtomicStore`; `MemoryService`, `ScopedMemory` and `ScopedReads` use one action per
store call, which is what an atomic store allows. `ScopedMemory` shows that such calls, as long as
requests do not overlap or fail, add up to the requests of `NotesLedger`. `Startup` goes below the
store again, since a kill comes between two system calls.

### FileStore

`files` is what is on disk: a content, `Absent`, or `Torn` (truncated and not completely written:
it does not decode). `owner`, `active` and `parked` are the RWMutex: a writer announces itself,
later readers park behind it, it proceeds when the active readers have left, and when it unlocks
every parked reader enters. `pc[c]` is where a call is. `Reject`/`Accept` are the validation
before any lock; `RLock`, `ReadFile`, `ReadDir`, `ScanFile`, `EndScan`, `RUnlock` a read (one
`ScanFile` for one file); `Lock`, `Stat`, `Truncate`, `Write`, `Unlock` a write. `os.WriteFile` is
two steps because it is two system calls. `IOError` fails a file operation and takes the deferred
unlock; `Crash` loses everything but the files. `damaged` is history: the paths whose last write
one of the two has cut (`CutBy`), until a write or a deletion mends them. A content is opaque:
decoding one succeeds or not.

### Lifecycle and MemoryService

A record has the fields the rules read. `src` stands for the namespace and the source reference,
which are only compared; times are hours, because decay windows are. `NormalizeLegacyRecord` is
applied by listings and not by `Get`, as in the code.

`task[c]` is where the request of client `c` is: `lookup` and `store` for a create (and for the
rest of its batch), `read` and `write` for a get, `list` and `run` for a job, whose `plan` is the
set of writes it derived from its listing, applied in the order the code applies them (file
order; for compaction groups in any order, each from its newest record on). `Apply` stops the job
when the record is gone. An input that will be refused (`BadInput`) is refused only when its key is
free: the key is looked up first. `GeneratedIds` lets two creates in flight take the same nanosecond;
`born` and `shared` are history variables, and the properties that speak of a record's history
exclude the identifiers in `shared`.

### ScopedMemory

A request is the set of store calls it has still to make, `task[c].work`, each with a rank; `Call`
makes one of least rank. A call that reads (`Find`, `Get`, `Match`, `Transition`, `Collect`,
`Link`) adds the writes that follow from what it read, which carry the whole record as it was read
and go first. `Fail` ends a request at any point, as an error of the store or a crash does. Records
and snapshots are numbered by the order in which they are stored. A snapshot's checksum is of its
content, which contains its time: the stamp stands for it. `overlapped` is history: two requests
have been in progress at once. `settled` is history: the store when last no request was in
progress.

### NotesLedger

One action per request, with its whole effect: `Notes` says what is appended (`Wanted`, the gaps
not reported before in the namespace), what is taken up again (`TakenUp`), what is resolved by
identifier and by text (also what the request itself has just reported), and which records the
snapshot refers to; it says nothing of calls, ranks or the copies that are written back. The ledger
is closed when two requests overlap or a call fails: then `ScopedMemory` promises only its own
invariants. The mapping takes `settled` for the state, so that the calls of a request are stutters
until its last one.

### MemoryApi

`ReplayInput` and `TrustInput` are `Store` of the two services: what has to be given, the fixed
type, no idempotency key. Their results are inputs of `PostMemories`. `AfterJob` is what a store
would hold after one more job; `JobsSettle` uses it to ask, in every reachable state, what a job
that is repeated at once would do.

### ScopedReads

`recs` and `snaps` are numbered by the time they were given, which is before they are stored
(`StampRecord`, `StoreRecord`): listings are sorted by that time, so a record may be stored before
the place a reader has reached. `read` is the one read in progress: the listings it still has to
make (`queries`), the offset, what it has seen. `Page` is one call of `ListScopedRecords` or
`ListScopedSnapshots` together with what `listAllRecords` does with its answer; `Fetch` one
`GetScopedRecord` of an export; `StampCheckpoint` and `StoreCheckpoint` end a snapshot without
record references. `steady`, `leaves`, `entries`, `still` and `saved` are history: what was selected
or unchanged for as long as the read has lasted, how many records left or joined the selection.
The writers make any store that the requests of `ScopedMemory` can make.

### Startup

`files` holds for each memory record nothing, `Torn`, or where its content came from. `phase` goes
through `opening` (`OpenStore` is NewFileStore), `counting`, `reading`, `seeding`, `listening`,
`serving`, `draining` to `stopped`; `Exit` is how every end loses what was in progress. A seed
record, a create and an update are two steps, truncation and write, under one writer at a time.
`Send`, `Call`, `Write` are requests of several calls: a batch, a recall, a deletion by a job. A
`list` among the calls reads every record, as the look-up of an idempotency key and the beginning of
a job do, so one torn file makes it fail. System calls fail: `StartFails` is an error of NewFileStore,
of Count, or of a seed record's look or write, each of which ends the start; `CallFails` and
`WriteFails` are errors of a request, which is answered with an error, and `WriteFails` leaves its
file truncated in a process that goes on. The configuration is chosen anew at each start: the seed
file may have been corrected, or be missing. `hurt` and `spoilt` are history and name the exceptions
in the properties: the files whose own last write was cut, by the end of the process or by its
error, and a start that ended while it seeded.

## The runs

| run | bounds | what it shows |
| --- | --- | --- |
| `FileStore` | 2 clients, two of the directories with 2 files each, 2 valid contents and an invalid one | types; the store implements `AtomicStore` |
| `FileStoreFaults` | 2 clients, 2 files of one directory, 3 failures of either kind | a file is undecodable exactly while it is written or when its own last write was cut; whoever is told so has asked for such a file; readers see one state; every call returns |
| `MemoryCleanup` | 3 records of one source, one creator, one reader, one maintainer, a jump of the clock past the expiry and the decay window | cleanup and compaction delete nothing that must stay, and a source is never emptied of what has not expired; one create at a time keeps keys unique; a lone maintainer's jobs never fail; a job repeated finds nothing to do, and the decay queue drains |
| `MemoryScores` | 1 record, two maintainers, one reader, four jumps of 13 hours | types and score range, identity, the sum of the penalties of decay |
| `MemoryRequests` | 2 records, two clients that create, read and maintain | deleted records stay deleted; every request ends |
| `ScopedNotes` | 2 clients, 3 notes or snapshot requests, status changes at any time, 1 failed call | the properties below, and that requests that do not overlap are those of `NotesLedger` |
| `ScopedReads` | 3 records, pages of 2, 1 snapshot of a client, 1 status written (to resolved or archived), 1 read of each kind, contexts of two cycles | what listings skip and repeat; what contexts and exports guarantee; reads end |
| `Startup` | 2 connections, 3 starts, 1 system call that fails, 2 seed records and 2 of clients, four seed files (a good one, a bad record, a record twice, unreadable), four requests (a batch whose first record has a key, a recall, the deletions of a seed record and of a client's by a job) | the store is seeded only when empty; what is stored stays; torn files and failed starts have the named causes; starts and stops end |
| `MemoryIdempotency`, `MemoryLatest`, `ScopedStatus`, `ScopedChain` | the smallest that show it | one finding each |

The bounds are enough because the interesting cases need few actors: a race here is between one
stale copy and one other writer; a group needs two records to have a first and a rest, and a third
for a create in between; the range of a score is left after two decays of a small one; a chain
that forks or stops needs three snapshots and a page of two. A listing goes wrong with one page
boundary and one write, so three records on pages of two are enough to skip one or see one twice; a
class of a context is full at two texts. A seeding is cut between two records, or in one; the third
start is the one that finds what a start that was cut has left of what another one had left. Two
files and three failures are enough for a failure that damages nothing, one that cuts a write, and a
reader of the other file afterwards; that a reader holds the lock, a writer waits for it and a second
reader for the writer would take a third client, which does not fit together with them (the theorems
have any number). One system call that fails in `Startup` comes on top of the
kills, which may come at any step of each of the three lives; that several fail is covered by the
theorems.
`MaxPageSize` is 500 in the code and 2 in the runs; `MaxPerClass` and `MaxSummaries` are 5 and 7 in
the code, 2 and 1 in the run. `MaxId`, `MaxGets`, `MaxNow`, `MaxPosts`, `MaxRecs`, `MaxFaults`,
`MaxNotes`, `MaxSnaps`, `MaxWrites`, `MaxReads`, `MaxOpen` and `MaxStarts` only bound what is
requested, for how long, and what fails; in `ScopedReads` there is one read at a time, since reads
do not change what others read, and no snapshot is begun while a read lists records only (it could
not see it). `ScopedNotes` is reduced by the symmetry of its two clients, which is sound as all its
properties are safety properties, the refinement of `NotesLedger`, stated without fairness,
included.

Deadlock is checked in the passing runs but two: in `Startup` the process stays stopped after its
last start, and in `ScopedReads` nobody writes any more when all has been written and read. Of the
violations, `ScopedChain` and `MemoryIdempotency` stop when their bounds are used up.

The properties of `FileStoreFaults` follow each failure to its file. `DamageConfined` is an
equivalence: a read that fails, or a write of another path, damages nothing. With
`DecodeErrorsNameDamage` a get is told of an undecodable file only if the last write of this very
file was cut, and a listing only if that of one in its own directory was.

`DecayIsPaced` bounds the sum of the penalties by the windows a record has lived, not what it loses
in one window: a decay that is written late can bring an older `UpdatedAt` back, and the next one
then comes less than twelve hours after the last. `ProtectedNeverDeleted` is about records that were
created pinned or linked to a replay; a cleanup does delete a record that a replay preservation has
protected after its listing.

The properties of `ScopedNotes` fall in two groups. Under any overlap: what a record says never
changes and non-actionable records do not change at all (`OnlyActionableStatusChanges`); when
nothing failed and all is quiet, every note is in a snapshot (`EveryNoteIsSnapshotted`); a record
that refers to a snapshot never precedes it (`ReferencesAreSound`). As long as requests come one
at a time, even if they fail half way: an open gap exists once in its namespace
(`SerialGapsAreUnique`), nothing is opened again (`SerialNeverReopens`), and snapshots form a chain
while they fit a page (`SerialSnapshotsChain`). These three really need the condition: overlapping
requests create a gap twice, write back an open copy of a gap that was resolved meanwhile, and
link two snapshots to the same predecessor.

What the properties of `ScopedReads` and `Startup` say is weaker than what one might hope for, and
that is the point: each names the only cause of the exception. A listing skips at most as many of
the records that were selected all the time as left the selection meanwhile, so a listing without a
status, which nothing leaves, skips none (`SkipsNeedDepartures`); it repeats at most as many as
joined (`RepeatsNeedArrivals`). A context shows what did not change, shows nothing that was archived
all the time, and puts open records first, although its five listings are of five moments. The
export of a run holds what those of its snapshots refer to that existed when it began; a snapshot
stored between its two listings may refer to records it does not hold (`ExportIsClosed`). A file
is torn exactly while it is being written or when its own last write was cut: by an error of that
write, a kill, a failed accept or the end of the ten seconds, and never by a signal and an orderly
stop (`OnlyCutsTear`). A start that meets no I/O error of its own (`outcome` is then `"io"`) fails
only if it was to seed, over a torn file or its seed file (`StartsFailForACause`). A store
that was being seeded when its process ended is served with a part of the seeds for ever: the next
start counts more than none (`ServesAllSeedsOrNone`, which excepts exactly this). "Empty" means
without memory records: a store that holds scoped records only is seeded, although
docs/development.md:25 speaks of the directory.

### Fairness

`FileStore`, `MemoryService`, `ScopedReads` and `Startup` have liveness properties. A goroutine that
can step is scheduled again (weak fairness of a client's next step). Taking the write lock has strong fairness: Go's
mutex switches to starvation mode and hands itself over after a millisecond. Readers need none:
a parked reader enters at the next unlock. Nothing forces a new request, the clock or a failure.
In `ScopedReads` the goroutine of the read runs on (weak fairness of `Read`); a listing ends because
what is written is bounded, as it is in the time a read takes. In `Startup` the main goroutine runs
on and the shutdown timer fires (weak fairness of `StartStep` and `StopStep`); requests are assumed
to do nothing, since one may go on for longer than the ten seconds.

### Findings

Four places where the code does other than the documentation or a test says, each with a short
counterexample; the quotes are in `PROJECT.json`.

1. Two creates in flight with one idempotency key store two records (`MemoryIdempotency`).
2. Compaction takes a decayed record for the newest and deletes the latest (`MemoryLatest`).
3. A notes request resolves what is archived or superseded (`ScopedStatus`).
4. Beyond a page of snapshots, every new one is linked to the same old one (`ScopedChain`).

Two more need no counterexample of several steps and have no run: a read of a record that replay
preservation has raised to 70 recomputes its score and lowers it (docs/storage-model.md:100 says
that reads raise stability); and a process killed between truncation and write leaves a file that
does not decode (docs/testing.md:530 expects a restart to preserve records), which `FileStoreFaults`
and `Startup` have among their reachable states and confine to the file that was being written.

## The proofs

All theorems hold for every value of the constants that satisfies the named assumptions of the
modules. Those are facts of the code or of how it is modelled: identifiers and special values are
different things (`ValuesAssumption`, `NamesAssumption`, `AbsentAssumption`, `NeverAssumption`,
`NoKeyAssumption`, and `FilesAssumption`, by which a torn file is not taken for an absent or a
whole one), inputs have their shape (`BatchesAssumption`, `NotesAssumption`, `SeedFilesAssumption`
and the like), bounds are numbers, and there are finitely many clients (`ClientsAssumption` of
`MemoryService`, since its properties count them). No theorem assumes a bound on the number of
clients, records, files, requests, failures or restarts.

- **`FileStoreProofs`.** The inductive invariant is `TypeOK`, `LockInv` (who holds, waits for and
  has announced itself for the lock agrees with `pc`, and a writer past its stat has no active
  reader), `RequestInv` (what a call at each place was asked), `ScanInv` (a listing has read
  exactly its directory minus what is left) and `AnswerInv`, with `DamageConfined`, which is inductive
  together with them. The property "no file changes while
  somebody reads" is not inductive without them: one has to know that a client at `open` or
  `write` owns the lock and that nobody reads then. Proved for `FaultySpec`, any number of
  failures: `Typing`, `DamageIsConfined`, `ReadersSeeOneState`, and `DecodeErrorsAreDamage`, for which
  `DecodeInv` adds that whoever is about to be told of an undecodable file still holds the read lock,
  so that nobody can have mended the file meanwhile.
- **`FileStoreRefinement`.** `Spec => ImplementsAtomicStore`. A write maps to its effect when it
  truncates the file (nobody can look before it is written); a get and a listing when the answer is
  known, for which `ScanInv` says that what was read file after file is the directory of one moment.
- **`LifecycleProofs`.** Every rule maps records to records, scores within 0..100. A record that
  has decayed is not eligible for twelve hours (`DecayRestartsWindow`); replay preservation leaves
  nothing to enforce and makes its record immune to decay (`PreservationSettles`).
- **`MemoryServiceProofs`.** `IInv` is `TypeOK`, `IdsInv` (an identifier handed out once is stored
  by one request) and `CopiesInv` (every copy of a record, in the store, in a get that has still to
  write or in a job's plan, has the identity of the record as it was created, and a copy in a plan
  to delete is not protected). From it, for any number of clients, records and jobs:
  `IdentityIsKept`, `DeletionIsFinal`, `ProtectionHolds`. On top of it, `JobsInv`: who creates and
  who maintains (`RolesInv`), a plan has one write for a record (`PlanInv`), copies are not of the
  future (`TimesInv`), and three parts that hold under the condition of their property. `LoneInv`:
  all that the plan of a lone maintainer names is still stored, as nobody else deletes and the plan
  names a record once (`LoneJobsComplete`). `KeyInv`: the key that a lone creator has looked up is
  still free when it stores, which needs that no identifier is shared
  (`SequentialKeysAreUnique`). `GroupInv`: for every record that a plan deletes, and that has not
  expired, a record of its group is stored that the plan does not name, namely the newest of the
  listing (`GroupsSurvive`). That there is a newest one is shown with a smallest counterexample,
  not by induction. The proof failed at first for a reason: under an identifier that two
  requests took, a recall writes one record in the place of the other, and with it moves it to
  another group, so `LastOfGroupSurvives` now excludes shared identifiers as the other properties do.
- **`MemoryApiProofs`.** A bound on the stored score is not inductive, because stale copies are
  written back. `PaceInv` says it of every copy, in the store, in a get and in a plan, and says it
  twice: the score of a copy is on pace now, and it was at the time the copy was last touched,
  which is what the next decay is measured from (`PacedBy`). A recall computes the score anew, which
  is no lower than at creation (`StabilityGrows`). From it `DecayKeepsPace`, a bound on the sum: the
  time a copy was last touched may be an older one than the record had before. `MaintenanceSettles`
  follows from `TypeOK` and the rules: each job's plan of its own result is empty, and decay and
  cleanup work off the queue in either order.
- **`ScopedMemoryProofs`.** The invariant relates the stored records and snapshots to the calls
  that the requests have still to make. `PutInv`: what is to be written back says what the stored
  record says, and only of actionable records; so nothing changes a text
  (`RecordsKeepTheirText`). `StampInv`: a stamp is on its way to one snapshot and one reference, the
  reference after the snapshot (`ReferencesSound`). `SnapshotInv` and `CoverInv`: each note is in a
  snapshot, or among the references of a request that has a snapshot to make (`NotesAreCovered`).
  Under `~overlapped`: `AloneInv` (one request in progress), `UrgentInv` and `ReopenInv` (an open
  copy is written back at once, over an open record; `NothingReopensSerially`), `GapInv` (a gap to
  be created is not there; `GapsAreUnique`), `OneSnapshotInv` and `ChainInv` (stamps are stored in
  their order, and a snapshot about to be stored is linked to the last of its scope;
  `SnapshotsChainSerially`).
- **`ScopedReadsProofs`.** A page is a stretch of ranks: `Sorted` puts a record at its `Rank`, how
  many of the selection are not younger. The promises about a whole listing are not inductive, as
  they say nothing of a listing half made. `PageInv` does: of the records selected all the time,
  those before the offset that were not seen are at most `leaves`, and those seen that lie beyond
  the offset, with the repetitions so far, are at most `entries`. One write changes a selection by
  one record (`OneChange`), and that moves the ranks behind it by one, so each side grows by one at
  most (`MissedCount`, `AheadCount`); a page leaves both sides as they are (`PageCounts`).
  `QueriesInv` says that what was listed and what is left are the queries of the request, so a read
  without a status has `leaves = 0` and misses nothing. `ContextInv` says of the copies listed that
  they are of the class asked for and are the record as it is unless it has changed, and of every part
  that was put together that it shows, hides and orders what it must; the writers that come after
  can only take records out of `still`. That `compactTexts` keeps the first copy of each text, in
  order, is `CompactTextsAre`, from the fact that its order is total on the copies of different
  records (`PrecedesOrders`). `ExportInv` and `BundleInv` relate the first listing, or what was
  fetched, to what snapshots refer to, `CheckpointInv` and `RefsInv` the snapshot that is made to
  stored records. `SkipsAreDepartures`, `RepeatsAreArrivals`, `ContextShowsAll`,
  `ContextHidesAllArchived`, `ContextIsOrdered` and `ExportsAreClosed` hold for pages and classes of
  any size and any number of writers.
- **`StartupProofs`.** `PhaseInv` says where in its life the process may have requests and seed
  records left, `WriterInv` whose file is truncated, `SeedInv` that what is left is the end of the
  seed file, and what was laid of its beginning, `KeptInv` that what a request was to create it has
  still to create or it is stored. With the types, and with `OnlyCutsTear` (which says of each file that
  is torn who is writing it or that it is `hurt`),
  `SeedsOnlyIntoEmptyStore` and `StartsFailForACause`, which are inductive only together with them,
  this is `IInv` (`Invariance`), and all seven safety properties of the run follow, through any
  number of starts, kills, signals, requests and failing system calls.

Each of these invariants was model-checked on the instances of the runs before it was proved.

Model-checked only:

- liveness (`EveryCallReturns`, `EveryRequestEnds`, `EveryReadEnds`, `StartsAndStopsEnd`), which
  needs ENABLED and fairness, outside TLAPS's reach here;
- `ImplementsLedger`: what the calls of a request add up to is its history, and the invariant would
  have to say for every set of calls left what the ledger's whole effect minus theirs is; the
  properties that the ledger is there for have theorems of their own.

## What is not modelled

- Read-only operations whose result no state depends on: listings of memory records by query,
  summaries by namespace and clawbot, metrics, the other counts of the maintenance overview, and the
  lists of the replay and trust services (the default page of 25, oldest first).
- The spelling of things: namespaces as strings, tags, metadata, provenance, checksums as hashes,
  JSON, logging, environment variables.
- Repositories and runs other than one in the scoped modules; a snapshot request's own query
  criteria; the counts in the manifest of an export; two snapshots with one `CreatedAt`.
- I/O errors in `MemoryService` (a job or a batch that fails on its own is there, and a request that
  an error or the end of the process ends is in `FileStore` and in `Startup`) and in `ScopedReads` (a
  read that fails returns nothing). Of `Startup`: a configuration that does not load, which ends the
  process before it has looked at the store; the error of closing the listener; the requests on
  scoped memory, which have directories of their own.
- `LastOfGroupSurvives`, `LoneJobNeverFails` and `SequentialCreatesShareNoKey` speak of one
  maintainer or one creator, the serial properties of `ScopedMemory` of requests that do not overlap.
  What goes wrong otherwise is listed among the hazards, with a note where no property catches it.
- The middleware (no state) and the interfaces under `interfaces/`, which the program does not use.

## Plan

1. *(done)* `FileStore` and its refinement; `Lifecycle`, `MemoryService`; `ScopedMemory`.
2. *(done)* `ScopedReads`, `Startup`, `NotesLedger` and the refinement, `MemoryApi`.
3. *(done)* Proofs of all safety properties of `MemoryService`, `MemoryApi`, `ScopedMemory`,
   `ScopedReads` and `Startup`, each with its inductive invariant.
4. The steps of `ImplementsLedger` that are not the last of a request, which are stutters; then the
   last ones, with an invariant that says what the calls already made add up to.
