---------------------------- MODULE ScopedMemory -----------------------------
(***************************************************************************)
(* The scoped memory service (internal/services/scopedmemory): notes that  *)
(* control-plane runs persist, the status of actionable records, and the   *)
(* hash-linked snapshots.                                                  *)
(*                                                                         *)
(* A request is the set of store calls it has still to make.  One action   *)
(* makes one call, of the least rank; a call that reads the store may add  *)
(* the writes that follow from what it read, which go first.  Between two  *)
(* calls any other request may run, and any call may fail, which ends the  *)
(* request and leaves what it has already written.                         *)
(*                                                                         *)
(* Scoped records and snapshots are never deleted: they are numbered in    *)
(* the order in which they are stored, which is the order of their times   *)
(* unless two requests overlap.                                            *)
(***************************************************************************)
EXTENDS ScopedRules

CONSTANTS
  Clients,
  Texts,           \* content texts
  NotesInputs,     \* the bodies of notes requests
  SnapshotInputs,  \* the bodies of snapshot requests
  Targets,         \* the statuses asked for
  MaxPageSize,     \* the longest page of a listing (500 in the code)
  MaxPosts,        \* bound on the notes and snapshot requests
  MaxRecs,         \* bound on the identifiers named in requests
  MaxFaults        \* bound on the store calls that fail

NotesInput == [ns : Namespaces, status : Statuses, texts : [Classes -> SUBSET Texts],
               resolveIds : SUBSET (1 .. MaxRecs), resolveTexts : SUBSET Texts]
SnapshotInput == [ns : Namespaces, refs : SUBSET (1 .. MaxRecs)]

ASSUME NotesAssumption    == NotesInputs \subseteq NotesInput
ASSUME SnapshotAssumption == SnapshotInputs \subseteq SnapshotInput
ASSUME TargetsAssumption  == Targets \subseteq Statuses
ASSUME PageAssumption     == MaxPageSize \in Nat \ {0}
ASSUME BoundAssumption    == MaxPosts \in Nat /\ MaxRecs \in Nat /\ MaxFaults \in Nat

VARIABLES
  recs,        \* scoped records, in the order of their creation
  snaps,       \* scoped snapshots, in the order of their storing
  clock,       \* the clock that stamps snapshots, in nanoseconds
  task,        \* the request each client is in the middle of
  posted,      \* notes and snapshot requests so far
  faults,      \* failed store calls so far
  overlapped,  \* history: two requests have been in progress at once
  settled      \* history: records and snapshots when last no request was in
               \* progress, as long as none has overlapped or failed

vars == <<recs, snaps, clock, task, posted, faults, overlapped, settled>>

Idle == [work |-> {}]

Init ==
  /\ recs       = <<>>
  /\ snaps      = <<>>
  /\ clock      = 0
  /\ task       = [c \in Clients |-> Idle]
  /\ posted     = 0
  /\ faults     = 0
  /\ overlapped = FALSE
  /\ settled    = [recs |-> <<>>, snaps |-> <<>>]

-----------------------------------------------------------------------------
\* Requests.

Begin(c, t) ==
  /\ task[c] = Idle
  /\ task' = [task EXCEPT ![c] = t]
  /\ overlapped' = (overlapped \/ \E d \in Clients : task[d] # Idle)
  /\ UNCHANGED <<recs, snaps, clock, faults>>

Post == posted < MaxPosts /\ posted' = posted + 1

\* Mutant of NotesWork: the resolutions by text come first.
NotesWorkResolvingFirst(in) ==
  (UNION {{[rank |-> 2 * k + 1,
            do |-> IF ClassOrder[k] = "unresolved_gaps" THEN "find" ELSE "create",
            class |-> ClassOrder[k], text |-> text, status |-> in.status] :
               text \in in.texts[ClassOrder[k]]} : k \in 1 .. 7})
  \cup {[rank |-> 17, do |-> "get", id |-> i] : i \in in.resolveIds}
  \cup (IF in.resolveTexts = {} THEN {}
        ELSE {[rank |-> 2, do |-> "match", texts |-> in.resolveTexts]})
  \cup {[rank |-> 21, do |-> "stamp", notes |-> TRUE]}

\* The calls of PersistNotes: the texts class by class, the resolutions by
\* identifier, the resolutions by text, the snapshot.
NotesWork(in) ==
  (UNION {{[rank |-> 2 * k + 1,
            do |-> IF ClassOrder[k] = "unresolved_gaps" THEN "find" ELSE "create",
            class |-> ClassOrder[k], text |-> text, status |-> in.status] :
               text \in in.texts[ClassOrder[k]]} : k \in 1 .. 7})
  \cup {[rank |-> 17, do |-> "get", id |-> i] : i \in in.resolveIds}
  \cup (IF in.resolveTexts = {} THEN {}
        ELSE {[rank |-> 19, do |-> "match", texts |-> in.resolveTexts]})
  \cup {[rank |-> 21, do |-> "stamp", notes |-> TRUE]}

PostNotes(c, in) ==
  /\ Post
  /\ Begin(c, [ns |-> in.ns, refs |-> {}, work |-> NotesWork(in)])

\* CreateSnapshot infers the record references when none are given.
PostSnapshot(c, in) ==
  /\ Post
  /\ Begin(c, [ns |-> in.ns, refs |-> in.refs,
               work |-> {[rank |-> 21, do |-> "stamp", notes |-> FALSE]} \cup
                        IF in.refs = {} THEN {[rank |-> 20, do |-> "collect"]} ELSE {}])

PostStatus(c, i, target) ==
  /\ Begin(c, [ns |-> [cycle |-> "", agent |-> ""], refs |-> {},
               work |-> {[rank |-> 1, do |-> "transition", id |-> i, target |-> target]}])
  /\ UNCHANGED posted

-----------------------------------------------------------------------------
\* Store calls.

IsNext(c, step) == step \in task[c].work /\ \A s \in task[c].work : step.rank <= s.rank

\* The call is made; the request goes on with what is left and what it adds.
GoesOn(t, left, refs) ==
  IF left = {} THEN Idle ELSE [t EXCEPT !.work = left, !.refs = @ \cup refs]

Proceed(c, step, added, refs) ==
  task' = [task EXCEPT ![c] = GoesOn(@, (@.work \ {step}) \cup added, refs)]

Store(rec) == recs' = Append(recs, rec)

\* createRecord; the reference to a snapshot is one too, but not of the refs.
Create(c, step) ==
  /\ step.do = "create"
  /\ Store([ns |-> task[c].ns, class |-> step.class, text |-> step.text,
            status |-> step.status, resolvedAt |-> step.status = "resolved"])
  /\ Proceed(c, step, {},
             IF step.class = "memory_snapshot_reference" THEN {} ELSE {Len(recs) + 1})
  /\ UNCHANGED <<snaps, clock>>

InScope(ns, other) ==
  /\ ns.cycle # "" => other.cycle = ns.cycle
  /\ ns.agent # "" => other.agent = ns.agent

OpenGaps(texts) ==
  {i \in DOMAIN recs : /\ recs[i].class = "unresolved_gaps" /\ recs[i].status = "open"
                       /\ recs[i].text \in texts}

First(S) == CHOOSE i \in S : \A j \in S : i <= j

PutOf(step, i, rec) == [rank |-> step.rank - 1, do |-> "put", id |-> i, rec |-> rec]

GapOf(step) == [rank |-> step.rank - 1, do |-> "create", class |-> step.class,
                text |-> step.text, status |-> "open"]

\* Mutants of Find: nothing is looked for; a resolved gap is found and opened.
FindNothing(c, step) ==
  /\ step.do = "find"
  /\ Proceed(c, step, {GapOf(step)}, {})
  /\ UNCHANGED <<recs, snaps, clock>>

FindReopens(c, step) ==
  /\ step.do = "find"
  /\ LET found == {i \in DOMAIN recs : /\ recs[i].class = step.class /\ recs[i].text = step.text
                                       /\ InScope(task[c].ns, recs[i].ns)}
     IN IF found # {}
        THEN Proceed(c, step,
                     {PutOf(step, First(found), [recs[First(found)] EXCEPT !.status = "open"])}, {})
        ELSE Proceed(c, step, {GapOf(step)}, {})
  /\ UNCHANGED <<recs, snaps, clock>>

\* findOpenByClassAndText: the first open gap with this text in scope is
\* written back with the new metadata; without one a gap is created.
Find(c, step) ==
  /\ step.do = "find"
  /\ LET found == {i \in OpenGaps({step.text}) : InScope(task[c].ns, recs[i].ns)}
     IN IF found # {}
        THEN Proceed(c, step, {PutOf(step, First(found), recs[First(found)])}, {})
        ELSE Proceed(c, step, {GapOf(step)}, {})
  /\ UNCHANGED <<recs, snaps, clock>>

\* UpdateScopedRecord: the record as it was read, with its changes.
Put(c, step) ==
  /\ step.do = "put"
  /\ recs' = [recs EXCEPT ![step.id] = step.rec]
  /\ Proceed(c, step, {}, {step.id})
  /\ UNCHANGED <<snaps, clock>>

\* Mutant of Resolved: the time of the resolution is not set.
ResolvedAtNoTime(rec) == [rec EXCEPT !.status = "resolved"]

Resolved(rec) == [rec EXCEPT !.status = "resolved", !.resolvedAt = TRUE]

\* Mutant of Get: the class of the record is not checked.
GetAnyClass(c, step) ==
  /\ step.do = "get"
  /\ LET i == step.id
     IN Proceed(c, step, IF i \in DOMAIN recs THEN {PutOf(step, i, Resolved(recs[i]))} ELSE {}, {})
  /\ UNCHANGED <<recs, snaps, clock>>

\* resolveByIDs: what is unknown or not actionable is passed over.
Get(c, step) ==
  /\ step.do = "get"
  /\ LET i == step.id
     IN \/ /\ i \notin DOMAIN recs
           /\ Proceed(c, step, {}, {})
        \/ /\ i \in DOMAIN recs /\ recs[i].status = "resolved"
           /\ Proceed(c, step, {}, {i})
        \/ /\ i \in DOMAIN recs /\ recs[i].status # "resolved"
           /\ Proceed(c, step, IF IsActionable(recs[i].class)
                               THEN {PutOf(step, i, Resolved(recs[i]))} ELSE {}, {})
  /\ UNCHANGED <<recs, snaps, clock>>

\* resolveGapsByText: every open gap of the run with one of the texts.
Match(c, step) ==
  /\ step.do = "match"
  /\ Proceed(c, step, {PutOf(step, i, Resolved(recs[i])) : i \in OpenGaps(step.texts)}, {})
  /\ UNCHANGED <<recs, snaps, clock>>

\* UpdateRecordStatus: the transition is checked on the record as it is read.
Transition(c, step) ==
  /\ step.do = "transition"
  /\ LET i == step.id
         allowed == /\ i \in DOMAIN recs
                    /\ IsActionable(recs[i].class)
                    /\ IsAllowedStatusTransition(recs[i].status, step.target)
         changed == [recs[i] EXCEPT !.status = step.target,
                                    !.resolvedAt = CASE step.target = "resolved" -> TRUE
                                                     [] step.target = "open" -> FALSE
                                                     [] OTHER -> @]
     IN Proceed(c, step, IF allowed THEN {PutOf(step, i, changed)} ELSE {}, {})
  /\ UNCHANGED <<recs, snaps, clock>>

-----------------------------------------------------------------------------
\* CreateSnapshot.

\* The records the criteria select: those of the cycle, or of the whole run.
Collect(c, step) ==
  /\ step.do = "collect"
  /\ Proceed(c, step, {}, {i \in DOMAIN recs : task[c].ns.cycle # "" =>
                                                 recs[i].ns.cycle = task[c].ns.cycle})
  /\ UNCHANGED <<recs, snaps, clock>>

\* Mutant of Stamp: notes that wrote one record make no snapshot.
StampMany(c, step) ==
  /\ step.do = "stamp"
  /\ IF step.notes /\ Cardinality(task[c].refs) <= 1
     THEN Proceed(c, step, {}, {}) /\ UNCHANGED clock
     ELSE /\ clock' = clock + 1
          /\ Proceed(c, step, {[rank |-> 21, do |-> "link", notes |-> step.notes,
                                stamp |-> clock + 1]}, {})
  /\ UNCHANGED <<recs, snaps>>

\* The snapshot gets its identifier and the time.  Notes that wrote and
\* resolved nothing make no snapshot.
Stamp(c, step) ==
  /\ step.do = "stamp"
  /\ IF step.notes /\ task[c].refs = {}
     THEN Proceed(c, step, {}, {}) /\ UNCHANGED clock
     ELSE /\ clock' = clock + 1
          /\ Proceed(c, step, {[rank |-> 21, do |-> "link", notes |-> step.notes,
                                stamp |-> clock + 1]}, {})
  /\ UNCHANGED <<recs, snaps>>

\* A snapshot's checksum is of its content, which includes its stamp: the
\* stamp stands for the checksum, and 0 for the missing one of the first.
ScopeStamps(ns) ==
  {snaps[k].stamp : k \in {j \in DOMAIN snaps : ns.cycle # "" => snaps[j].ns.cycle = ns.cycle}}

\* Mutant of LatestSnapshot: the first of the page.
OldestSnapshot(ns) ==
  IF ScopeStamps(ns) = {} THEN 0 ELSE CHOOSE s \in ScopeStamps(ns) : \A r \in ScopeStamps(ns) : s <= r

\* latestSnapshotForScope asks for one page, and pages start with the oldest.
LatestSnapshot(ns) ==
  LET page == {s \in ScopeStamps(ns) :
                 Cardinality({r \in ScopeStamps(ns) : r <= s}) <= MaxPageSize}
  IN IF page = {} THEN 0 ELSE CHOOSE s \in page : \A r \in page : r <= s

\* Mutant of Link: the reference is stored before the snapshot.
LinkAfterReference(c, step) ==
  /\ step.do = "link"
  /\ Proceed(c, step,
             {[rank |-> 21, do |-> "publish", notes |-> FALSE,
               snap |-> [ns |-> task[c].ns, refs |-> task[c].refs, stamp |-> step.stamp,
                         prev |-> LatestSnapshot(task[c].ns)]]} \cup
             (IF step.notes
              THEN {[rank |-> 20, do |-> "create", class |-> "memory_snapshot_reference",
                     text |-> step.stamp, status |-> "open"]} ELSE {}), {})
  /\ UNCHANGED <<recs, snaps, clock>>

Link(c, step) ==
  /\ step.do = "link"
  /\ Proceed(c, step,
             {[rank |-> 21, do |-> "publish", notes |-> step.notes,
               snap |-> [ns |-> task[c].ns, refs |-> task[c].refs, stamp |-> step.stamp,
                         prev |-> LatestSnapshot(task[c].ns)]]}, {})
  /\ UNCHANGED <<recs, snaps, clock>>

\* CreateScopedSnapshot; PersistNotes then stores a record that refers to it.
Publish(c, step) ==
  /\ step.do = "publish"
  /\ snaps' = Append(snaps, step.snap)
  /\ Proceed(c, step,
             IF step.notes
             THEN {[rank |-> 22, do |-> "create", class |-> "memory_snapshot_reference",
                    text |-> step.snap.stamp, status |-> "open"]} ELSE {}, {})
  /\ UNCHANGED <<recs, clock>>

-----------------------------------------------------------------------------

\* A store call fails: the request returns the error at once.
Fail(c) ==
  /\ task[c] # Idle
  /\ faults < MaxFaults
  /\ faults' = faults + 1
  /\ task' = [task EXCEPT ![c] = Idle]
  /\ UNCHANGED <<recs, snaps, clock, posted, overlapped>>

Call(c) ==
  /\ \E step \in task[c].work :
       /\ IsNext(c, step)
       /\ \/ Create(c, step) \/ Find(c, step) \/ Put(c, step) \/ Get(c, step)
          \/ Match(c, step) \/ Transition(c, step) \/ Collect(c, step)
          \/ Stamp(c, step) \/ Link(c, step) \/ Publish(c, step)
  /\ UNCHANGED <<posted, faults, overlapped>>

Step == \E c \in Clients :
  \/ \E in \in NotesInputs : PostNotes(c, in)
  \/ \E in \in SnapshotInputs : PostSnapshot(c, in)
  \/ \E i \in 1 .. MaxRecs : \E target \in Targets : PostStatus(c, i, target)
  \/ Call(c)
  \/ Fail(c)

Serial == ~overlapped /\ faults = 0

Settle ==
  settled' = IF ~Serial' THEN [recs |-> <<>>, snaps |-> <<>>]
             ELSE IF \A c \in Clients : task'[c] = Idle THEN [recs |-> recs', snaps |-> snaps']
             ELSE settled

Next == Step /\ Settle

Spec == Init /\ [][Next]_vars

-----------------------------------------------------------------------------
\* Properties.

RecordType == [ns : Namespaces, class : Classes, text : Texts \cup Nat, status : Statuses,
               resolvedAt : BOOLEAN]
SnapshotType == [ns : Namespaces, refs : SUBSET Nat, stamp : Nat \ {0}, prev : Nat]

\* Every stored record validates: a resolved one knows when it was resolved
\* (internal/domain/scopedmemory/models.go:232).
TypeOK ==
  /\ recs \in Seq(RecordType)
  /\ \A i \in DOMAIN recs : recs[i].status = "resolved" => recs[i].resolvedAt
  /\ snaps \in Seq(SnapshotType)
  /\ clock \in Nat /\ posted \in 0 .. MaxPosts /\ faults \in 0 .. MaxFaults
  /\ overlapped \in BOOLEAN

\* What a record says never changes, whatever stale copy of it is written
\* back, and a record that is not actionable does not change at all.
OnlyActionableStatusChanges ==
  [][\A i \in DOMAIN recs :
       /\ \A field \in {"ns", "class", "text"} : recs'[i][field] = recs[i][field]
       /\ IsActionable(recs[i].class) \/ recs'[i] = recs[i]]_vars

\* While requests come one at a time, a gap reported again in its namespace
\* is the same open record, even when a request failed half way.  (Two
\* overlapping requests may both look for it before either creates it.)
SerialGapsAreUnique ==
  ~overlapped =>
    \A i, j \in OpenGaps(Texts) :
      recs[i].ns = recs[j].ns /\ recs[i].text = recs[j].text => i = j

\* While requests come one at a time, no record is opened again.  (An
\* overlapping upsert writes back the open copy that it read.)
SerialNeverReopens ==
  [][~overlapped' => \A i \in DOMAIN recs : recs'[i].status = "open" => recs[i].status = "open"]_vars

\* When every request is done and none failed, each note is among the records
\* of some snapshot, however the requests overlapped.
EveryNoteIsSnapshotted ==
  faults = 0 /\ (\A c \in Clients : task[c] = Idle) =>
    \A i \in DOMAIN recs : \/ recs[i].class = "memory_snapshot_reference"
                           \/ \E k \in DOMAIN snaps : i \in snaps[k].refs

\* A record that refers to a snapshot never precedes it, and there is one
\* for a snapshot at most.
ReferencesAreSound ==
  LET references == {i \in DOMAIN recs : recs[i].class = "memory_snapshot_reference"}
  IN /\ \A i \in references : \E k \in DOMAIN snaps : snaps[k].stamp = recs[i].text
     /\ \A i, j \in references : recs[i].text = recs[j].text => i = j

\* A new snapshot is linked to the one stored last in its scope, and only the
\* first of a scope is linked to none.
LinksToLast ==
  \A k \in DOMAIN snaps' \ DOMAIN snaps :
    LET ns    == snaps'[k].ns
        scope == {j \in DOMAIN snaps : ns.cycle # "" => snaps[j].ns.cycle = ns.cycle}
    IN snaps'[k].prev = IF scope = {} THEN 0
                        ELSE snaps[CHOOSE j \in scope : \A l \in scope : l <= j].stamp

\* While requests come one at a time and a scope fits one page, the snapshots
\* of a scope form one chain.
SerialSnapshotsChain == [][~overlapped' /\ Len(snaps) <= MaxPageSize => LinksToLast]_vars

\* A request makes its calls one by one, and what it finds depends on what it
\* has just written.  As long as requests come one at a time and none fails,
\* each has at its end the whole effect that NotesLedger states.
Ledger == INSTANCE NotesLedger WITH
  recs <- settled.recs, snaps <- settled.snaps, open <- Serial

ImplementsLedger == Ledger!Spec

\* docs/memory_model.md:76: a snapshot has the checksum of the prior snapshot
\* in its scope, for an auditable chain.
SnapshotsChain == [][LinksToLast]_vars

\* The status of a record moves as the table of transitions allows
\* (internal/services/scopedmemory/service_test.go:583: archived does not
\* become resolved).
StatusFollowsTable ==
  [][\A i \in DOMAIN recs : IsAllowedStatusTransition(recs[i].status, recs'[i].status)]_vars

=============================================================================
