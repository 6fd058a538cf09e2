---------------------------- MODULE ScopedReads -----------------------------
(***************************************************************************)
(* Reading scoped memory (internal/services/scopedmemory): listings that   *)
(* are made page by page, by offset, while others write; the compact       *)
(* context, the export of a run or of a snapshot, the snapshot of a whole  *)
(* scope, and the look-up by status that precedes a resolution, which are  *)
(* made of such listings.                                                  *)
(*                                                                         *)
(* The writers are those of ScopedMemory, reduced to the stores they make: *)
(* any record created, any snapshot created, any status written.  A record *)
(* gets its time before it is stored, so that it may be stored after a     *)
(* younger one; a listing is sorted by that time.                          *)
(*                                                                         *)
(* Records and snapshots are numbered by the time they are given, and are  *)
(* in a listing from the moment they are stored.                           *)
(***************************************************************************)
EXTENDS ScopedContext

CONSTANTS
  Notes,         \* the records that are created
  Targets,       \* the statuses that are written
  SnapshotCycles, \* the cycles whose snapshots clients create
  Requests,      \* the reads that are requested
  MaxPageSize,   \* the page of a listing (500 in the code)
  MaxPerClass,   \* texts of one class in a context (5)
  MaxSummaries,  \* prior cycle summaries in a context (7)
  MaxOpen,       \* bound on the writers between the time and the store
  MaxNotes, MaxSnaps, MaxWrites, MaxReads  \* bounds on what is requested

ReadKinds == {"context", "export", "bundle", "checkpoint", "matching"}

ASSUME ReadsBoundAssumption ==
  /\ \A n \in {MaxPageSize, MaxPerClass, MaxSummaries} : n \in Nat \ {0}
  /\ \A n \in {MaxOpen, MaxNotes, MaxSnaps, MaxWrites, MaxReads} : n \in Nat
ASSUME NotesAssumption ==
  \A n \in Notes : n.ns \in Namespaces /\ n.class \in Classes /\ n.status \in Statuses
ASSUME RequestsAssumption ==
  /\ Requests \subseteq [kind : ReadKinds, ns : Namespaces] /\ Targets \subseteq Statuses
  /\ SnapshotCycles \subseteq Cycles \cup {""}

VARIABLES
  recs,    \* scoped records, in the order of their times
  snaps,   \* scoped snapshots, in the order of their times
  read,    \* the read in progress
  writes,  \* statuses written so far (bounds the model)
  reads    \* reads requested so far (bounds the model)

vars == <<recs, snaps, read, writes, reads>>

Idle == [at |-> "idle"]

Init ==
  /\ recs   = <<>>
  /\ snaps  = <<>>
  /\ read   = Idle
  /\ writes = 0
  /\ reads  = 0

-----------------------------------------------------------------------------

\* The clock in seconds, minutes or days: it moves with every write.
Clock == Len(recs) + writes

\* Listings.

StoredRecs  == {i \in DOMAIN recs : recs[i].stored}
StoredSnaps == {k \in DOMAIN snaps : snaps[k].stored}

Query(of, class, cycle, status) ==
  [of |-> of, class |-> class, cycle |-> cycle, status |-> status]

\* Mutant of Selected: what is not stored yet is selected too.
SelectedUnstored(q, rs, ss) ==
  IF q.of = "snapshots" THEN DOMAIN ss
  ELSE {i \in DOMAIN rs : q.class # "" => rs[i].class = q.class}

\* What a query selects, were rs the records and ss the snapshots.
Selected(q, rs, ss) ==
  IF q.of = "snapshots"
  THEN {k \in DOMAIN ss : ss[k].stored /\ (q.cycle # "" => ss[k].cycle = q.cycle)}
  ELSE {i \in DOMAIN rs : /\ rs[i].stored
                          /\ q.class # ""  => rs[i].class = q.class
                          /\ q.cycle # ""  => rs[i].ns.cycle = q.cycle
                          /\ q.status # "" => rs[i].status = q.status}

\* Sorted by time, oldest first.
Rank(i, ids) == Cardinality({j \in ids : j <= i})
Sorted(ids)  == [k \in 1 .. Cardinality(ids) |-> CHOOSE i \in ids : Rank(i, ids) = k]

\* A copy of what is listed, as it is now.
Copy(q, i) ==
  IF q.of = "snapshots" THEN [id |-> i]
  ELSE [id |-> i, ns |-> recs[i].ns, text |-> recs[i].text,
        status |-> recs[i].status, updated |-> recs[i].updated]

\* Mutant of HasMore: a listing is its first page.
NoMore(end, total) == FALSE

HasMore(end, total) == end < total

\* Mutants of NextOffset: past the next record; only one record on.
OffsetTooFar(offset)   == offset + MaxPageSize + 1
OffsetTooShort(offset) == offset + 1

NextOffset(offset) == offset + MaxPageSize

\* The first page of a listing starts it; steady, leaves and entries are
\* history: what it has selected for as long as it lasts, how often a record
\* has stopped or begun to be selected since.
Started(r) ==
  IF r.at # "first" THEN r
  ELSE [r EXCEPT !.at = "page", !.offset = 0, !.seen = <<>>,
                 !.steady = Selected(Head(r.queries), recs, snaps), !.leaves = 0, !.entries = 0]

\* The history of the read in progress when the store becomes rs and ss.
Watch(rs, ss) ==
  \E was \in {IF read.at = "page" THEN Selected(Head(read.queries), recs, snaps) ELSE {}} :
  \E is  \in {IF read.at = "page" THEN Selected(Head(read.queries), rs, ss) ELSE {}} :
    read' = IF read = Idle THEN read
            ELSE [read EXCEPT !.still   = {i \in @ : rs[i] = recs[i]},
                              !.steady  = @ \cap is,
                              !.leaves  = @ + Cardinality(was \ is),
                              !.entries = @ + Cardinality(is \ was)]

-----------------------------------------------------------------------------
\* Requests that read.

ContextOrder == <<"prior_cycle_summaries", "carry_forward_risks", "unresolved_gaps",
                  "backlog_items", "reviewer_notes">>

\* Mutant of Queries: only open records are exported.
QueriesOfOpen(kind, ns) ==
  CASE kind = "context" -> [k \in 1 .. 5 |-> Query("records", ContextOrder[k], "", "")]
    [] kind = "export" -> <<Query("records", "", ns.cycle, "open"),
                            Query("snapshots", "", ns.cycle, "")>>
    [] kind \in {"checkpoint", "bundle"} -> <<Query("records", "", ns.cycle, "")>>
    [] kind = "matching" -> <<Query("records", "unresolved_gaps", "", "open")>>

\* The listings of a request, in their order.  A context reads the whole run
\* and leaves the namespace to the order of its texts.
Queries(kind, ns) ==
  CASE kind = "context" -> [k \in 1 .. 5 |-> Query("records", ContextOrder[k], "", "")]
    [] kind = "export" -> <<Query("records", "", ns.cycle, ""),
                            Query("snapshots", "", ns.cycle, "")>>
    [] kind \in {"checkpoint", "bundle"} -> <<Query("records", "", ns.cycle, "")>>
    [] kind = "matching" -> <<Query("records", "unresolved_gaps", "", "open")>>

\* still and saved are history: the records, and for an export the snapshots,
\* stored when the request began; still loses those that are written.
NewRead(kind, ns) ==
  [at |-> "first", kind |-> kind, ns |-> ns, snap |-> 0, todo |-> {}, queries |-> Queries(kind, ns),
   offset |-> 0, seen |-> <<>>, parts |-> <<>>, steady |-> {}, leaves |-> 0, entries |-> 0,
   still |-> IF kind = "context" THEN StoredRecs ELSE {},
   saved |-> IF kind = "export" THEN StoredSnaps ELSE {}]

Request(in) ==
  /\ read = Idle
  /\ reads < MaxReads
  /\ reads' = reads + 1
  /\ \/ in.kind # "bundle" /\ read' = NewRead(in.kind, in.ns)
     \/ /\ in.kind = "bundle"
        /\ \E k \in StoredSnaps :
             read' = [NewRead("bundle", [in.ns EXCEPT !.cycle = snaps[k].cycle])
                        EXCEPT !.at = "fetch", !.snap = k, !.todo = snaps[k].refs]
  /\ UNCHANGED <<recs, snaps, writes>>

SeenBy(r) == {r.seen[k].id : k \in DOMAIN r.seen}

ClassCap(class) == IF class = "prior_cycle_summaries" THEN MaxSummaries ELSE MaxPerClass

\* What a request keeps of a listing: the texts of a context, or all of it.
PartOf(r) ==
  IF r.kind # "context" THEN SeenBy(r)
  ELSE LET class == Head(r.queries).class
       IN CompactTexts({r.seen[k] : k \in DOMAIN r.seen}, r.ns, ClassCap(class),
                       class = "prior_cycle_summaries")

\* Mutant of EndListing: the listing starts again.
RestartListing(r) == read' = [r EXCEPT !.at = "first"]

\* The next listing, or the end.  A checkpoint is CreateSnapshot without
\* record references: it refers to all it has listed.
EndListing(r) ==
  \E part \in {PartOf(r)} :
    read' = [r EXCEPT !.parts = Append(@, part), !.queries = Tail(@),
                      !.at = IF Len(r.queries) > 1 THEN "first"
                             ELSE IF r.kind = "checkpoint" THEN "stamp" ELSE "done"]

\* ListScopedRecords or ListScopedSnapshots: one page.
Page ==
  /\ read.at \in {"first", "page"}
  /\ \E r \in {Started(read)} :
     \E hits \in {Sorted(Selected(Head(r.queries), recs, snaps))} :
       LET end  == Least(r.offset + MaxPageSize, Len(hits))
           page == SubSeq(hits, r.offset + 1, end)
           seen == r.seen \o [k \in DOMAIN page |-> Copy(Head(r.queries), page[k])]
       IN IF HasMore(end, Len(hits))
          THEN read' = [r EXCEPT !.seen = seen, !.offset = NextOffset(@)]
          ELSE \E all \in {[r EXCEPT !.seen = seen]} : EndListing(all)
  /\ UNCHANGED <<recs, snaps, writes, reads>>

\* ExportSnapshot gets the records one by one, passes over what is not there,
\* and without any lists what the criteria of the snapshot select.
Fetch ==
  /\ read.at = "fetch"
  /\ \/ \E i \in read.todo :
          /\ \A j \in read.todo : i <= j
          /\ read' = [read EXCEPT !.todo = @ \ {i},
                                  !.seen = IF i \in StoredRecs THEN Append(@, Copy(Head(read.queries), i))
                                           ELSE @]
     \/ /\ read.todo = {}
        /\ IF read.seen = <<>> THEN read' = [read EXCEPT !.at = "first"] ELSE EndListing(read)
  /\ UNCHANGED <<recs, snaps, writes, reads>>

Snapshot(cycle, refs) == [cycle |-> cycle, refs |-> refs, stored |-> FALSE]

StampCheckpoint ==
  /\ read.at = "stamp"
  /\ snaps' = Append(snaps, Snapshot(read.ns.cycle, read.parts[1]))
  /\ read'  = [read EXCEPT !.at = "store", !.snap = Len(snaps) + 1]
  /\ UNCHANGED <<recs, writes, reads>>

StoreCheckpoint ==
  /\ read.at = "store"
  /\ snaps' = [snaps EXCEPT ![read.snap].stored = TRUE]
  /\ read'  = [read EXCEPT !.at = "done"]
  /\ UNCHANGED <<recs, writes, reads>>

Answer ==
  /\ read.at = "done"
  /\ read' = Idle
  /\ UNCHANGED <<recs, snaps, writes, reads>>

Read ==
  \/ Page \/ Fetch \/ StampCheckpoint \/ StoreCheckpoint \/ Answer

-----------------------------------------------------------------------------
\* Writers.

\* createRecord takes the time and the identifier, and then stores.
StampRecord(n) ==
  /\ Len(recs) < MaxNotes /\ Cardinality(DOMAIN recs \ StoredRecs) < MaxOpen
  /\ recs' = Append(recs, [ns |-> n.ns, class |-> n.class, text |-> n.text,
                           status |-> n.status, updated |-> Clock + 1, stored |-> FALSE])
  /\ UNCHANGED <<snaps, read, writes, reads>>

StoreRecord(i) ==
  /\ ~recs[i].stored
  /\ recs' = [recs EXCEPT ![i].stored = TRUE]
  /\ Watch(recs', snaps)
  /\ UNCHANGED <<snaps, writes, reads>>

\* CreateSnapshot with a reference, as notes make one for their records; a
\* client may also refer to what does not exist, written 0.  (A bound: while a
\* read that lists records only is in progress, no snapshot is begun.)
StampSnapshot(cycle, i) ==
  /\ Len(snaps) < MaxSnaps
  /\ read # Idle => read.kind \in {"export", "bundle", "checkpoint"}
  /\ snaps' = Append(snaps, Snapshot(cycle, {i}))
  /\ UNCHANGED <<recs, read, writes, reads>>

StoreSnapshot(k) ==
  /\ ~snaps[k].stored /\ (read.at = "store" => k # read.snap)
  /\ snaps' = [snaps EXCEPT ![k].stored = TRUE]
  /\ Watch(recs, snaps')
  /\ UNCHANGED <<recs, writes, reads>>

\* UpdateScopedRecord: any status, since a stale copy may be written back; the
\* same one again when a gap is reported again.
WriteStatus(i, status) ==
  /\ writes < MaxWrites
  /\ IsActionable(recs[i].class)
  /\ recs'   = [recs EXCEPT ![i].status = status, ![i].updated = Clock + 1]
  /\ writes' = writes + 1
  /\ Watch(recs', snaps)
  /\ UNCHANGED <<snaps, reads>>

Write ==
  \/ \E n \in Notes : StampRecord(n)
  \/ \E i \in DOMAIN recs : StoreRecord(i)
  \/ \E cycle \in SnapshotCycles, i \in StoredRecs \cup {0} : StampSnapshot(cycle, i)
  \/ \E k \in DOMAIN snaps : StoreSnapshot(k)
  \/ \E i \in StoredRecs : \E status \in Targets : WriteStatus(i, status)

Next == Write \/ Read \/ \E in \in Requests : Request(in)

\* The goroutine of a read runs on; nothing forces anybody to write.
Spec == Init /\ [][Next]_vars /\ WF_vars(Read)

-----------------------------------------------------------------------------
\* Properties.

\* The last listing is complete, or there was none yet.
Listed == read.at \in {"first", "stamp", "store", "done"}
Seen   == SeenBy(read)

Done(kind) == read.at = "done" /\ read.kind = kind

\* Types: what is listed, referred to or shown exists.
TypeOK ==
  /\ \A i \in DOMAIN recs : recs[i].ns \in Namespaces /\ recs[i].updated \in 1 .. Clock
  /\ \A k \in DOMAIN snaps : snaps[k].refs \subseteq StoredRecs \cup {0}
  /\ read # Idle => \A k \in DOMAIN read.seen : read.seen[k].id > 0

\* A page that is asked for by offset skips a record when one before it has
\* left the selection: a listing skips no more of what it selected all the
\* time than records left.  So one without a status, which none can leave,
\* skips nothing (scopedmemory/service.go:566).
SkipsNeedDepartures ==
  Listed => Cardinality(read.steady \ Seen) <= read.leaves

\* A listing repeats a record only when one with an earlier time was stored,
\* or given the status, in the meantime; one repetition for each.
RepeatsNeedArrivals ==
  Listed => Len(read.seen) - Cardinality(Seen) <= read.entries

AsCopy(i) == [id |-> i, ns |-> recs[i].ns, text |-> recs[i].text,
              status |-> recs[i].status, updated |-> recs[i].updated]

OfClass(p) == {i \in DOMAIN recs : recs[i].class = ContextOrder[p]}

\* A context is put together from five listings while others write.  Still a
\* record that does not change meanwhile is shown, unless its class is full;
ContextShowsWhatStays ==
  Done("context") => \A p \in 1 .. 5 :
    \A i \in read.still \cap OfClass(p) :
      IsShown(AsCopy(i), read.ns, p = 1) =>
        \/ recs[i].text \in Range(read.parts[p])
        \/ Len(read.parts[p]) = ClassCap(ContextOrder[p])

\* what it shows was not archived all the time (docs/api.md:248);
ContextHidesArchived ==
  Done("context") => \A p \in 1 .. 5 :
    \A t \in Range(read.parts[p]) :
      \E i \in OfClass(p) : recs[i].text = t /\ ~(i \in read.still /\ recs[i].status = "archived")

\* and nothing comes before an open record that has not changed but what is of
\* a nearer scope, or of the same one and open, or has changed meanwhile.
ContextPutsOpenFirst ==
  Done("context") => \A p \in 1 .. 5 :
    \A x, y \in DOMAIN read.parts[p] : x < y =>
      \A i \in read.still \cap OfClass(p) :
        recs[i].text = read.parts[p][y] /\ recs[i].status = "open" /\ IsShown(AsCopy(i), read.ns, p = 1) =>
          \E j \in OfClass(p) :
            /\ recs[j].text = read.parts[p][x]
            /\ LET near == ScopePriority(recs[j].ns, read.ns)
                   far  == ScopePriority(recs[i].ns, read.ns)
               IN near < far \/ (near = far /\ (j \in read.still => recs[j].status = "open"))

\* The export of a run lists the records and then the snapshots: it holds the
\* records that those of its snapshots refer to which were stored when it
\* began.  The export of a snapshot holds just what the snapshot refers to, of
\* what there is, unless that is nothing.
ExportIsClosed ==
  /\ Done("export") => \A k \in read.saved \cap read.parts[2] :
       {i \in snaps[k].refs \ {0} : read.ns.cycle # "" => recs[i].ns.cycle = read.ns.cycle}
         \subseteq read.parts[1]
  /\ Done("bundle") =>
       LET known == snaps[read.snap].refs \ {0}
       IN known # {} => read.parts[1] = known

\* Every read ends: each page brings it nearer to the end of the listing.
EveryReadEnds == read # Idle ~> read = Idle

=============================================================================
