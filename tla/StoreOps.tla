------------------------------ MODULE StoreOps ------------------------------
(***************************************************************************)
(* The interface of the file-backed store (internal/platform/store): what  *)
(* a caller may ask of it and what an indivisible execution of one request *)
(* answers and leaves behind.  One store keeps three directories, each     *)
(* with one file per identifier: memory records, scoped records and scoped *)
(* snapshots.  The content of a file is opaque here.                       *)
(***************************************************************************)
EXTENDS Naturals

CONSTANTS
  Clients,     \* goroutines that serve HTTP requests
  Dirs,        \* the directories present in an instance
  Ids,         \* identifiers
  Values,      \* contents that pass Validate
  Malformed,   \* contents that Validate rejects
  Absent,      \* no file under this path
  Torn         \* a file truncated and not (completely) written again

AllDirs == {"records", "scoped-records", "scoped-snapshots"}

ASSUME DirsAssumption   == Dirs \subseteq AllDirs
ASSUME ValuesAssumption == /\ Malformed \cap Values = {}
                           /\ Absent \notin Values \cup Malformed
                           /\ Torn \notin Values \cup Malformed \cup {Absent}

-----------------------------------------------------------------------------

Paths == Dirs \X Ids

\* Snapshots are written once, and only memory records can be deleted.
Supports(dir, op) ==
  CASE dir = "records"          -> op \in {"create", "update", "delete"}
    [] dir = "scoped-records"   -> op \in {"create", "update"}
    [] dir = "scoped-snapshots" -> op \in {"create"}

Requests ==
  {r \in [op : {"create", "update"}, path : Paths, val : Values \cup Malformed] :
     Supports(r.path[1], r.op)}
  \cup {r \in [op : {"delete"}, path : Paths] : Supports(r.path[1], r.op)}
  \cup [op : {"get"}, path : Paths]
  \cup [op : {"scan"}, dir : Dirs]

IsRead(r) == r.op \in {"get", "scan"}

\* Create and Update validate the record before they take the lock.
IsMalformed(r) == r.op \in {"create", "update"} /\ r.val \in Malformed

-----------------------------------------------------------------------------

Ok(val)   == [tag |-> "ok",  val |-> val]
Error(tag) == [tag |-> tag, val |-> Absent]

NoAnswer == Error("none")

Nothing == [p \in Paths |-> Absent]

\* What List, Count, ListAll, FindByIdempotency and Summary are computed from.
Listing(store, dir) ==
  [p \in Paths |-> IF p[1] = dir THEN store[p] ELSE Absent]

Answer(store, r) ==
  CASE IsMalformed(r) -> Error("invalid")
    [] r.op = "create" /\ ~IsMalformed(r) ->
         IF store[r.path] = Absent THEN Ok(r.val) ELSE Error("exists")
    [] r.op = "update" /\ ~IsMalformed(r) ->
         IF store[r.path] = Absent THEN Error("not found") ELSE Ok(r.val)
    [] r.op = "delete" ->
         IF store[r.path] = Absent THEN Error("not found") ELSE Ok(Absent)
    [] r.op = "get" ->
         IF store[r.path] = Absent THEN Error("not found") ELSE Ok(store[r.path])
    [] r.op = "scan" -> Ok(Listing(store, r.dir))

Effect(store, r) ==
  CASE IsRead(r) \/ Answer(store, r).tag # "ok" -> store
    [] r.op = "delete" /\ Answer(store, r).tag = "ok" ->
         [store EXCEPT ![r.path] = Absent]
    [] r.op \in {"create", "update"} /\ Answer(store, r).tag = "ok" ->
         [store EXCEPT ![r.path] = r.val]

=============================================================================
