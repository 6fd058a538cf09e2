----------------------------- MODULE FileStore ------------------------------
(***************************************************************************)
(* FileStore: the store as the code builds it, one JSON file per record    *)
(* under one sync.RWMutex.  A write validates, takes the lock, stats the   *)
(* path, truncates the file and writes it; a listing reads the directory   *)
(* and then one file after another.  The three directories share the       *)
(* mutex.  Between O_TRUNC and the end of the write the file is Torn: it   *)
(* does not decode.                                                        *)
(*                                                                         *)
(* The mutex is Go's: a writer announces itself (owner), which makes later *)
(* readers park; it proceeds when the active readers have left; when it    *)
(* unlocks, every parked reader enters before the next writer can.         *)
(*                                                                         *)
(* Next has no failures.  FaultyNext adds I/O errors and crashes of the    *)
(* process, followed by a restart on the same directories: at most         *)
(* MaxFaults of them, of the kinds in Failures.  The history variable      *)
(* damaged records which writes they have cut; no action reads it.         *)
(***************************************************************************)
EXTENDS StoreOps

CONSTANTS
  NoRequest,    \* the request of an idle client
  NoOne,        \* no writer holds or waits for the lock
  Failures,     \* the kinds of failure that may happen
  MaxFaults     \* bound on the failures of a behaviour

ASSUME ClientsAssumption == NoOne \notin Clients
ASSUME FailuresAssumption == Failures \subseteq {"io", "crash"}

VARIABLES
  files,    \* [Paths -> Values \cup {Absent, Torn}]: the directories
  owner,    \* the writer that has announced itself, or NoOne
  active,   \* the readers that hold the read lock
  parked,   \* the readers waiting for the announced writer
  pc,       \* where each client is in its call
  req,      \* what it asked for
  todo,     \* the files a listing has still to read
  got,      \* the files it has read
  out,      \* the answer it is about to return
  faults,   \* failures so far
  damaged   \* the paths whose last write a failure has cut

lock == <<owner, active, parked>>
vars == <<files, lock, pc, req, todo, got, out, faults, damaged>>

Init ==
  /\ files  = Nothing
  /\ owner  = NoOne
  /\ active = {}
  /\ parked = {}
  /\ pc     = [c \in Clients |-> "idle"]
  /\ req    = [c \in Clients |-> NoRequest]
  /\ todo   = [c \in Clients |-> {}]
  /\ got    = [c \in Clients |-> Nothing]
  /\ out    = [c \in Clients |-> NoAnswer]
  /\ faults = 0
  /\ damaged = {}

-----------------------------------------------------------------------------
\* A call begins, and is validated before any lock is taken.

Goto(c, label) == pc' = [pc EXCEPT ![c] = label]

Call(c, r) ==
  /\ pc[c] = "idle"
  /\ req' = [req EXCEPT ![c] = r]
  /\ Goto(c, "check")
  /\ UNCHANGED <<files, lock, todo, got, out, faults, damaged>>

Reject(c) ==
  /\ pc[c] = "check"
  /\ IsMalformed(req[c])
  /\ out' = [out EXCEPT ![c] = Error("invalid")]
  /\ Goto(c, "reply")
  /\ UNCHANGED <<files, lock, req, todo, got, faults, damaged>>

\* Mutant of Accept: the record is not validated.
AcceptUnvalidated(c) ==
  /\ pc[c] = "check"
  /\ Goto(c, IF IsRead(req[c]) THEN "rlock" ELSE "lock")
  /\ UNCHANGED <<files, lock, req, todo, got, out, faults, damaged>>

Accept(c) ==
  /\ pc[c] = "check"
  /\ ~IsMalformed(req[c])
  /\ Goto(c, IF IsRead(req[c]) THEN "rlock" ELSE "lock")
  /\ UNCHANGED <<files, lock, req, todo, got, out, faults, damaged>>

\* The call returns and the client forgets about it.
Forget(c) ==
  /\ req'  = [req EXCEPT ![c] = NoRequest]
  /\ todo' = [todo EXCEPT ![c] = {}]
  /\ got'  = [got EXCEPT ![c] = Nothing]
  /\ out'  = [out EXCEPT ![c] = NoAnswer]

Reply(c) ==
  /\ pc[c] = "reply"
  /\ Goto(c, "idle")
  /\ Forget(c)
  /\ UNCHANGED <<files, lock, faults, damaged>>

-----------------------------------------------------------------------------
\* Readers: Get, and everything that is computed from loadAll.

\* Mutant of RLock: a reader does not wait for the writer.
RLockUnguarded(c) ==
  /\ pc[c] = "rlock"
  /\ active' = active \cup {c}
  /\ Goto(c, "read")
  /\ UNCHANGED <<files, owner, parked, req, todo, got, out, faults, damaged>>

RLock(c) ==
  /\ pc[c] = "rlock"
  /\ \/ /\ owner = NoOne
        /\ active' = active \cup {c}
        /\ Goto(c, "read")
        /\ UNCHANGED parked
     \/ /\ owner # NoOne
        /\ parked' = parked \cup {c}
        /\ Goto(c, "parked")
        /\ UNCHANGED active
  /\ UNCHANGED <<files, owner, req, todo, got, out, faults, damaged>>

ReadFile(c) ==
  /\ pc[c] = "read"
  /\ req[c].op = "get"
  /\ out' = [out EXCEPT ![c] =
               CASE files[req[c].path] = Absent -> Error("not found")
                 [] files[req[c].path] = Torn   -> Error("decode")
                 [] files[req[c].path] \in Values -> Ok(files[req[c].path])]
  /\ Goto(c, "runlock")
  /\ UNCHANGED <<files, lock, req, todo, got, faults, damaged>>

ReadDir(c) ==
  /\ pc[c] = "read"
  /\ req[c].op = "scan"
  /\ todo' = [todo EXCEPT ![c] = {p \in Paths : p[1] = req[c].dir /\ files[p] # Absent}]
  /\ Goto(c, "scan")
  /\ UNCHANGED <<files, lock, req, got, out, faults, damaged>>

\* One undecodable file fails the whole listing.
ScanFile(c, p) ==
  /\ pc[c] = "scan"
  /\ p \in todo[c]
  /\ \/ /\ files[p] \in Values
        /\ todo' = [todo EXCEPT ![c] = @ \ {p}]
        /\ got'  = [got EXCEPT ![c][p] = files[p]]
        /\ UNCHANGED <<pc, out>>
     \/ /\ files[p] \notin Values
        /\ out' = [out EXCEPT ![c] = Error("decode")]
        /\ Goto(c, "runlock")
        /\ UNCHANGED <<todo, got>>
  /\ UNCHANGED <<files, lock, req, faults, damaged>>

EndScan(c) ==
  /\ pc[c] = "scan"
  /\ todo[c] = {}
  /\ out' = [out EXCEPT ![c] = Ok(got[c])]
  /\ Goto(c, "runlock")
  /\ UNCHANGED <<files, lock, req, todo, got, faults, damaged>>

RUnlock(c) ==
  /\ pc[c] = "runlock"
  /\ active' = active \ {c}
  /\ Goto(c, "idle")
  /\ Forget(c)
  /\ UNCHANGED <<files, owner, parked, faults, damaged>>

-----------------------------------------------------------------------------
\* Writers: Create, Update and Delete, of each directory that has them.

\* Mutant of Lock: a writer does not wait for another one.
LockUnguarded(c) ==
  /\ pc[c] = "lock"
  /\ owner' = c
  /\ Goto(c, "stat")
  /\ UNCHANGED <<files, active, parked, req, todo, got, out, faults, damaged>>

Lock(c) ==
  /\ pc[c] = "lock"
  /\ owner = NoOne
  /\ owner' = c
  /\ Goto(c, "stat")
  /\ UNCHANGED <<files, active, parked, req, todo, got, out, faults, damaged>>

\* The writer has the lock to itself: it looks for the file, and a Delete
\* removes it in the same system call.
Stat(c) ==
  /\ pc[c] = "stat"
  /\ active = {}
  /\ LET r == req[c]
         present == files[r.path] # Absent
     IN \/ /\ r.op = "create" /\ present
           /\ out' = [out EXCEPT ![c] = Error("exists")]
           /\ Goto(c, "unlock")
           /\ UNCHANGED <<files, damaged>>
        \/ /\ r.op \in {"update", "delete"} /\ ~present
           /\ out' = [out EXCEPT ![c] = Error("not found")]
           /\ Goto(c, "unlock")
           /\ UNCHANGED <<files, damaged>>
        \/ /\ r.op = "delete" /\ present
           /\ files' = [files EXCEPT ![r.path] = Absent]
           /\ damaged' = damaged \ {r.path}
           /\ out' = [out EXCEPT ![c] = Ok(Absent)]
           /\ Goto(c, "unlock")
        \/ /\ (r.op = "create" /\ ~present) \/ (r.op = "update" /\ present)
           /\ Goto(c, "open")
           /\ UNCHANGED <<files, damaged, out>>
  /\ UNCHANGED <<lock, req, todo, got, faults>>

\* os.WriteFile opens with O_CREATE|O_TRUNC and then writes the payload.
Truncate(c) ==
  /\ pc[c] = "open"
  /\ files' = [files EXCEPT ![req[c].path] = Torn]
  /\ Goto(c, "write")
  /\ UNCHANGED <<lock, req, todo, got, out, faults, damaged>>

Write(c) ==
  /\ pc[c] = "write"
  /\ files' = [files EXCEPT ![req[c].path] = req[c].val]
  /\ damaged' = damaged \ {req[c].path}
  /\ out' = [out EXCEPT ![c] = Ok(req[c].val)]
  /\ Goto(c, "unlock")
  /\ UNCHANGED <<lock, req, todo, got, faults>>

\* Mutant of Unlock: the parked readers are not woken.
UnlockWakesNobody(c) ==
  /\ pc[c] = "unlock"
  /\ owner' = NoOne
  /\ Goto(c, "idle")
  /\ Forget(c)
  /\ UNCHANGED <<files, active, parked, faults, damaged>>

\* The deferred Unlock: every parked reader enters.
Unlock(c) ==
  /\ pc[c] = "unlock"
  /\ owner'  = NoOne
  /\ active' = parked
  /\ parked' = {}
  /\ pc' = [d \in Clients |-> IF d = c THEN "idle"
                              ELSE IF d \in parked THEN "read" ELSE pc[d]]
  /\ Forget(c)
  /\ UNCHANGED <<files, faults, damaged>>

-----------------------------------------------------------------------------
\* Failures.

\* The paths that these clients have truncated and not written.
CutBy(clients) == {p \in Paths : \E c \in clients : pc[c] = "write" /\ req[c].path = p}

\* A file operation fails; the deferred unlock still runs.  A write that
\* fails after O_TRUNC leaves the file torn, and a Remove, Stat, ReadDir or
\* ReadFile that fails leaves everything as it was.
IOError(c) ==
  /\ "io" \in Failures /\ faults < MaxFaults
  /\ pc[c] \in {"read", "scan", "stat", "open", "write"}
  /\ pc[c] = "stat" => active = {}
  /\ faults' = faults + 1
  /\ damaged' = damaged \cup CutBy({c})
  /\ out' = [out EXCEPT ![c] = Error("io")]
  /\ Goto(c, IF pc[c] \in {"read", "scan"} THEN "runlock" ELSE "unlock")
  /\ UNCHANGED <<files, lock, req, todo, got>>

\* The process dies between two steps and is started again: NewFileStore
\* finds the directories as they were left.
Crash ==
  /\ "crash" \in Failures /\ faults < MaxFaults
  /\ faults' = faults + 1
  /\ damaged' = damaged \cup CutBy(Clients)
  /\ owner'  = NoOne
  /\ active' = {}
  /\ parked' = {}
  /\ pc'   = [c \in Clients |-> "idle"]
  /\ req'  = [c \in Clients |-> NoRequest]
  /\ todo' = [c \in Clients |-> {}]
  /\ got'  = [c \in Clients |-> Nothing]
  /\ out'  = [c \in Clients |-> NoAnswer]
  /\ UNCHANGED files

-----------------------------------------------------------------------------

ReadStep(c) ==
  \/ RLock(c) \/ ReadFile(c) \/ ReadDir(c) \/ EndScan(c) \/ RUnlock(c)
  \/ \E p \in Paths : ScanFile(c, p)

WriteStep(c) == Stat(c) \/ Truncate(c) \/ Write(c) \/ Unlock(c)

\* What a client does once its request is being served, except taking the
\* write lock, which needs strong fairness.
Progress(c) == Reject(c) \/ Accept(c) \/ Reply(c) \/ ReadStep(c) \/ WriteStep(c)

Next == \E c \in Clients :
  (\E r \in Requests : Call(c, r)) \/ Lock(c) \/ Progress(c)

FaultyNext == Next \/ Crash \/ \E c \in Clients : IOError(c)

\* The Go scheduler runs every runnable goroutine; sync.Mutex hands itself to
\* a waiter that has starved for a millisecond, so a writer that can take the
\* lock again and again is given it.
Fairness == \A c \in Clients : WF_vars(Progress(c)) /\ SF_vars(Lock(c))

Spec       == Init /\ [][Next]_vars
FairSpec   == Spec /\ Fairness
FaultySpec == Init /\ [][FaultyNext]_vars /\ Fairness

-----------------------------------------------------------------------------
\* Properties.

Labels == {"idle", "check", "reply", "rlock", "parked", "read", "scan",
           "runlock", "lock", "stat", "open", "write", "unlock"}

Answers == [tag : {"none", "ok", "invalid", "exists", "not found", "decode", "io"},
            val : Values \cup {Absent} \cup [Paths -> Values \cup {Absent}]]

\* The type of every variable: in particular nothing that Validate rejects is
\* ever stored or answered.
TypeOK ==
  /\ files  \in [Paths -> Values \cup {Absent, Torn}]
  /\ owner  \in Clients \cup {NoOne}
  /\ active \in SUBSET Clients
  /\ parked \in SUBSET Clients
  /\ pc     \in [Clients -> Labels]
  /\ req    \in [Clients -> Requests \cup {NoRequest}]
  /\ todo   \in [Clients -> SUBSET Paths]
  /\ got    \in [Clients -> [Paths -> Values \cup {Absent}]]
  /\ out    \in [Clients -> Answers]
  /\ faults \in Nat
  /\ damaged \in SUBSET Paths

\* How the lock, the clients' places and their requests hang together; these
\* four and the type invariant are the inductive invariant of the proofs.
Reading == {"read", "scan", "runlock"}
Writing == {"stat", "open", "write", "unlock"}

LockInv ==
  \A c \in Clients :
    /\ c \in active <=> pc[c] \in Reading
    /\ c \in parked <=> pc[c] = "parked"
    /\ owner = c <=> pc[c] \in Writing
    /\ c \in parked => owner # NoOne
    /\ pc[c] \in {"open", "write", "unlock"} => active = {}

RequestInv ==
  \A c \in Clients :
    LET r == req[c]
    IN /\ pc[c] # "idle" => r \in Requests
       /\ pc[c] = "reply" => IsMalformed(r)
       /\ pc[c] \in Reading \cup {"rlock", "parked"} => IsRead(r)
       /\ pc[c] \in Writing \cup {"lock"} => ~IsRead(r) /\ ~IsMalformed(r)
       /\ pc[c] = "scan" => r.op = "scan"
       /\ pc[c] \in {"open", "write"} => r.op \in {"create", "update"}
       /\ pc[c] = "open" => (files[r.path] = Absent <=> r.op = "create")
       /\ pc[c] = "write" => files[r.path] = Torn

\* What a listing has read and what is left of it is its directory.
ScanInv ==
  \A c \in Clients :
    /\ pc[c] \notin {"scan", "runlock"} => got[c] = Nothing
    /\ pc[c] = "scan" =>
         \A p \in Paths :
           /\ p \in todo[c] => p[1] = req[c].dir /\ files[p] # Absent
           /\ p \notin todo[c] => got[c][p] = Listing(files, req[c].dir)[p]

AnswerInv ==
  \A c \in Clients :
    pc[c] \notin {"reply", "runlock", "unlock"} => out[c] = NoAnswer

\* A file does not decode exactly while the writer that holds the lock is
\* writing it, or when a crash or an I/O error has cut the last write of this
\* very path (file_store.go:70,100).  A failure damages no other file, a
\* failure that cut no write damages nothing, and the next write or delete of
\* the path mends it.
BeingWritten(p) == owner # NoOne /\ pc[owner] = "write" /\ req[owner].path = p

DamageConfined ==
  \A p \in Paths : files[p] = Torn <=> p \in damaged \/ BeingWritten(p)

\* A Get that reports an undecodable file has asked for a path whose last write
\* was cut, and a listing has such a path in its own directory: no write in
\* progress and no damage elsewhere shows (file_store.go:174,222,302).
Covers(r, p) == IF r.op = "scan" THEN p[1] = r.dir ELSE p = r.path

DecodeErrorsNameDamage ==
  \A c \in Clients : out[c].tag = "decode" => \E p \in damaged : Covers(req[c], p)

\* While any reader is between RLock and RUnlock no file of any directory
\* changes, crashes and I/O errors included: a listing that reads file after
\* file shows one state (file_store.go:286-309).
StableWhileRead == [][active # {} => UNCHANGED files]_vars

\* Every call returns, whatever the other clients do, although an announced
\* writer makes readers wait and readers make a writer wait; this holds with
\* I/O errors and crashes because the unlock is deferred.
EveryCallReturns == \A c \in Clients : pc[c] = "check" ~> pc[c] = "idle"

\* Refinement.  A write takes effect when it truncates the file (nobody can
\* look before it is written), every other call when its answer is known.
Served(c) == pc[c] \in {"write", "unlock", "runlock", "reply"}

storeBar == [p \in Paths |-> IF files[p] = Torn THEN req[owner].val ELSE files[p]]
phaseBar == [c \in Clients |-> IF pc[c] = "idle" THEN "idle"
                               ELSE IF Served(c) THEN "served" ELSE "called"]
outBar   == [c \in Clients |-> IF pc[c] = "write" THEN Ok(req[c].val) ELSE out[c]]

Atomic == INSTANCE AtomicStore WITH store <- storeBar, phase <- phaseBar, out <- outBar

\* Without failures every behaviour of the file store is one of the atomic
\* store: each call takes effect at one instant.
ImplementsAtomicStore == Atomic!Spec

=============================================================================
