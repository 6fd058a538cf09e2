------------------------------ MODULE Startup -------------------------------
(***************************************************************************)
(* The life of the process: cmd/clawmem, internal/app and                  *)
(* internal/platform/bootstrap.  A start counts the memory records and,    *)
(* when there are none, creates those of the seed file one by one; then it *)
(* serves requests until a signal, drains for ten seconds and stops.  It   *)
(* may be killed between any two steps, and is started again on what it    *)
(* has left.  At most MaxFaults system calls fail: of a start, which ends  *)
(* it, or of a request, which is answered with an error.                   *)
(*                                                                         *)
(* Only what a start or a stop can cut in two is modelled of the store: a  *)
(* file is truncated, which leaves it Torn, and then written, under one    *)
(* lock (FileStore has the lock itself).                                   *)
(***************************************************************************)
EXTENDS Naturals, Sequences

CONSTANTS
  Clients,      \* connections that make requests
  Ids,          \* identifiers of memory records
  Requests,     \* what is asked: sequences of store calls
  SeedFiles,    \* what the seed file may hold: sequences of records
  Unreadable,   \* a seed file that is missing or does not decode
  Absent, Torn, \* no file; a file truncated and not written again
  NoOne, Boot,  \* no writer; the start that seeds
  MaxStarts,    \* bound on the starts
  MaxFaults     \* bound on the system calls that fail

\* The calls of the store.  A list reads every record, whatever its id: the
\* look-up of an idempotency key before a create is one, and every job begins
\* with one.
Calls == [op : {"create", "read", "update", "delete", "list"}, id : Ids]

ASSUME RequestsAssumption  == Requests \subseteq Seq(Calls) \ {<<>>}
ASSUME SeedFilesAssumption == SeedFiles \subseteq Seq([id : Ids, valid : BOOLEAN]) \cup {Unreadable}
ASSUME NamesAssumption     == NoOne # Boot /\ {NoOne, Boot} \cap Clients = {}
ASSUME BoundsAssumption    == MaxStarts \in Nat /\ MaxFaults \in Nat
ASSUME FilesAssumption     == Absent # Torn /\ {Absent, Torn} \cap {"seed", "new", "recalled"} = {}

VARIABLES
  files,      \* [Ids -> contents]: the directory of memory records
  phase,      \* where the process is in its life
  outcome,    \* how it ended
  config,     \* what it was started with
  signalled,  \* it has been asked to stop
  left,       \* the seed records not created yet
  writer,     \* who has truncated a file and not yet written it
  task,       \* the request of each connection: the calls left
  starts,     \* starts so far (bounds the model)
  used,       \* history: identifiers given to records of clients
  acked,      \* history: those a client knows to be stored
  dropped,    \* history: those a client has asked to delete
  laid,       \* history: seed records created since the store was last found empty
  owed,       \* history: those of that seed file that were not
  hurt,       \* history: the files whose last write was cut
  spoilt,     \* history: a start has ended while it was seeding
  faults      \* system calls that have failed so far

process == <<phase, outcome, config, signalled, left, writer, task>>
history == <<starts, used, acked, dropped, owed, laid, hurt, spoilt, faults>>
vars    == <<files, process, history>>

Contents == {"seed", "new", "recalled"}
Idle     == [todo |-> <<>>, made |-> {}]
Starting == {"opening", "counting", "reading", "seeding", "listening"}

Init ==
  /\ files     = [i \in Ids |-> Absent]
  /\ phase     = "stopped"
  /\ outcome   = "none"
  /\ config    = [seed |-> FALSE, file |-> Unreadable]
  /\ signalled = FALSE
  /\ left      = <<>>
  /\ writer    = NoOne
  /\ task      = [c \in Clients |-> Idle]
  /\ starts    = 0
  /\ used      = {}
  /\ acked     = {}
  /\ dropped   = {}
  /\ owed      = {}
  /\ laid      = {}
  /\ hurt      = {}
  /\ spoilt    = FALSE
  /\ faults    = 0

-----------------------------------------------------------------------------
\* The process ends, in whatever state: what it was doing is lost.  A write in
\* progress is cut; a stop that claims to be orderly explains no cut.

BeingWritten(i) ==
  \/ writer = Boot /\ i = Head(left).id
  \/ writer \in Clients /\ i = Head(task[writer].todo).id

Exit(how) ==
  /\ phase'     = "stopped"
  /\ outcome'   = how
  /\ signalled' = FALSE
  /\ left'      = <<>>
  /\ writer'    = NoOne
  /\ task'      = [c \in Clients |-> Idle]
  /\ hurt'      = IF how = "ok" THEN hurt ELSE hurt \cup {i \in Ids : BeingWritten(i)}
  /\ spoilt'    = (spoilt \/ phase = "seeding")
  /\ UNCHANGED <<config, starts, used, acked, dropped, owed, laid>>

-----------------------------------------------------------------------------
\* Build.

\* main: the process starts with what the environment says.  Nobody looks at
\* the seed file of a start that is not to seed.
Start(seed, file) ==
  /\ phase = "stopped"
  /\ starts < MaxStarts
  /\ starts' = starts + 1
  /\ config' = [seed |-> seed, file |-> IF seed THEN file ELSE Unreadable]
  /\ outcome' = "none"
  /\ phase' = "opening"
  /\ UNCHANGED <<files, signalled, left, writer, task, used, acked, dropped, owed, laid, hurt, spoilt, faults>>

\* NewFileStore makes the directories, if they are not there; then Build seeds,
\* if it was asked to.
OpenStore ==
  /\ phase = "opening"
  /\ phase' = IF config.seed THEN "counting" ELSE "listening"
  /\ UNCHANGED <<files, outcome, config, signalled, left, writer, task, history>>

\* Mutant of CountRecords: the store is not looked at.
CountNothing ==
  /\ phase = "counting"
  /\ phase' = "reading"
  /\ UNCHANGED <<files, outcome, config, signalled, left, writer, task, history>>

\* Count decodes every record: one that is torn makes the start fail.
CountRecords ==
  /\ phase = "counting"
  /\ \/ /\ \E i \in Ids : files[i] = Torn
        /\ Exit("build")
        /\ UNCHANGED faults
     \/ /\ \A i \in Ids : files[i] # Torn
        /\ phase' = IF \E i \in Ids : files[i] # Absent THEN "listening" ELSE "reading"
        /\ UNCHANGED <<outcome, config, signalled, left, writer, task, history>>
  /\ UNCHANGED files

ReadSeedFile ==
  /\ phase = "reading"
  /\ \/ /\ config.file = Unreadable
        /\ Exit("build")
     \/ /\ config.file # Unreadable
        /\ phase' = "seeding"
        /\ left'  = config.file
        /\ laid'  = {}
        /\ owed'  = {config.file[k].id : k \in DOMAIN config.file}
        /\ UNCHANGED <<outcome, config, signalled, writer, task, starts, used, acked, dropped,
                       hurt, spoilt>>
  /\ UNCHANGED <<files, faults>>

\* Mutants of CreateSeed: one that is there is written again; a record that is
\* refused is passed over.
CreateSeedAgain ==
  /\ phase = "seeding" /\ left # <<>> /\ writer = NoOne
  /\ files'  = [files EXCEPT ![Head(left).id] = Torn]
  /\ writer' = Boot
  /\ UNCHANGED <<phase, outcome, config, signalled, left, task, history>>

CreateSeedOrSkip ==
  /\ phase = "seeding" /\ left # <<>> /\ writer = NoOne
  /\ LET r == Head(left)
     IN \/ /\ ~r.valid \/ files[r.id] # Absent
           /\ left' = Tail(left)
           /\ UNCHANGED <<files, writer>>
        \/ /\ r.valid /\ files[r.id] = Absent
           /\ files'  = [files EXCEPT ![r.id] = Torn]
           /\ writer' = Boot
           /\ UNCHANGED left
  /\ UNCHANGED <<phase, outcome, config, signalled, task, history>>

\* CreateSeed, as far as the truncation: a record that does not validate, or
\* exists, makes the start fail and leaves the ones before it.
CreateSeed ==
  /\ phase = "seeding" /\ left # <<>> /\ writer = NoOne
  /\ LET r == Head(left)
     IN \/ /\ ~r.valid \/ files[r.id] # Absent
           /\ Exit("build")
           /\ UNCHANGED <<files, faults>>
        \/ /\ r.valid /\ files[r.id] = Absent
           /\ files'  = [files EXCEPT ![r.id] = Torn]
           /\ writer' = Boot
           /\ UNCHANGED <<phase, outcome, config, signalled, left, task, history>>

WriteSeed ==
  /\ writer = Boot
  /\ files'  = [files EXCEPT ![Head(left).id] = "seed"]
  /\ laid'   = laid \cup {Head(left).id}
  /\ owed'   = owed \ {Head(left).id}
  /\ hurt'   = hurt \ {Head(left).id}
  /\ left'   = Tail(left)
  /\ writer' = NoOne
  /\ UNCHANGED <<phase, outcome, config, signalled, task, starts, used, acked, dropped, spoilt, faults>>

EndSeeding ==
  /\ phase = "seeding" /\ left = <<>>
  /\ phase' = "listening"
  /\ UNCHANGED <<files, outcome, config, signalled, left, writer, task, history>>

\* A system call of the start fails: making a directory, reading the directory
\* or a file for Count, looking for a seed's file or opening it.  Build passes
\* the error on and main ends.  So it does when the write of a seed fails, which
\* leaves its file truncated.
StartFails ==
  /\ faults < MaxFaults
  /\ phase \in {"opening", "counting"} \/ (phase = "seeding" /\ left # <<>>)
  /\ Exit("io")
  /\ faults' = faults + 1
  /\ UNCHANGED files

-----------------------------------------------------------------------------
\* Run.

Listen ==
  /\ phase = "listening"
  /\ phase' = "serving"
  /\ UNCHANGED <<files, outcome, config, signalled, left, writer, task, history>>

\* The address is taken, or later Accept fails: Run returns at once, and main
\* with it, without a Shutdown.
ServeFails ==
  /\ phase \in {"listening", "serving"}
  /\ Exit("serve")
  /\ UNCHANGED <<files, faults>>

\* NotifyContext: the first signal cancels the context, the next ones are
\* swallowed.  Nothing looks at the context before Run.
Signal ==
  /\ phase \notin {"stopped", "draining"} /\ ~signalled
  /\ signalled' = TRUE
  /\ UNCHANGED <<files, phase, outcome, config, left, writer, task, history>>

\* Mutant of Shutdown: main does not wait for it.
ShutdownInBackground ==
  /\ phase \in {"listening", "serving"} /\ signalled
  /\ phase' = "stopped" /\ outcome' = "ok" /\ signalled' = FALSE
  /\ UNCHANGED <<files, config, left, writer, task, history>>

\* Shutdown closes the listener and waits for the requests.
Shutdown ==
  /\ phase \in {"listening", "serving"} /\ signalled
  /\ phase' = "draining"
  /\ UNCHANGED <<files, outcome, config, signalled, left, writer, task, history>>

\* Mutant of Drained: nothing is waited for.
DrainedAtOnce ==
  /\ phase = "draining"
  /\ Exit("ok")
  /\ UNCHANGED <<files, faults>>

Drained ==
  /\ phase = "draining"
  /\ \A c \in Clients : task[c] = Idle
  /\ Exit("ok")
  /\ UNCHANGED <<files, faults>>

\* Mutant of Timeout: the wait has no end.
TimeoutNever == FALSE /\ UNCHANGED vars

\* After ten seconds Shutdown gives up: Run and main return.
Timeout ==
  /\ phase = "draining"
  /\ \E c \in Clients : task[c] # Idle
  /\ Exit("shutdown")
  /\ UNCHANGED <<files, faults>>

\* The process is killed, or the machine goes down.
Crash ==
  /\ phase # "stopped"
  /\ Exit("killed")
  /\ UNCHANGED <<files, faults>>

-----------------------------------------------------------------------------
\* Requests.

Named(r, op) == {r[k].id : k \in {j \in DOMAIN r : r[j].op = op}}

\* A connection sends a request; a record gets an identifier never given
\* before.
Send(c, r) ==
  /\ phase = "serving" /\ task[c] = Idle
  /\ Named(r, "create") \cap used = {}
  /\ task'  = [task EXCEPT ![c] = [todo |-> r, made |-> Named(r, "create")]]
  /\ used'  = used \cup Named(r, "create")
  /\ dropped' = dropped \cup Named(r, "delete")
  /\ UNCHANGED <<files, phase, outcome, config, signalled, left, writer, starts, acked, owed, laid, hurt, spoilt, faults>>

Succeeds(call) ==
  CASE call.op = "list"   -> \A i \in Ids : files[i] # Torn
    [] call.op = "create" -> files[call.id] = Absent
    [] call.op = "read"   -> files[call.id] \in Contents
    [] call.op \in {"update", "delete"} -> files[call.id] # Absent

\* The request after its first call; after the last one it is answered.
Rest(t) == IF Len(t.todo) = 1 THEN Idle ELSE [t EXCEPT !.todo = Tail(@)]

\* The first of the calls left, as far as the truncation; one that fails ends
\* the request with an error.
Call(c) ==
  /\ task[c].todo # <<>> /\ writer = NoOne
  /\ LET call == Head(task[c].todo)
     IN \/ /\ ~Succeeds(call)
           /\ task' = [task EXCEPT ![c] = Idle]
           /\ UNCHANGED <<files, writer, hurt>>
        \/ /\ Succeeds(call) /\ call.op \in {"list", "read"}
           /\ task' = [task EXCEPT ![c] = Rest(@)]
           /\ UNCHANGED <<files, writer, hurt>>
        \/ /\ Succeeds(call) /\ call.op = "delete"
           /\ files' = [files EXCEPT ![call.id] = Absent]
           /\ hurt'  = hurt \ {call.id}
           /\ task'  = [task EXCEPT ![c] = Rest(@)]
           /\ UNCHANGED writer
        \/ /\ Succeeds(call) /\ call.op \in {"create", "update"}
           /\ files'  = [files EXCEPT ![call.id] = Torn]
           /\ writer' = c
           /\ UNCHANGED <<task, hurt>>
  /\ UNCHANGED <<phase, outcome, config, signalled, left, starts, used, acked, dropped, owed,
                 laid, spoilt, faults>>

Written(call) == IF call.op = "create" THEN "new" ELSE "recalled"

\* Mutant of Write: a batch is acknowledged after its first record.
WriteAndReply(c) ==
  /\ writer = c
  /\ files'  = [files EXCEPT ![Head(task[c].todo).id] = Written(Head(task[c].todo))]
  /\ hurt'   = hurt \ {Head(task[c].todo).id}
  /\ writer' = NoOne
  /\ acked'  = acked \cup task[c].made
  /\ task'   = [task EXCEPT ![c] = Rest(@)]
  /\ UNCHANGED <<phase, outcome, config, signalled, left, starts, used, dropped, owed, laid, spoilt, faults>>

\* The file is written; after the last call the request is answered.
Write(c) ==
  /\ writer = c
  /\ files'  = [files EXCEPT ![Head(task[c].todo).id] = Written(Head(task[c].todo))]
  /\ hurt'   = hurt \ {Head(task[c].todo).id}
  /\ writer' = NoOne
  /\ task'   = [task EXCEPT ![c] = Rest(@)]
  /\ acked'  = IF Len(task[c].todo) = 1 THEN acked \cup task[c].made ELSE acked
  /\ UNCHANGED <<phase, outcome, config, signalled, left, starts, used, dropped, owed, laid, spoilt, faults>>

\* A system call of a request fails: its request is answered with an error.
CallFails(c) ==
  /\ faults < MaxFaults
  /\ task[c].todo # <<>> /\ writer = NoOne
  /\ task'   = [task EXCEPT ![c] = Idle]
  /\ faults' = faults + 1
  /\ UNCHANGED <<files, phase, outcome, config, signalled, left, writer, starts, used, acked,
                 dropped, owed, laid, hurt, spoilt>>

\* So is one whose write fails, and the file stays truncated.
WriteFails(c) ==
  /\ faults < MaxFaults
  /\ writer = c
  /\ writer' = NoOne
  /\ hurt'   = hurt \cup {Head(task[c].todo).id}
  /\ task'   = [task EXCEPT ![c] = Idle]
  /\ faults' = faults + 1
  /\ UNCHANGED <<files, phase, outcome, config, signalled, left, starts, used, acked, dropped,
                 owed, laid, spoilt>>

-----------------------------------------------------------------------------

StartStep == OpenStore \/ CountRecords \/ ReadSeedFile \/ CreateSeed \/ WriteSeed \/ EndSeeding \/ Listen
StopStep  == Shutdown \/ Drained \/ Timeout

Next ==
  \/ \E seed \in BOOLEAN, file \in SeedFiles : Start(seed, file)
  \/ StartStep \/ StartFails \/ Signal \/ ServeFails \/ StopStep \/ Crash
  \/ \E c \in Clients : \/ \E r \in Requests : Send(c, r)
                        \/ Call(c) \/ Write(c) \/ CallFails(c) \/ WriteFails(c)

\* The main goroutine runs on and the timer fires.  Nothing is assumed of the
\* requests: a job may go on for longer than the ten seconds.
Spec == Init /\ [][Next]_vars /\ WF_vars(StartStep) /\ WF_vars(StopStep)

-----------------------------------------------------------------------------
\* Properties.

\* Types, and: a request is in progress only while the process serves or
\* drains, a seed record is left only while it seeds.
TypeOK ==
  /\ files \in [Ids -> Contents \cup {Absent, Torn}]
  /\ phase \in Starting \cup {"serving", "draining", "stopped"}
  /\ \A c \in Clients : task[c] # Idle => phase \in {"serving", "draining"}
  /\ left # <<>> => phase = "seeding"
  /\ writer = Boot => phase = "seeding" /\ left # <<>>
  /\ writer \in Clients => task[writer] # Idle
  /\ hurt \subseteq Ids /\ faults \in 0 .. MaxFaults
  /\ acked \cup dropped \subseteq Ids /\ acked \subseteq used /\ used \subseteq Ids /\ laid \subseteq Ids

\* The store is seeded only when it holds no memory record, however the
\* processes before ended: while a start seeds, what is there is its own
\* (docs/development.md:25).
SeedsOnlyIntoEmptyStore ==
  phase = "seeding" =>
    \A i \in Ids : files[i] # Absent => i \in laid \/ (writer = Boot /\ i = Head(left).id)

\* What a start finds it leaves as it is, even if it fails.
StartNeverChangesRecords ==
  [][\A i \in Ids : phase \in Starting /\ files'[i] # files[i] =>
       files[i] = Absent \/ (writer = Boot /\ i = Head(left).id)]_vars

\* A store that is served was given all of a seed file or none of it, as far as
\* clients did not delete it, unless some start ended while it was seeding:
\* the next one counts more than none and never adds the rest
\* (internal/platform/bootstrap/bootstrap.go:87).
ServesAllSeedsOrNone ==
  phase \in {"serving", "draining"} /\ ~spoilt => owed = {}

\* A file is torn exactly while it is being written, or when its own last write
\* was cut: by an I/O error of that write, or by the end of a process that was
\* in the middle of it because it was killed, failed to accept, or drained for
\* too long.  A signal, at whatever moment, and the orderly stop it leads to cut
\* no write (internal/app/app.go:57-65).
OnlyCutsTear == \A i \in Ids : files[i] = Torn <=> i \in hurt \/ BeingWritten(i)

\* A record whose creation was answered is never lost, whatever fails or ends
\* the process, and no start takes its place.  It can be torn, by a recall, and
\* then this very recall is not finished or was cut.
AcknowledgedRecordsStay ==
  \A i \in acked \ dropped :
    files[i] \in {"new", "recalled"} \/ (files[i] = Torn /\ (i \in hurt \/ BeingWritten(i)))

Invalid(file) ==
  file = Unreadable \/ \E k \in DOMAIN file :
                         ~file[k].valid \/ \E l \in 1 .. (k - 1) : file[l].id = file[k].id

\* A start that meets no I/O error of its own fails only if it was to seed, and
\* then over its seed file or over a torn file; a start that need not seed
\* comes to listen whatever the processes before it have left
\* (internal/platform/bootstrap/bootstrap.go:65-90).
StartsFailForACause ==
  outcome = "build" => /\ config.seed
                       /\ Invalid(config.file) \/ \E i \in Ids : files[i] = Torn

\* Every start comes to serve, or ends; and a signal stops the process, also
\* one that comes while it seeds, and although nothing forces a request to end.
StartsAndStopsEnd ==
  /\ phase \in Starting ~> phase \in {"serving", "draining", "stopped"}
  /\ signalled ~> phase = "stopped"

=============================================================================
