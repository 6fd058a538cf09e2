---------------------------- MODULE StartupProofs ----------------------------
(***************************************************************************)
(* Machine-checked proofs about Startup, for every seed file, any requests *)
(* of any number of connections, and any number of starts and ends.        *)
(***************************************************************************)
EXTENDS Startup, SequenceTheorems, TLAPS

SeedRecord == [id : Ids, valid : BOOLEAN]
Task       == {t \in [todo : Seq(Calls), made : SUBSET Ids] : t.todo = <<>> => t = Idle}
Phases     == Starting \cup {"serving", "draining", "stopped"}
IdsOf(s)   == {s[k].id : k \in DOMAIN s}

\* The inductive invariant, in parts.

Types ==
  /\ files \in [Ids -> Contents \cup {Absent, Torn}]
  /\ phase \in Phases
  /\ config.file \in Seq(SeedRecord) \cup {Unreadable}
  /\ left \in Seq(SeedRecord)
  /\ writer \in Clients \cup {NoOne, Boot}
  /\ task \in [Clients -> Task]
  /\ \A c \in Clients : task[c].made \subseteq used
  /\ used \in SUBSET Ids /\ acked \in SUBSET used
  /\ dropped \in SUBSET Ids /\ laid \in SUBSET Ids
  /\ hurt \in SUBSET Ids /\ spoilt \in BOOLEAN /\ faults \in 0 .. MaxFaults

\* A request is in progress only while the process serves or drains, a seed
\* record is left only while it seeds, which it does only if it was asked to;
\* and a process that has not ended has no outcome.
PhaseInv ==
  /\ \A c \in Clients : task[c] # Idle => phase \in {"serving", "draining"}
  /\ left # <<>> => phase = "seeding"
  /\ phase \in {"counting", "reading", "seeding"} => config.seed
  /\ outcome # "none" => phase = "stopped"

\* Who writes has truncated the file of the call, or of the record, that comes
\* first.
WriterInv ==
  /\ writer = Boot => left # <<>> /\ files[Head(left).id] = Torn
  /\ writer \in Clients => /\ task[writer].todo # <<>>
                           /\ Head(task[writer].todo).op \in {"create", "update"}
                           /\ files[Head(task[writer].todo).id] = Torn

\* How many records of the seed file have been created.
Done == Len(config.file) - Len(left)

\* What is left to seed is the end of the seed file, and what was laid is of
\* its beginning.
SeedInv ==
  /\ phase = "reading" => \A i \in Ids : files[i] = Absent
  /\ phase = "seeding" =>
       /\ config.file # Unreadable
       /\ Done \in Nat
       /\ \A k \in 1 .. Len(left) : left[k] = config.file[Done + k]
       /\ laid \subseteq {config.file[k].id : k \in 1 .. Done}
       /\ owed \subseteq IdsOf(left)
  /\ phase # "seeding" /\ ~spoilt => owed = {}

Kept == {"new", "recalled", Torn}

\* What a request was to create it has still to create, or it is stored, as
\* far as no client asks to delete it.
KeptInv ==
  /\ \A c \in Clients :
       /\ Named(task[c].todo, "delete") \subseteq dropped
       /\ \A i \in task[c].made \ dropped :
            i \in Named(task[c].todo, "create") \/ files[i] \in Kept
  /\ \A i \in acked \ dropped : files[i] \in Kept
  /\ writer = Boot => Head(left).id \notin acked \ dropped

IInv ==
  /\ Types /\ PhaseInv /\ WriterInv /\ SeedInv /\ KeptInv
  /\ OnlyCutsTear /\ SeedsOnlyIntoEmptyStore /\ StartsFailForACause

-----------------------------------------------------------------------------
\* The steps of Next: the process ends, or goes on.

Ends ==
  \E how \in {"build", "io", "serve", "ok", "shutdown", "killed"} :
    /\ Exit(how)
    /\ how = "ok" => phase = "draining" /\ \A c \in Clients : task[c] = Idle
    /\ faults' \in {faults, faults + 1} \cap 0 .. MaxFaults
    /\ UNCHANGED files

Counted == CountRecords /\ phase' # "stopped"
SeedFileRead == ReadSeedFile /\ phase' # "stopped"
SeedOpened   == CreateSeed /\ phase' # "stopped"

\* Nothing but the place of the process in its life changes.
Moves == OpenStore \/ EndSeeding \/ Listen \/ Signal \/ Shutdown

\* A request ends because a system call has failed.
Fails(c) == CallFails(c) \/ WriteFails(c)

LEMMA StepCases ==
  ASSUME faults \in 0 .. MaxFaults, [Next]_vars
  PROVE  \/ Ends
         \/ \E seed \in BOOLEAN, file \in SeedFiles : Start(seed, file)
         \/ Counted \/ SeedFileRead \/ SeedOpened \/ WriteSeed \/ Moves
         \/ \E c \in Clients : (\E r \in Requests : Send(c, r)) \/ Call(c) \/ Write(c) \/ Fails(c)
         \/ UNCHANGED vars
<1>0. faults + 1 \in 0 .. MaxFaults \/ ~(faults < MaxFaults)
  BY BoundsAssumption
<1>1. CASE CountRecords
  BY <1>1 DEF CountRecords, Counted, Ends, Exit
<1>2. CASE ReadSeedFile
  BY <1>2 DEF ReadSeedFile, SeedFileRead, Ends, Exit
<1>3. CASE CreateSeed
  BY <1>3 DEF CreateSeed, SeedOpened, Ends, Exit
<1>4. CASE ServeFails \/ Drained \/ Timeout \/ Crash
  BY <1>4 DEF ServeFails, Drained, Timeout, Crash, Ends
<1>5. CASE StartFails
  BY <1>0, <1>5 DEF StartFails, Ends
<1>. QED BY <1>1, <1>2, <1>3, <1>4, <1>5 DEF Fails, Next, StartStep, StopStep, Moves

\* What the going on of each step that may end the process is.
LEMMA GoingOn ==
  /\ Counted => /\ phase = "counting" /\ \A i \in Ids : files[i] # Torn
                /\ phase' = IF \E i \in Ids : files[i] # Absent THEN "listening" ELSE "reading"
                /\ UNCHANGED <<files, outcome, config, signalled, left, writer, task, history>>
  /\ SeedFileRead => /\ phase = "reading" /\ config.file # Unreadable
                     /\ phase' = "seeding" /\ left' = config.file /\ laid' = {}
                     /\ owed' = IdsOf(config.file)
                     /\ UNCHANGED <<files, outcome, config, signalled, writer, task,
                                    starts, used, acked, dropped, hurt, spoilt, faults>>
  /\ SeedOpened => /\ phase = "seeding" /\ left # <<>> /\ writer = NoOne
                   /\ files[Head(left).id] = Absent
                   /\ files' = [files EXCEPT ![Head(left).id] = Torn]
                   /\ writer' = Boot
                   /\ UNCHANGED <<phase, outcome, config, signalled, left, task, history>>
BY DEF Counted, SeedFileRead, SeedOpened, CountRecords, ReadSeedFile, CreateSeed, Exit, IdsOf,
       history

\* The first of a sequence, and the rest of it.
LEMMA HeadAndTail ==
  ASSUME NEW S, NEW s \in Seq(S), s # <<>>
  PROVE  /\ Head(s) \in S /\ Head(s) = s[1]
         /\ Len(s) \in Nat /\ 1 \in 1 .. Len(s) /\ DOMAIN s = 1 .. Len(s)
         /\ Tail(s) \in Seq(S) /\ Len(Tail(s)) = Len(s) - 1
         /\ DOMAIN Tail(s) = 1 .. (Len(s) - 1)
         /\ \A k \in 1 .. (Len(s) - 1) : Tail(s)[k] = s[k + 1]
<1>1. Len(s) \in Nat \ {0} /\ DOMAIN s = 1 .. Len(s)
  BY EmptySeq, LenProperties
<1>2. /\ Tail(s) \in Seq(S) /\ Len(Tail(s)) = Len(s) - 1
      /\ \A k \in 1 .. Len(Tail(s)) : Tail(s)[k] = s[k + 1]
  BY HeadTailProperties
<1>3. DOMAIN Tail(s) = 1 .. Len(Tail(s))
  BY <1>2, LenProperties
<1>4. Head(s) = s[1]
  OBVIOUS
<1>5. Head(s) \in S
  BY HeadTailProperties
<1>. QED BY <1>1, <1>2, <1>3, <1>4, <1>5

LEMMA TailIsLonger ==
  ASSUME NEW S, NEW s \in Seq(S), s # <<>>, Len(s) # 1
  PROVE  Tail(s) # <<>>
<1>1. Len(s) \in Nat /\ Len(Tail(s)) = Len(s) - 1
  BY HeadAndTail
<1>2. Len(Tail(s)) # 0
  BY <1>1
<1>. QED BY <1>2, EmptySeq

LEMMA Names == NoOne # Boot /\ NoOne \notin Clients /\ Boot \notin Clients
BY NamesAssumption

LEMMA IdleIsTask == Idle \in Task /\ Idle.todo = <<>> /\ Idle.made = {}
BY EmptySeq DEF Task, Idle

\* What a client that is busy, or writes, is busy with.
LEMMA BusyTask ==
  ASSUME Types, NEW c \in Clients
  PROVE  /\ task[c] \in Task
         /\ task[c].todo \in Seq(Calls) /\ task[c].made \in SUBSET Ids
         /\ task[c].todo # <<>> <=> task[c] # Idle
         /\ task[c].todo # <<>> => /\ Head(task[c].todo) \in Calls
                                   /\ Head(task[c].todo).id \in Ids
<1>1. task[c] \in Task
  BY DEF Types
<1>2. task[c].todo # <<>> => Head(task[c].todo) \in Calls
  BY <1>1, HeadTailProperties DEF Task
<1>3. task[c].todo # <<>> => task[c] # Idle
  BY IdleIsTask
<1>. QED BY <1>1, <1>2, <1>3 DEF Task, Calls

LEMMA SendsTask ==
  ASSUME NEW r \in Requests
  PROVE  /\ r \in Seq(Calls) /\ r # <<>>
         /\ \A op : Named(r, op) \in SUBSET Ids
         /\ [todo |-> r, made |-> Named(r, "create")] \in Task
<1>1. r \in Seq(Calls) /\ r # <<>>
  BY RequestsAssumption
<1>2. \A k \in DOMAIN r : r[k].id \in Ids
  <2>1. \A k \in DOMAIN r : r[k] \in Calls
    BY <1>1, LenProperties
  <2>. QED BY <2>1 DEF Calls
<1>3. \A op : Named(r, op) \in SUBSET Ids
  BY <1>2 DEF Named
<1>. QED BY <1>1, <1>3 DEF Task

\* The request after its first call.
LEMMA RestOfTask ==
  ASSUME NEW t \in Task, t.todo # <<>>
  PROVE  /\ Rest(t) \in Task /\ Rest(t).made \subseteq t.made
         /\ Rest(t) # Idle => /\ Len(t.todo) # 1 /\ Rest(t).made = t.made
                              /\ Rest(t).todo = Tail(t.todo)
<1>1. CASE Len(t.todo) = 1
  BY <1>1, IdleIsTask DEF Rest
<1>2. CASE Len(t.todo) # 1
  <2>1. Tail(t.todo) \in Seq(Calls) /\ Tail(t.todo) # <<>>
    BY <1>2, HeadTailProperties, TailIsLonger DEF Task
  <2>. QED BY <1>2, <2>1 DEF Rest, Task
<1>. QED BY <1>1, <1>2

\* Neither a call nor a write changes what a request creates.
LEMMA MadeStays ==
  ASSUME Types, NEW c \in Clients, Call(c) \/ Write(c) \/ Fails(c), task[c].todo # <<>>
  PROVE  \A d \in Clients : task'[d].made \subseteq task[d].made
<1>1. task \in [Clients -> Task] /\ task[c] \in Task
  BY DEF Types
<1>2. Rest(task[c]).made \subseteq task[c].made /\ Idle.made \subseteq task[c].made
  BY <1>1, RestOfTask, IdleIsTask
<1>3. \/ UNCHANGED task \/ task' = [task EXCEPT ![c] = Idle]
      \/ task' = [task EXCEPT ![c] = Rest(task[c])]
  BY DEF Call, Write, Fails, CallFails, WriteFails
<1>. QED BY <1>1, <1>2, <1>3

-----------------------------------------------------------------------------
\* Types.

LEMMA TypesInit == Init => Types
<1> SUFFICES ASSUME Init PROVE Types
  OBVIOUS
<1>1. task \in [Clients -> Task] /\ left \in Seq(SeedRecord)
  BY IdleIsTask, EmptySeq DEF Init
<1>2. \A c \in Clients : task[c].made = {}
  BY IdleIsTask DEF Init
<1>3. faults \in 0 .. MaxFaults
  BY BoundsAssumption DEF Init
<1>. QED BY <1>1, <1>2, <1>3 DEF Init, Types, Phases, Contents

LEMMA TypesStep ==
  ASSUME Types, PhaseInv, WriterInv, [Next]_vars
  PROVE  Types'
<1> USE DEF Types, history
<1>1. CASE Ends
  BY <1>1, IdleIsTask, EmptySeq, Names DEF Ends, Exit, Phases
<1>2. ASSUME NEW seed \in BOOLEAN, NEW file \in SeedFiles, Start(seed, file)
      PROVE  Types'
  BY <1>2, SeedFilesAssumption DEF Start, Phases, Starting, SeedRecord
<1>3. CASE Counted
  BY <1>3, GoingOn DEF Phases, Starting
<1>4. CASE SeedFileRead
  BY <1>4, GoingOn DEF Phases, Starting
<1>5. CASE SeedOpened
  <2>1. Head(left).id \in Ids
    <3>1. Head(left) \in SeedRecord
      BY <1>5, GoingOn, HeadTailProperties
    <3>. QED BY <3>1 DEF SeedRecord
  <2>. QED BY <1>5, <2>1, GoingOn
<1>6. CASE WriteSeed
  <2>1. left # <<>>
    BY <1>6 DEF WriteSeed, WriterInv
  <2>2. Head(left).id \in Ids /\ Tail(left) \in Seq(SeedRecord)
    <3>1. Head(left) \in SeedRecord /\ Tail(left) \in Seq(SeedRecord)
      BY <2>1, HeadTailProperties
    <3>. QED BY <3>1 DEF SeedRecord
  <2>. QED BY <1>6, <2>2 DEF WriteSeed, Contents
<1>7. CASE Moves
  BY <1>7 DEF Moves, OpenStore, EndSeeding, Listen, Signal, Shutdown, Phases, Starting
<1>8. ASSUME NEW c \in Clients, NEW r \in Requests, Send(c, r)
      PROVE  Types'
  BY <1>8, SendsTask DEF Send
<1>9. ASSUME NEW c \in Clients, Call(c)
      PROVE  Types'
  <2>1. task[c].todo # <<>> /\ Head(task[c].todo).id \in Ids
    BY <1>9, BusyTask DEF Call
  <2>2. files' \in [Ids -> Contents \cup {Absent, Torn}]
    BY <1>9, <2>1 DEF Call
  <2>3. task' \in [Clients -> Task]
    <3>1. task[c] \in Task /\ Rest(task[c]) \in Task
      BY <2>1, RestOfTask
    <3>2. \/ UNCHANGED task \/ task' = [task EXCEPT ![c] = Idle]
          \/ task' = [task EXCEPT ![c] = Rest(task[c])]
      BY <1>9 DEF Call
    <3>. QED BY <3>1, <3>2, IdleIsTask
  <2>4. writer' \in Clients \cup {NoOne, Boot}
    BY <1>9 DEF Call
  <2>. QED BY <1>9, <2>1, <2>2, <2>3, <2>4, MadeStays DEF Call
<1>10. ASSUME NEW c \in Clients, Write(c)
       PROVE  Types'
  <2>1. task[c].todo # <<>> /\ Head(task[c].todo).id \in Ids
    BY <1>10, BusyTask DEF Write, WriterInv
  <2>2. files' \in [Ids -> Contents \cup {Absent, Torn}]
    BY <1>10, <2>1 DEF Write, Written, Contents
  <2>3. task' \in [Clients -> Task] /\ acked' \in SUBSET used
    <3>1. task[c] \in Task /\ Rest(task[c]) \in Task
      BY <2>1, RestOfTask
    <3>2. task' = [task EXCEPT ![c] = Rest(task[c])]
      BY <1>10 DEF Write
    <3>3. acked' = acked \cup task[c].made \/ acked' = acked
      BY <1>10 DEF Write
    <3>. QED BY <3>1, <3>2, <3>3
  <2>. QED BY <1>10, <2>1, <2>2, <2>3, MadeStays DEF Write
<1>11. ASSUME NEW c \in Clients, Fails(c)
       PROVE  Types'
  <2>1. task[c].todo # <<>> /\ Head(task[c].todo).id \in Ids
    BY <1>11, BusyTask DEF Fails, CallFails, WriteFails, WriterInv
  <2>2. task' \in [Clients -> Task] /\ hurt' \in SUBSET Ids /\ writer' = NoOne
    BY <1>11, <2>1, IdleIsTask DEF Fails, CallFails, WriteFails
  <2>3. faults' \in 0 .. MaxFaults
    BY <1>11, BoundsAssumption DEF Fails, CallFails, WriteFails
  <2>4. UNCHANGED <<files, phase, config, left, used, acked, dropped, laid, spoilt>>
    BY <1>11 DEF Fails, CallFails, WriteFails
  <2>. QED BY <1>11, <2>1, <2>2, <2>3, <2>4, MadeStays
<1>12. CASE UNCHANGED vars
  BY <1>12 DEF vars, process
<1>. QED
  BY <1>1, <1>2, <1>3, <1>4, <1>5, <1>6, <1>7, <1>8, <1>9, <1>10, <1>11, <1>12, StepCases

-----------------------------------------------------------------------------
\* Where the process is, and who writes.

LEMMA PhaseStep ==
  ASSUME Types, PhaseInv, WriterInv, [Next]_vars
  PROVE  PhaseInv'
<1> USE DEF PhaseInv, history
<1>1. CASE Ends
  BY <1>1 DEF Ends, Exit
<1>2. ASSUME NEW seed \in BOOLEAN, NEW file \in SeedFiles, Start(seed, file)
      PROVE  PhaseInv'
  BY <1>2 DEF Start
<1>3. CASE Counted \/ SeedFileRead \/ SeedOpened
  BY <1>3, GoingOn
<1>4. CASE WriteSeed
  BY <1>4 DEF WriteSeed, WriterInv
<1>5. CASE Moves
  BY <1>5 DEF Moves, OpenStore, EndSeeding, Listen, Signal, Shutdown
<1>6. ASSUME NEW c \in Clients, NEW r \in Requests, Send(c, r)
      PROVE  PhaseInv'
  BY <1>6 DEF Send, Types
<1>7. ASSUME NEW c \in Clients, Call(c) \/ Write(c) \/ Fails(c)
      PROVE  PhaseInv'
  <2>1. task[c] # Idle
    BY <1>7, IdleIsTask DEF Call, Write, WriterInv, Fails, CallFails, WriteFails
  <2>2. phase \in {"serving", "draining"} /\ UNCHANGED <<phase, left, outcome, config>>
    BY <1>7, <2>1 DEF Call, Write, Fails, CallFails, WriteFails
  <2>. QED BY <2>2
<1>8. CASE UNCHANGED vars
  BY <1>8 DEF vars, process
<1>. QED BY <1>1, <1>2, <1>3, <1>4, <1>5, <1>6, <1>7, <1>8, StepCases DEF Types

\* While a start is under way no request is, and nobody else writes.
LEMMA StartIsAlone ==
  ASSUME Types, PhaseInv, WriterInv
  PROVE  /\ phase \notin {"serving", "draining"} =>
              writer \notin Clients /\ \A c \in Clients : task[c] = Idle
         /\ phase # "seeding" => writer # Boot
BY IdleIsTask DEF PhaseInv, WriterInv

LEMMA WriterStep ==
  ASSUME Types, PhaseInv, WriterInv, [Next]_vars
  PROVE  WriterInv'
<1> USE Names DEF WriterInv, history
<1>1. CASE Ends
  BY <1>1 DEF Ends, Exit
<1>2. ASSUME NEW seed \in BOOLEAN, NEW file \in SeedFiles, Start(seed, file)
      PROVE  WriterInv'
  BY <1>2 DEF Start
<1>3. CASE Counted \/ SeedFileRead
  BY <1>3, GoingOn, StartIsAlone
<1>4. CASE SeedOpened
  <2>1. Head(left).id \in Ids
    <3>1. Head(left) \in SeedRecord
      BY <1>4, GoingOn, HeadTailProperties DEF Types
    <3>. QED BY <3>1 DEF SeedRecord
  <2>. QED BY <1>4, <2>1, GoingOn DEF Types
<1>5. CASE WriteSeed
  BY <1>5 DEF WriteSeed
<1>6. CASE Moves
  BY <1>6 DEF Moves, OpenStore, EndSeeding, Listen, Signal, Shutdown
<1>7. ASSUME NEW c \in Clients, NEW r \in Requests, Send(c, r)
      PROVE  WriterInv'
  <2>1. writer # c /\ UNCHANGED <<files, writer, left>>
    BY <1>7, IdleIsTask DEF Send
  <2>2. writer \in Clients => task'[writer] = task[writer]
    BY <1>7, <2>1 DEF Send, Types
  <2>. QED BY <2>1, <2>2
<1>8. ASSUME NEW c \in Clients, Call(c)
      PROVE  WriterInv'
  <2>1. task[c].todo # <<>> /\ Head(task[c].todo).id \in Ids
    BY <1>8, BusyTask DEF Call
  <2>2. \/ writer' = NoOne
        \/ /\ writer' = c /\ UNCHANGED task
           /\ Head(task[c].todo).op \in {"create", "update"}
           /\ files' = [files EXCEPT ![Head(task[c].todo).id] = Torn]
    BY <1>8 DEF Call
  <2>. QED BY <2>1, <2>2 DEF Types
<1>9. ASSUME NEW c \in Clients, Write(c)
      PROVE  WriterInv'
  BY <1>9 DEF Write
<1>10. ASSUME NEW c \in Clients, Fails(c)
       PROVE  WriterInv'
  BY <1>10 DEF Fails, CallFails, WriteFails
<1>11. CASE UNCHANGED vars
  BY <1>11 DEF vars, process
<1>. QED
  BY <1>1, <1>2, <1>3, <1>4, <1>5, <1>6, <1>7, <1>8, <1>9, <1>10, <1>11, StepCases DEF Types

\* A file is torn by its writer alone, and stays torn when the write fails or
\* the writer's process ends before the file is written.

\* An orderly stop waits until nobody writes, and nobody writes after an end.
LEMMA NobodyWrites ==
  ASSUME writer = NoOne
  PROVE  \A i \in Ids : ~BeingWritten(i)
BY Names DEF BeingWritten

LEMMA TearStep ==
  ASSUME Types, PhaseInv, WriterInv, OnlyCutsTear, [Next]_vars
  PROVE  OnlyCutsTear'
<1> USE Names DEF history
<1>1. CASE Ends
  <2>1. PICK how \in {"build", "io", "serve", "ok", "shutdown", "killed"} :
          /\ Exit(how) /\ UNCHANGED files
          /\ how = "ok" => phase = "draining" /\ \A c \in Clients : task[c] = Idle
    BY <1>1 DEF Ends
  <2>2. \A i \in Ids : ~BeingWritten(i)'
    BY <2>1 DEF Exit, BeingWritten
  <2>3. how = "ok" => \A i \in Ids : ~BeingWritten(i)
    <3>1. how = "ok" => writer \notin Clients /\ writer # Boot
      BY <2>1, StartIsAlone, IdleIsTask DEF WriterInv
    <3>. QED BY <3>1 DEF BeingWritten
  <2>4. how # "ok" => hurt' = hurt \cup {i \in Ids : BeingWritten(i)}
    BY <2>1 DEF Exit
  <2>5. how = "ok" => hurt' = hurt
    BY <2>1 DEF Exit
  <2>6. \A i \in Ids : i \in hurt' <=> i \in hurt \/ BeingWritten(i)
    BY <2>3, <2>4, <2>5
  <2>. QED BY <2>1, <2>2, <2>6 DEF OnlyCutsTear
<1>2. CASE \/ \E seed \in BOOLEAN, file \in SeedFiles : Start(seed, file)
           \/ Counted \/ Moves \/ UNCHANGED vars
  <2>1. UNCHANGED <<files, hurt, writer, left, task>>
    BY <1>2, GoingOn DEF Start, Moves, OpenStore, EndSeeding, Listen, Signal, Shutdown, vars, process
  <2>. QED BY <2>1 DEF OnlyCutsTear, BeingWritten
<1>3. CASE SeedFileRead
  <2>1. writer # Boot /\ writer \notin Clients /\ UNCHANGED <<files, hurt, writer>>
    BY <1>3, GoingOn, StartIsAlone
  <2>. QED BY <2>1 DEF OnlyCutsTear, BeingWritten
<1>4. CASE SeedOpened
  <2>1. \A i \in Ids : ~BeingWritten(i) /\ (BeingWritten(i)' <=> i = Head(left).id)
    BY <1>4, GoingOn DEF BeingWritten
  <2>. QED BY <1>4, <2>1, GoingOn DEF OnlyCutsTear, Types
<1>5. CASE WriteSeed
  <2>1. \A i \in Ids : ~BeingWritten(i)' /\ (BeingWritten(i) <=> i = Head(left).id)
    BY <1>5 DEF WriteSeed, BeingWritten
  <2>2. files' = [files EXCEPT ![Head(left).id] = "seed"] /\ hurt' = hurt \ {Head(left).id}
    BY <1>5 DEF WriteSeed
  <2>. QED BY <2>1, <2>2, FilesAssumption DEF OnlyCutsTear, Types
<1>7. ASSUME NEW c \in Clients, NEW r \in Requests, Send(c, r)
      PROVE  OnlyCutsTear'
  <2>1. writer # c /\ UNCHANGED <<files, writer, left, hurt>>
    BY <1>7, IdleIsTask DEF Send, WriterInv
  <2>2. writer \in Clients => task'[writer] = task[writer]
    BY <1>7, <2>1 DEF Send, Types
  <2>. QED BY <2>1, <2>2 DEF OnlyCutsTear, BeingWritten
<1>8. ASSUME NEW c \in Clients, Call(c)
      PROVE  OnlyCutsTear'
  <2>1. writer = NoOne /\ left' = left /\ \A i \in Ids : ~BeingWritten(i)
    BY <1>8, NobodyWrites DEF Call
  <2>2. CASE UNCHANGED <<files, writer, hurt>>
    <3>1. \A i \in Ids : ~BeingWritten(i)'
      BY <2>1, <2>2 DEF BeingWritten
    <3>. QED BY <2>1, <2>2, <3>1 DEF OnlyCutsTear
  <2>3. CASE /\ files' = [files EXCEPT ![Head(task[c].todo).id] = Absent]
             /\ hurt' = hurt \ {Head(task[c].todo).id} /\ UNCHANGED writer
    <3>1. \A i \in Ids : ~BeingWritten(i)'
      BY <2>1, <2>3 DEF BeingWritten
    <3>. QED BY <2>1, <2>3, <3>1, FilesAssumption DEF OnlyCutsTear, Types
  <2>4. CASE /\ files' = [files EXCEPT ![Head(task[c].todo).id] = Torn]
             /\ writer' = c /\ UNCHANGED <<task, hurt>>
    <3>1. \A i \in Ids : BeingWritten(i)' <=> i = Head(task[c].todo).id
      BY <2>1, <2>4 DEF BeingWritten
    <3>. QED BY <2>1, <2>4, <3>1 DEF OnlyCutsTear, Types
  <2>. QED BY <1>8, <2>2, <2>3, <2>4 DEF Call
<1>9. ASSUME NEW c \in Clients, Write(c) \/ Fails(c)
      PROVE  OnlyCutsTear'
  <2> DEFINE id == Head(task[c].todo).id
  <2>1. writer' = NoOne /\ \A i \in Ids : ~BeingWritten(i)'
    BY <1>9 DEF Write, Fails, CallFails, WriteFails, BeingWritten
  <2>2. CASE Write(c)
    <3>1. \A i \in Ids : BeingWritten(i) <=> i = id
      BY <2>2 DEF Write, BeingWritten
    <3>2. hurt' = hurt \ {id} /\ files' = [files EXCEPT ![id] = Written(Head(task[c].todo))]
      BY <2>2 DEF Write
    <3>3. Written(Head(task[c].todo)) # Torn
      BY FilesAssumption DEF Written
    <3> HIDE DEF id
    <3>. QED BY <2>1, <3>1, <3>2, <3>3 DEF OnlyCutsTear, Types
  <2>3. CASE WriteFails(c)
    <3>1. \A i \in Ids : BeingWritten(i) <=> i = id
      BY <2>3 DEF WriteFails, BeingWritten
    <3>2. hurt' = hurt \cup {id} /\ UNCHANGED files
      BY <2>3 DEF WriteFails
    <3> HIDE DEF id
    <3>. QED BY <2>1, <3>1, <3>2 DEF OnlyCutsTear
  <2>4. CASE CallFails(c)
    <3>1. \A i \in Ids : ~BeingWritten(i)
      BY <2>4, NobodyWrites DEF CallFails
    <3>2. UNCHANGED <<files, hurt>>
      BY <2>4 DEF CallFails
    <3>. QED BY <2>1, <3>1, <3>2 DEF OnlyCutsTear
  <2>. QED BY <1>9, <2>2, <2>3, <2>4 DEF Fails
<1>. QED BY <1>1, <1>2, <1>3, <1>4, <1>5, <1>7, <1>8, <1>9, StepCases DEF Types

-----------------------------------------------------------------------------
\* Seeding.

\* While a start seeds only its own steps, a signal and the end of the process
\* can occur.
LEMMA SeedingSteps ==
  ASSUME Types, PhaseInv, WriterInv, [Next]_vars, phase \notin {"serving", "draining"},
         ~Ends
  PROVE  \/ \E seed \in BOOLEAN, file \in SeedFiles : Start(seed, file)
         \/ Counted \/ SeedFileRead \/ SeedOpened \/ WriteSeed \/ Moves
         \/ UNCHANGED vars
<1>1. ASSUME NEW c \in Clients,
             (\E r \in Requests : Send(c, r)) \/ Call(c) \/ Write(c) \/ Fails(c)
      PROVE  FALSE
  BY <1>1, StartIsAlone, IdleIsTask DEF Send, Call, Write, Fails, CallFails, WriteFails
<1>. QED BY <1>1, StepCases DEF Types

\* What is created moves from the rest of the seed file to its beginning.
LEMMA SeedStep ==
  ASSUME Types, PhaseInv, WriterInv, SeedInv, [Next]_vars
  PROVE  SeedInv'
<1> USE DEF SeedInv, Done, history
<1>1. CASE Ends
  BY <1>1 DEF Ends, Exit
<1>2. ASSUME NEW seed \in BOOLEAN, NEW file \in SeedFiles, Start(seed, file)
      PROVE  SeedInv'
  BY <1>2 DEF Start
<1>3. CASE Counted
  BY <1>3, GoingOn
<1>4. CASE SeedFileRead
  <2>1. config.file \in Seq(SeedRecord)
    BY <1>4, GoingOn DEF Types
  <2>2. Len(config.file) \in Nat
    BY <2>1, LenProperties
  <2>. QED BY <1>4, <2>2, GoingOn
<1>5. CASE SeedOpened
  BY <1>5, GoingOn DEF IdsOf
<1>6. CASE WriteSeed
  <2>1. left # <<>> /\ phase = "seeding" /\ left \in Seq(SeedRecord)
    BY <1>6 DEF WriteSeed, WriterInv, PhaseInv, Types
  <2>2. /\ Head(left) = left[1] /\ Len(left) \in Nat /\ 1 \in 1 .. Len(left)
        /\ DOMAIN left = 1 .. Len(left)
        /\ Len(Tail(left)) = Len(left) - 1 /\ DOMAIN Tail(left) = 1 .. (Len(left) - 1)
        /\ \A k \in 1 .. (Len(left) - 1) : Tail(left)[k] = left[k + 1]
    BY <2>1, HeadAndTail
  <2>3. config.file \in Seq(SeedRecord) /\ Len(config.file) \in Nat
    BY <2>1, LenProperties DEF Types
  <2>4. /\ laid' = laid \cup {Head(left).id} /\ owed' = owed \ {Head(left).id}
        /\ left' = Tail(left) /\ UNCHANGED <<phase, config, spoilt>>
    BY <1>6 DEF WriteSeed
  <2>5. Done' = Done + 1 /\ Done' \in Nat
    BY <2>1, <2>2, <2>3, <2>4
  <2>6. \A k \in 1 .. Len(left') : left'[k] = config.file[Done' + k]
    BY <2>1, <2>2, <2>3, <2>4
  <2>7. laid' \subseteq {config.file[k].id : k \in 1 .. Done'}
    <3>1. Head(left).id = config.file[Done + 1].id
      BY <2>1, <2>2
    <3>. QED BY <2>1, <2>4, <2>5, <3>1
  <2>8. owed' \subseteq IdsOf(left')
    <3>1. \A k \in DOMAIN left : left[k].id = Head(left).id \/ left[k].id \in IdsOf(Tail(left))
      <4> SUFFICES ASSUME NEW k \in 1 .. Len(left), k # 1
                   PROVE  left[k].id \in IdsOf(Tail(left))
        BY <2>2
      <4>1. k - 1 \in 1 .. (Len(left) - 1) /\ Tail(left)[k - 1] = left[k]
        BY <2>2
      <4>. QED BY <4>1, <2>2 DEF IdsOf
    <3>. QED BY <2>1, <2>4, <3>1 DEF IdsOf
  <2>. QED BY <2>1, <2>4, <2>5, <2>6, <2>7, <2>8
<1>7. CASE Moves
  <2>1. CASE EndSeeding
    BY <2>1, EmptySeq DEF EndSeeding, IdsOf
  <2>. QED BY <1>7, <2>1 DEF Moves, OpenStore, Listen, Signal, Shutdown
<1>8. ASSUME NEW c \in Clients,
             (\E r \in Requests : Send(c, r)) \/ Call(c) \/ Write(c) \/ Fails(c)
      PROVE  SeedInv'
  <2>1. phase \in {"serving", "draining"}
    BY <1>8, IdleIsTask
    DEF Send, Call, Write, Fails, CallFails, WriteFails, WriterInv, PhaseInv
  <2>2. UNCHANGED <<phase, config, left, laid, owed, spoilt>>
    BY <1>8 DEF Send, Call, Write, Fails, CallFails, WriteFails
  <2>. QED BY <2>1, <2>2
<1>9. CASE UNCHANGED vars
  BY <1>9 DEF vars, process
<1>. QED BY <1>1, <1>2, <1>3, <1>4, <1>5, <1>6, <1>7, <1>8, <1>9, StepCases DEF Types

LEMMA OwnFilesStep ==
  ASSUME Types, PhaseInv, WriterInv, SeedInv, SeedsOnlyIntoEmptyStore, [Next]_vars
  PROVE  SeedsOnlyIntoEmptyStore'
<1> SUFFICES ASSUME phase' = "seeding", NEW i \in Ids, files'[i] # Absent
             PROVE  i \in laid' \/ (writer' = Boot /\ i = Head(left').id)
  BY DEF SeedsOnlyIntoEmptyStore
<1> USE DEF SeedsOnlyIntoEmptyStore, history
<1>1. ~Ends
  BY DEF Ends, Exit
<1>2. phase \notin {"serving", "draining"}
  BY StepCases, <1>1, GoingOn
  DEF Start, WriteSeed, Moves, OpenStore, EndSeeding, Listen, Signal, Shutdown, Send, Call, Write,
      Fails, CallFails, WriteFails, Types, vars, process
<1>3. ASSUME NEW seed \in BOOLEAN, NEW file \in SeedFiles, Start(seed, file)
      PROVE  FALSE
  BY <1>3 DEF Start
<1>4. CASE Counted
  BY <1>4, GoingOn
<1>5. CASE SeedFileRead
  BY <1>5, GoingOn DEF SeedInv
<1>6. CASE SeedOpened
  BY <1>6, Names, GoingOn DEF Types
<1>7. CASE WriteSeed
  BY <1>7, Names DEF WriteSeed, Types, WriterInv, PhaseInv
<1>8. CASE Moves
  BY <1>8 DEF Moves, OpenStore, EndSeeding, Listen, Signal, Shutdown
<1>9. CASE UNCHANGED vars
  BY <1>9 DEF vars, process
<1>. QED BY <1>1, <1>2, <1>3, <1>4, <1>5, <1>6, <1>7, <1>8, <1>9, SeedingSteps

\* A start that ends over its seed file has met a record that does not
\* validate, or that is in the file twice.
LEMMA RefusedRecord ==
  ASSUME Types, SeedInv, SeedsOnlyIntoEmptyStore, phase = "seeding", left # <<>>,
         writer = NoOne, ~Head(left).valid \/ files[Head(left).id] # Absent
  PROVE  Invalid(config.file)
<1>1. /\ Head(left) = left[1] /\ Len(left) \in Nat /\ 1 \in 1 .. Len(left)
      /\ Head(left) \in SeedRecord
  BY HeadAndTail DEF Types
<1>2. config.file \in Seq(SeedRecord) /\ Len(config.file) \in Nat
      /\ DOMAIN config.file = 1 .. Len(config.file)
  BY LenProperties DEF Types, SeedInv
<1>3. Done \in Nat /\ Done + 1 \in DOMAIN config.file /\ Head(left) = config.file[Done + 1]
  BY <1>1, <1>2 DEF SeedInv, Done
<1>4. CASE ~Head(left).valid
  BY <1>3, <1>4 DEF Invalid
<1>5. CASE files[Head(left).id] # Absent
  <2>1. Head(left).id \in Ids /\ Head(left).id \in laid
    BY <1>1, <1>5, Names DEF SeedRecord, SeedsOnlyIntoEmptyStore
  <2>2. PICK l \in 1 .. Done : config.file[l].id = Head(left).id
    BY <2>1 DEF SeedInv
  <2>. QED BY <1>3, <2>2 DEF Invalid
<1>. QED BY <1>4, <1>5

LEMMA CauseStep ==
  ASSUME IInv, [Next]_vars
  PROVE  StartsFailForACause'
<1> USE DEF history
<1> DEFINE Cause == config.seed /\ (Invalid(config.file) \/ \E i \in Ids : files[i] = Torn)
<1>0. Types /\ PhaseInv
  BY DEF IInv
<1>1. ASSUME phase # "stopped", Exit("build"), UNCHANGED files, Cause
      PROVE  StartsFailForACause'
  <2>1. config' = config
    BY <1>1 DEF Exit
  <2>. QED BY <1>1, <2>1 DEF StartsFailForACause, Invalid
<1>2. CASE outcome' # "build"
  BY <1>2 DEF StartsFailForACause
<1>3. CASE outcome' = "build" /\ outcome = "build"
  <2>1. phase = "stopped" /\ writer = NoOne
    BY <1>0, <1>3, StartIsAlone DEF IInv, PhaseInv, Types
  <2>2. UNCHANGED <<files, config>> \/ \E seed \in BOOLEAN, file \in SeedFiles : Start(seed, file)
    <3>1. ASSUME NEW c \in Clients PROVE task[c] = Idle
      BY <1>0, <2>1 DEF PhaseInv
    <3>. QED BY <2>1, <3>1, IdleIsTask, Names
             DEF Next, StartStep, StopStep, OpenStore, CountRecords, ReadSeedFile, CreateSeed,
                 WriteSeed, EndSeeding, Listen, StartFails, Signal, ServeFails, Shutdown, Drained,
                 Timeout, Crash, Send, Call, Write, CallFails, WriteFails, Exit, vars, process
  <2>3. UNCHANGED <<files, config>>
    BY <1>3, <2>2 DEF Start
  <2>. QED BY <1>3, <2>3 DEF IInv, StartsFailForACause, Invalid
<1>4. CASE outcome' = "build" /\ outcome # "build"
  <2>1. CountRecords \/ ReadSeedFile \/ CreateSeed
    BY <1>4 DEF Next, StartStep, StopStep, OpenStore, WriteSeed, EndSeeding, Listen, StartFails,
                Signal, ServeFails, Shutdown, Drained, Timeout, Crash, Send, Call, Write,
                CallFails, WriteFails, Start, Exit, vars, process
  <2>2. phase \in {"counting", "reading", "seeding"} /\ Exit("build") /\ UNCHANGED files
    BY <1>4, <2>1 DEF CountRecords, ReadSeedFile, CreateSeed
  <2>3. config.seed
    BY <1>0, <2>2 DEF PhaseInv
  <2>4. Invalid(config.file) \/ \E i \in Ids : files[i] = Torn
    <3>1. CASE CountRecords
      BY <1>4, <3>1 DEF CountRecords
    <3>2. CASE ReadSeedFile
      BY <1>4, <3>2 DEF ReadSeedFile, Invalid
    <3>3. CASE CreateSeed
      BY <1>4, <3>3, RefusedRecord DEF CreateSeed, IInv
    <3>. QED BY <2>1, <3>1, <3>2, <3>3
  <2>. QED BY <1>1, <2>2, <2>3, <2>4
<1>. QED BY <1>2, <1>3, <1>4

-----------------------------------------------------------------------------
\* What clients were told is stored.

\* A step changes no kept record that no client asks to delete into anything
\* but a kept record.
LEMMA KeptRecords ==
  ASSUME Types, PhaseInv, WriterInv, KeptInv, [Next]_vars,
         NEW i \in Ids, i \notin dropped', files[i] \in Kept,
         writer = Boot => i # Head(left).id
  PROVE  files'[i] \in Kept
<1> USE Names, FilesAssumption DEF Kept, history
<1>1. CASE Ends
  BY <1>1 DEF Ends
<1>2. ASSUME NEW seed \in BOOLEAN, NEW file \in SeedFiles, Start(seed, file)
      PROVE  files'[i] \in Kept
  BY <1>2 DEF Start
<1>3. CASE Counted \/ SeedFileRead \/ SeedOpened
  BY <1>3, GoingOn DEF Types
<1>4. CASE WriteSeed
  BY <1>4 DEF WriteSeed, Types
<1>5. CASE Moves
  BY <1>5 DEF Moves, OpenStore, EndSeeding, Listen, Signal, Shutdown
<1>6. ASSUME NEW c \in Clients, NEW r \in Requests, Send(c, r)
      PROVE  files'[i] \in Kept
  BY <1>6 DEF Send
<1>7. ASSUME NEW c \in Clients, Call(c)
      PROVE  files'[i] \in Kept
  <2> DEFINE call == Head(task[c].todo)
  <2>1. CASE call.op = "delete"
    <3>1. task[c].todo \in Seq(Calls) /\ task[c].todo # <<>>
      BY <1>7, BusyTask DEF Call
    <3>2. call.id \in Named(task[c].todo, "delete")
      BY <2>1, <3>1, HeadAndTail DEF Named
    <3>3. call.id # i
      BY <1>7, <3>2 DEF KeptInv, Call
    <3>. QED BY <1>7, <2>1, <3>3 DEF Call, Types
  <2>2. CASE call.op # "delete"
    <3>1. UNCHANGED files \/ files' = [files EXCEPT ![call.id] = Torn]
      BY <1>7, <2>2 DEF Call
    <3>. QED BY <3>1 DEF Types
  <2>. QED BY <2>1, <2>2
<1>8. ASSUME NEW c \in Clients, Write(c)
      PROVE  files'[i] \in Kept
  BY <1>8 DEF Write, Written, Types
<1>9. ASSUME NEW c \in Clients, Fails(c)
      PROVE  files'[i] \in Kept
  BY <1>9 DEF Fails, CallFails, WriteFails
<1>10. CASE UNCHANGED vars
  BY <1>10 DEF vars
<1>. QED
  BY <1>1, <1>2, <1>3, <1>4, <1>5, <1>6, <1>7, <1>8, <1>9, <1>10, StepCases DEF Types

\* The calls of an operation, before and after the first one is made.
LEMMA NamedInRest ==
  ASSUME NEW s \in Seq(Calls), s # <<>>, NEW op
  PROVE  /\ Named(Tail(s), op) \subseteq Named(s, op)
         /\ Named(s, op) \subseteq Named(Tail(s), op) \cup {Head(s).id}
         /\ Head(s).op # op => Named(s, op) = Named(Tail(s), op)
         /\ Len(s) = 1 => Named(s, op) \subseteq {Head(s).id}
         /\ Head(s).op = op => Head(s).id \in Named(s, op)
<1>1. /\ Head(s) = s[1] /\ Len(s) \in Nat /\ 1 \in 1 .. Len(s) /\ DOMAIN s = 1 .. Len(s)
      /\ DOMAIN Tail(s) = 1 .. (Len(s) - 1)
      /\ \A k \in 1 .. (Len(s) - 1) : Tail(s)[k] = s[k + 1]
  BY HeadAndTail
<1>2. \A k \in 1 .. (Len(s) - 1) : k + 1 \in DOMAIN s
  BY <1>1
<1>3. \A k \in DOMAIN s : k = 1 \/ (k - 1 \in DOMAIN Tail(s) /\ Tail(s)[k - 1] = s[k])
  BY <1>1
<1>4. Named(Tail(s), op) \subseteq Named(s, op)
  BY <1>1, <1>2 DEF Named
<1>5. ASSUME NEW i \in Named(s, op)
      PROVE  (i = Head(s).id /\ Head(s).op = op) \/ (i \in Named(Tail(s), op) /\ Len(s) # 1)
  <2>1. PICK k \in DOMAIN s : s[k].op = op /\ s[k].id = i
    BY DEF Named
  <2>2. CASE k = 1
    BY <1>1, <2>1, <2>2
  <2>3. CASE k # 1
    <3>1. k - 1 \in DOMAIN Tail(s) /\ Tail(s)[k - 1] = s[k] /\ Len(s) # 1
      BY <1>1, <1>3, <2>3
    <3>. QED BY <2>1, <3>1 DEF Named
  <2>. QED BY <2>2, <2>3
<1>6. Head(s).op = op => Head(s).id \in Named(s, op)
  BY <1>1 DEF Named
<1>. QED BY <1>4, <1>5, <1>6

LEMMA IdleNames == \A op : Named(Idle.todo, op) = {}
BY DEF Named, Idle

\* What KeptInv says of one request.
TaskKept(t, gone, stored) ==
  /\ Named(t.todo, "delete") \subseteq gone
  /\ \A i \in t.made \ gone : i \in Named(t.todo, "create") \/ stored[i] \in Kept

LEMMA IdleKept == \A gone, stored : TaskKept(Idle, gone, stored)
BY IdleNames, IdleIsTask DEF TaskKept

\* A request that does not move is kept by the steps of others.
LEMMA OthersKept ==
  ASSUME Types, PhaseInv, WriterInv, KeptInv, [Next]_vars, NEW d \in Clients,
         UNCHANGED task[d], dropped \subseteq dropped'
  PROVE  TaskKept(task'[d], dropped', files')
<1>1. CASE task[d] = Idle
  BY <1>1, IdleKept DEF TaskKept
<1>2. CASE task[d] # Idle
  <2>1. writer # Boot
    BY <1>2, StartIsAlone DEF PhaseInv
  <2>2. task[d].made \subseteq Ids
    BY DEF Types
  <2>. QED BY <2>1, <2>2, KeptRecords DEF TaskKept, KeptInv
<1>. QED BY <1>1, <1>2

LEMMA TasksKept ==
  ASSUME Types, PhaseInv, WriterInv, KeptInv, [Next]_vars
  PROVE  /\ dropped \subseteq dropped'
         /\ \A d \in Clients : TaskKept(task'[d], dropped', files')
<1> USE DEF history
<1>1. CASE Ends
  <2>1. dropped' = dropped /\ task' = [c \in Clients |-> Idle]
    BY <1>1 DEF Ends, Exit
  <2>. QED BY <2>1, IdleKept DEF TaskKept
<1>2. CASE UNCHANGED <<task, dropped>>
  BY <1>2, OthersKept
<1>3. ASSUME NEW c \in Clients, NEW r \in Requests, Send(c, r)
      PROVE  /\ dropped \subseteq dropped'
             /\ \A d \in Clients : TaskKept(task'[d], dropped', files')
  <2>1. dropped' = dropped \cup Named(r, "delete") /\ UNCHANGED files
    BY <1>3 DEF Send
  <2>2. \A d \in Clients \ {c} : task'[d] = task[d]
    BY <1>3 DEF Send, Types
  <2>3. task'[c] = [todo |-> r, made |-> Named(r, "create")]
    BY <1>3 DEF Send, Types
  <2>4. TaskKept(task'[c], dropped', files')
    BY <2>1, <2>3 DEF TaskKept
  <2>. QED BY <2>1, <2>2, <2>4, OthersKept
<1>4. ASSUME NEW c \in Clients, Call(c) \/ Write(c)
      PROVE  /\ dropped \subseteq dropped'
             /\ \A d \in Clients : TaskKept(task'[d], dropped', files')
  <2> DEFINE s == task[c].todo
  <2>1. dropped' = dropped
    BY <1>4 DEF Call, Write
  <2>2. task[c] \in Task /\ s \in Seq(Calls) /\ s # <<>> /\ Head(s).id \in Ids
    BY <1>4, BusyTask DEF Call, Write, WriterInv
  <2>3. \A d \in Clients \ {c} : task'[d] = task[d]
    BY <1>4 DEF Call, Write, Types
  <2>4. CASE task'[c] = task[c]
    BY <2>1, <2>4, OthersKept, <2>3
  <2>5. CASE task'[c] = Idle
    BY <2>1, <2>3, <2>5, IdleKept, OthersKept DEF TaskKept
  <2>6. CASE task'[c] = Rest(task[c]) /\ Rest(task[c]) # Idle
    <3>1. Rest(task[c]).made = task[c].made /\ Rest(task[c]).todo = Tail(s)
      BY <2>2, <2>6, RestOfTask
    <3>2. Named(Tail(s), "delete") \subseteq dropped
      BY <2>2, NamedInRest DEF KeptInv
    <3>3. ASSUME NEW i \in task[c].made \ dropped
          PROVE  i \in Named(Tail(s), "create") \/ files'[i] \in Kept
      <4>1. i \in Ids /\ (i \in Named(s, "create") \/ files[i] \in Kept)
        BY DEF KeptInv, Types
      <4>2. writer # Boot
        BY <1>4, Names DEF Call, Write
      <4>3. CASE files[i] \in Kept
        BY <2>1, <4>1, <4>2, <4>3, KeptRecords
      <4>4. CASE i \in Named(s, "create") /\ i \notin Named(Tail(s), "create")
        <5>1. i = Head(s).id /\ Head(s).op = "create"
          BY <2>2, <4>4, NamedInRest
        <5>2. Write(c)
          <6>1. ASSUME Call(c)
                PROVE  task'[c] = Idle \/ task'[c] = task[c]
            BY <5>1, <6>1 DEF Call, Types
          <6>2. task[c] # Rest(task[c])
            <7>1. Len(Tail(s)) = Len(s) - 1 /\ Len(s) \in Nat
              BY <2>2, HeadAndTail
            <7>2. Len(Tail(s)) # Len(s)
              BY <7>1
            <7>. QED BY <3>1, <7>2
          <6>. QED BY <1>4, <2>6, <6>1, <6>2
        <5>. QED BY <4>1, <5>1, <5>2 DEF Write, Written, Kept, Types
      <4>. QED BY <4>1, <4>3, <4>4
    <3>4. TaskKept(task'[c], dropped', files')
      BY <2>1, <2>6, <3>1, <3>2, <3>3 DEF TaskKept
    <3>. QED BY <2>1, <2>3, <3>4, OthersKept
  <2>7. task'[c] = task[c] \/ task'[c] = Idle \/ task'[c] = Rest(task[c])
    BY <1>4 DEF Call, Write, Types
  <2>. QED BY <2>4, <2>5, <2>6, <2>7
<1>5. ASSUME NEW c \in Clients, Fails(c)
      PROVE  /\ dropped \subseteq dropped'
             /\ \A d \in Clients : TaskKept(task'[d], dropped', files')
  <2>1. dropped' = dropped /\ task' = [task EXCEPT ![c] = Idle]
    BY <1>5 DEF Fails, CallFails, WriteFails
  <2>2. task'[c] = Idle /\ \A d \in Clients \ {c} : task'[d] = task[d]
    BY <2>1 DEF Types
  <2>. QED BY <2>1, <2>2, IdleKept, OthersKept
<1>. QED
  BY <1>1, <1>2, <1>3, <1>4, <1>5, StepCases, GoingOn
  DEF Types, Start, WriteSeed, Moves, OpenStore, EndSeeding, Listen, Signal, Shutdown, vars, process

\* A record is acknowledged after the last call of its request, when there is
\* none of its creations left to be made.
LEMMA AckedKept ==
  ASSUME Types, PhaseInv, WriterInv, KeptInv, [Next]_vars
  PROVE  \A i \in acked' \ dropped' : files'[i] \in Kept
<1> USE DEF history
<1> SUFFICES ASSUME NEW i \in acked' \ dropped' PROVE files'[i] \in Kept
  OBVIOUS
<1>1. dropped \subseteq dropped'
  BY TasksKept
<1>2. CASE i \in acked
  <2>1. i \in Ids /\ files[i] \in Kept /\ (writer = Boot => i # Head(left).id)
    BY <1>1, <1>2 DEF KeptInv, Types
  <2>. QED BY <2>1, KeptRecords
<1>3. CASE i \notin acked
  <2>1. PICK c \in Clients : Write(c) /\ Len(task[c].todo) = 1 /\ i \in task[c].made
    BY <1>3, StepCases, GoingOn
    DEF Ends, Exit, Start, WriteSeed, Moves, OpenStore, EndSeeding, Listen, Signal, Shutdown,
        Send, Call, Write, Fails, CallFails, WriteFails, Types, vars, process
  <2>2. i \in Ids /\ (i \in Named(task[c].todo, "create") \/ files[i] \in Kept)
    BY <1>1, <2>1 DEF KeptInv, Types
  <2>3. CASE files[i] \in Kept
    BY <2>1, <2>2, <2>3, Names, KeptRecords DEF Write
  <2>4. CASE i \in Named(task[c].todo, "create")
    <3>1. i = Head(task[c].todo).id
      BY <2>1, <2>4, BusyTask, NamedInRest DEF Write, WriterInv
    <3>. QED BY <2>1, <2>2, <3>1 DEF Write, Written, Kept, Types
  <2>. QED BY <2>2, <2>3, <2>4
<1>. QED BY <1>2, <1>3

LEMMA KeptStep ==
  ASSUME Types, PhaseInv, WriterInv, KeptInv, [Next]_vars
  PROVE  KeptInv'
<1>1. \A i \in acked' \ dropped' : files'[i] \in Kept
  BY AckedKept
<1>2. writer' = Boot => Head(left').id \notin acked' \ dropped'
  <2>1. CASE SeedOpened
    <3>1. files[Head(left).id] \notin Kept
      BY <2>1, GoingOn, FilesAssumption DEF Kept
    <3>. QED BY <2>1, <3>1, GoingOn DEF KeptInv, history
  <2>2. CASE writer' = Boot /\ ~SeedOpened
    <3>1. UNCHANGED <<writer, left, acked>> /\ dropped \subseteq dropped'
      BY <2>2, Names, StepCases, GoingOn, StartIsAlone, TasksKept
      DEF Ends, Exit, Start, WriteSeed, Moves, OpenStore, EndSeeding, Listen, Signal, Shutdown,
          Send, Call, Write, Fails, CallFails, WriteFails, Types, vars, process, history, WriterInv
    <3>. QED BY <2>2, <3>1 DEF KeptInv
  <2>. QED BY <2>1, <2>2
<1>. QED BY <1>1, <1>2, TasksKept DEF KeptInv, TaskKept

-----------------------------------------------------------------------------
\* The invariant, and what follows from it.

LEMMA IInvInit == Init => IInv
<1> SUFFICES ASSUME Init PROVE IInv
  OBVIOUS
<1>1. PhaseInv /\ WriterInv
  BY Names DEF Init, PhaseInv, WriterInv
<1>2. SeedInv /\ SeedsOnlyIntoEmptyStore /\ StartsFailForACause
  BY DEF Init, SeedInv, SeedsOnlyIntoEmptyStore, StartsFailForACause
<1>3. KeptInv
  BY Names, IdleKept DEF Init, KeptInv, TaskKept
<1>4. OnlyCutsTear
  BY FilesAssumption, Names DEF Init, OnlyCutsTear, BeingWritten
<1>. QED BY <1>1, <1>2, <1>3, <1>4, TypesInit DEF IInv

LEMMA IInvStep ==
  ASSUME IInv, [Next]_vars
  PROVE  IInv'
BY TypesStep, PhaseStep, WriterStep, SeedStep, KeptStep, TearStep, OwnFilesStep, CauseStep
DEF IInv

\* Whoever writes is where its file is truncated, what is left to seed is the
\* end of the seed file, and what was answered is stored: the files and the
\* places of the process and of its requests agree in every state.
THEOREM Invariance == Spec => []IInv
<1>1. IInv /\ [Next]_vars => IInv'
  BY IInvStep
<1>. QED BY <1>1, IInvInit, PTL DEF Spec

\* A request is in progress only while the process serves or drains, and a
\* seed record is left only while it seeds.
THEOREM Typing == Spec => []TypeOK
<1>1. IInv => TypeOK
  <2> SUFFICES ASSUME IInv PROVE TypeOK
    OBVIOUS
  <2>1. Types /\ PhaseInv /\ WriterInv
    BY DEF IInv
  <2>2. writer = Boot => phase = "seeding" /\ left # <<>>
    BY <2>1 DEF WriterInv, PhaseInv
  <2>3. writer \in Clients => task[writer] # Idle
    BY <2>1, IdleIsTask DEF WriterInv
  <2>. QED BY <2>1, <2>2, <2>3 DEF Types, PhaseInv, Phases, TypeOK
<1>. QED BY <1>1, Invariance, PTL

\* Whatever ended the processes before, a start creates seed records only in a
\* store without memory records.
THEOREM SeedingNeedsEmptiness == Spec => []SeedsOnlyIntoEmptyStore
<1>1. IInv => SeedsOnlyIntoEmptyStore
  BY DEF IInv
<1>. QED BY <1>1, Invariance, PTL

\* A store that is served has all of its seed file or none of it, unless a
\* start ended while it was seeding.
THEOREM SeedingIsWhole == Spec => []ServesAllSeedsOrNone
<1>1. IInv => ServesAllSeedsOrNone
  BY DEF IInv, SeedInv, ServesAllSeedsOrNone
<1>. QED BY <1>1, Invariance, PTL

\* Only the file being written is torn, and the one whose last write an I/O error
\* or the end of its process has cut; an orderly stop cuts none.
THEOREM StopsAreClean == Spec => []OnlyCutsTear
<1>1. IInv => OnlyCutsTear
  BY DEF IInv
<1>. QED BY <1>1, Invariance, PTL

\* A record whose creation was answered stays until a client asks to delete
\* it, through any number of failures, starts and ends of the process.
THEOREM AnswersAreDurable == Spec => []AcknowledgedRecordsStay
<1>1. IInv => AcknowledgedRecordsStay
  <2> SUFFICES ASSUME IInv, NEW i \in acked \ dropped
               PROVE  \/ files[i] \in {"new", "recalled"}
                      \/ files[i] = Torn /\ (i \in hurt \/ BeingWritten(i))
    BY DEF AcknowledgedRecordsStay
  <2>1. i \in Ids /\ files[i] \in Kept
    BY DEF IInv, KeptInv, Types
  <2>2. files[i] = Torn => i \in hurt \/ BeingWritten(i)
    BY <2>1 DEF IInv, OnlyCutsTear
  <2>. QED BY <2>1, <2>2 DEF Kept
<1>. QED BY <1>1, Invariance, PTL

\* A start whose own system calls succeed fails only when it is to seed, over
\* its seed file or over a torn file.
THEOREM FailuresHaveCauses == Spec => []StartsFailForACause
<1>1. IInv => StartsFailForACause
  BY DEF IInv
<1>. QED BY <1>1, Invariance, PTL

\* A start leaves what it finds, even if it fails.
THEOREM StartsKeepRecords == Spec => StartNeverChangesRecords
<1>1. ASSUME IInv, [Next]_vars
      PROVE  \A i \in Ids : phase \in Starting /\ files'[i] # files[i] =>
               files[i] = Absent \/ (writer = Boot /\ i = Head(left).id)
  <2> SUFFICES ASSUME NEW i \in Ids, phase \in Starting, files'[i] # files[i]
               PROVE  files[i] = Absent \/ (writer = Boot /\ i = Head(left).id)
    OBVIOUS
  <2>0. files' # files
    OBVIOUS
  <2>1. Types /\ PhaseInv /\ WriterInv /\ ~Ends /\ phase \notin {"serving", "draining"}
    BY <1>1, <2>0 DEF IInv, Ends, Starting
  <2>2. CASE SeedOpened
    BY <2>1, <2>2, GoingOn DEF Types
  <2>3. CASE WriteSeed
    BY <2>1, <2>3 DEF WriteSeed, Types
  <2>4. CASE UNCHANGED files
    BY <2>4
  <2>. QED
    BY <1>1, <2>1, <2>2, <2>3, <2>4, SeedingSteps, GoingOn
    DEF Start, Moves, OpenStore, EndSeeding, Listen, Signal, Shutdown, vars
<1>. QED BY <1>1, Invariance, PTL DEF Spec, StartNeverChangesRecords

=============================================================================
