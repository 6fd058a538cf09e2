------------------------ MODULE FileStoreRefinement -------------------------
(***************************************************************************)
(* Without failures FileStore implements AtomicStore: the proof that every *)
(* call takes effect at one instant, for every number of clients.          *)
(***************************************************************************)
EXTENDS FileStoreProofs

\* The interface of the two specifications is the same module.
LEMMA SameInterface ==
  /\ Atomic!Requests = Requests
  /\ Atomic!Paths = Paths
  /\ Atomic!Nothing = Nothing
  /\ Atomic!NoAnswer = NoAnswer
BY DEF Atomic!Requests, Requests, Atomic!Paths, Paths, Atomic!Nothing, Nothing,
       Atomic!NoAnswer, NoAnswer, Atomic!Error, Error, Atomic!Supports, Supports

LEMMA SameAnswers ==
  ASSUME NEW s, NEW r
  PROVE  Atomic!Answer(s, r) = Answer(s, r) /\ Atomic!Effect(s, r) = Effect(s, r)
BY DEF Atomic!Answer, Answer, Atomic!Effect, Effect, Atomic!IsMalformed, IsMalformed,
       Atomic!IsRead, IsRead, Atomic!Listing, Listing, Atomic!Paths, Paths,
       Atomic!Ok, Ok, Atomic!Error, Error

-----------------------------------------------------------------------------

NoFaults == faults = 0 /\ damaged = {}

RInv == IInv /\ NoFaults

LEMMA NoFaultsYet == Spec => []NoFaults
<1>1. Init => NoFaults
  BY DEF Init, NoFaults
<1>2. NoFaults /\ [Next]_vars => NoFaults'
  BY DEF NoFaults, Next, Progress, ReadStep, WriteStep, Call, Lock, Reject, Accept, Reply,
         RLock, ReadFile, ReadDir, EndScan, RUnlock, ScanFile, Stat, Truncate, Write, Unlock, vars
<1>. QED BY <1>1, <1>2, PTL DEF Spec

LEMMA RInvariant == Spec => []RInv
BY Invariant, NoFaultsYet, PTL DEF RInv

\* Only the file being written is torn; with no write in progress the
\* abstract store is the directories.
LEMMA BarIsFiles ==
  ASSUME RInv, owner = NoOne \/ pc[owner] # "write"
  PROVE  storeBar = files /\ \A p \in Paths : files[p] # Torn
BY DEF RInv, NoFaults, IInv, TypeOK, DamageConfined, BeingWritten, storeBar

bar == <<storeBar, req, phaseBar, outBar>>

-----------------------------------------------------------------------------
\* Steps inside a call that the atomic store does not see.

LEMMA AcceptStutters ==
  ASSUME RInv, NEW c \in Clients, Accept(c) \/ ReadDir(c) \/ RLock(c) \/ Lock(c)
  PROVE  UNCHANGED bar
<1> USE DEF RInv, IInv, TypeOK, lock
<1>1. files' = files /\ req' = req /\ out' = out
  BY DEF Accept, ReadDir, RLock, Lock
<1>2. storeBar' = storeBar
  <2>1. CASE owner' = owner
    BY <1>1, <2>1 DEF storeBar
  <2>2. CASE Lock(c)
    <3>1. owner = NoOne /\ \A p \in Paths : files[p] # Torn
      BY <2>2, BarIsFiles DEF Lock
    <3>. QED BY <1>1, <3>1 DEF storeBar
  <2>. QED BY <2>1, <2>2 DEF Accept, ReadDir, RLock
<1>3. pc[c] \in {"check", "read", "rlock", "lock"} /\ pc'[c] \in {"rlock", "lock", "scan", "read", "parked", "stat"}
  BY DEF Accept, ReadDir, RLock, Lock, Goto
<1>4. \A d \in Clients \ {c} : pc'[d] = pc[d]
  BY DEF Accept, ReadDir, RLock, Lock, Goto
<1>5. phaseBar' = phaseBar
  BY <1>3, <1>4 DEF phaseBar, Served
<1>6. outBar' = outBar
  BY <1>1, <1>3, <1>4 DEF outBar
<1>. QED BY <1>1, <1>2, <1>5, <1>6 DEF bar

LEMMA ScanFileStutters ==
  ASSUME RInv, NEW c \in Clients, NEW p \in Paths, ScanFile(c, p)
  PROVE  UNCHANGED bar
<1> USE DEF RInv, IInv, TypeOK, lock
<1>1. owner = NoOne \/ pc[owner] # "write"
  BY DEF ScanFile, LockInv, Reading
<1>2. files[p] \in Values
  BY <1>1, BarIsFiles DEF ScanFile, ScanInv
<1>3. UNCHANGED <<files, owner, req, pc, out>>
  BY <1>2 DEF ScanFile
<1>. QED BY <1>3 DEF bar, storeBar, phaseBar, outBar, Served

LEMMA WriteStutters ==
  ASSUME RInv, NEW c \in Clients, Write(c)
  PROVE  UNCHANGED bar
<1> USE ValuesAssumption DEF RInv, IInv, TypeOK, lock
<1>1. c = owner /\ req[c] \in Requests /\ req[c].path \in Paths /\ req[c].val \in Values
  BY RequestShape DEF Write, LockInv, RequestInv, Writing, IsRead
<1>2. \A p \in Paths : files[p] = Torn <=> p = req[c].path
  BY <1>1 DEF DamageConfined, BeingWritten, NoFaults, Write, RequestInv
<1>3. storeBar' = storeBar
  BY <1>1, <1>2 DEF Write, storeBar
<1>4. pc[c] = "write" /\ pc'[c] = "unlock" /\ \A d \in Clients \ {c} : pc'[d] = pc[d]
  BY DEF Write, Goto
<1>5. phaseBar' = phaseBar
  BY <1>4 DEF phaseBar, Served
<1>6. outBar' = outBar
  BY <1>4 DEF outBar, Write
<1>. QED BY <1>3, <1>5, <1>6 DEF bar, Write

-----------------------------------------------------------------------------
\* Steps the atomic store sees: the call, the instant it takes effect, and
\* its return.

LEMMA CallIsCall ==
  ASSUME RInv, NEW c \in Clients, NEW r \in Requests, Call(c, r)
  PROVE  Atomic!Call(c, r)
<1> USE DEF RInv, IInv, TypeOK, lock
<1>1. pc[c] = "idle" /\ pc'[c] = "check" /\ \A d \in Clients \ {c} : pc'[d] = pc[d] /\ req'[d] = req[d]
  BY DEF Call, Goto
<1>2. phaseBar[c] = "idle" /\ phaseBar' = [phaseBar EXCEPT ![c] = "called"]
  BY <1>1 DEF phaseBar, Served
<1>3. outBar' = outBar
  BY <1>1 DEF Call, outBar
<1>4. storeBar' = storeBar
  <2>1. \A p \in Paths : files[p] = Torn => owner \in Clients /\ owner # c
    BY <1>1 DEF DamageConfined, BeingWritten, NoFaults
  <2>. QED BY <1>1, <2>1 DEF Call, storeBar
<1>. QED BY <1>2, <1>3, <1>4 DEF Atomic!Call, Call

\* What Serve asks of a step: the answer and the effect of the request on the
\* directories as they were.
LEMMA ServeShape ==
  ASSUME NEW c \in Clients,
         pc \in [Clients -> Labels],
         req' = req,
         pc[c] # "idle", ~Served(c), Served(c)', pc'[c] # "idle",
         \A d \in Clients \ {c} : pc'[d] = pc[d],
         \A d \in Clients \ {c} : outBar'[d] = outBar[d],
         outBar'[c] = Answer(storeBar, req[c]),
         storeBar' = Effect(storeBar, req[c])
  PROVE  Atomic!Serve(c)
<1>1. phaseBar[c] = "called" /\ phaseBar' = [phaseBar EXCEPT ![c] = "served"]
  BY DEF phaseBar, Served
<1>2. outBar' = [outBar EXCEPT ![c] = Answer(storeBar, req[c])]
  BY DEF outBar
<1>. QED BY <1>1, <1>2, SameAnswers DEF Atomic!Serve

LEMMA RejectIsServe ==
  ASSUME RInv, NEW c \in Clients, Reject(c)
  PROVE  Atomic!Serve(c)
<1> USE DEF RInv, IInv, TypeOK, lock
<1>1. UNCHANGED <<files, owner, req>> /\ pc[c] = "check" /\ IsMalformed(req[c])
  BY DEF Reject
<1>2. pc'[c] = "reply" /\ \A d \in Clients \ {c} : pc'[d] = pc[d] /\ out'[d] = out[d]
  BY DEF Reject, Goto
<1>3. Answer(storeBar, req[c]) = Error("invalid") /\ Effect(storeBar, req[c]) = storeBar
  BY <1>1 DEF Answer, Effect, IsMalformed, IsRead, Error
<1>4. storeBar' = storeBar
  BY <1>1 DEF storeBar
<1>5. outBar'[c] = Error("invalid") /\ \A d \in Clients \ {c} : outBar'[d] = outBar[d]
  BY <1>1, <1>2 DEF outBar, Reject
<1>. QED BY <1>1, <1>2, <1>3, <1>4, <1>5, ServeShape DEF Served

\* A reader that is inside the lock sees the abstract store in the files.
LEMMA ReaderSeesStore ==
  ASSUME RInv, NEW c \in Clients, pc[c] \in Reading \cup {"stat"}
  PROVE  storeBar = files /\ files \in [Paths -> Values \cup {Absent}]
<1>1. owner = NoOne \/ pc[owner] # "write"
  BY DEF RInv, IInv, LockInv, Reading, Writing, TypeOK
<1>. QED BY <1>1, BarIsFiles DEF RInv, IInv, TypeOK

\* A call whose answer becomes known while the directories stay as they are.
LEMMA AnswerIsServe ==
  ASSUME RInv, NEW c \in Clients, NEW label \in {"runlock", "unlock"},
         pc[c] \in {"read", "scan", "stat"}, Goto(c, label),
         UNCHANGED <<files, owner, req>>,
         out' = [out EXCEPT ![c] = Answer(files, req[c])],
         Effect(files, req[c]) = files
  PROVE  Atomic!Serve(c)
<1> USE DEF RInv, IInv, TypeOK, lock
<1>1. pc'[c] = label /\ \A d \in Clients \ {c} : pc'[d] = pc[d] /\ out'[d] = out[d]
  BY DEF Goto
<1>2. storeBar = files
  BY ReaderSeesStore DEF Reading
<1>3. storeBar' = storeBar
  <2>1. owner = NoOne \/ (owner \in Clients /\ owner # c) \/ owner = c
    OBVIOUS
  <2>. QED BY DEF storeBar
<1>4. outBar'[c] = Answer(files, req[c]) /\ \A d \in Clients \ {c} : outBar'[d] = outBar[d]
  BY <1>1 DEF outBar
<1>. QED BY <1>1, <1>2, <1>3, <1>4, ServeShape DEF Served

LEMMA ReadFileIsServe ==
  ASSUME RInv, NEW c \in Clients, ReadFile(c)
  PROVE  Atomic!Serve(c)
<1> USE ValuesAssumption DEF RInv, IInv, TypeOK, lock
<1>1. files \in [Paths -> Values \cup {Absent}]
  BY ReaderSeesStore DEF ReadFile, Reading
<1>2. req[c] \in Requests /\ req[c].op = "get" /\ req[c].path \in Paths
  BY RequestShape DEF ReadFile, RequestInv
<1>3. /\ out' = [out EXCEPT ![c] = Answer(files, req[c])]
      /\ Effect(files, req[c]) = files
  BY <1>1, <1>2 DEF ReadFile, Answer, Effect, IsRead, IsMalformed
<1>. QED BY <1>3, AnswerIsServe DEF ReadFile

LEMMA EndScanIsServe ==
  ASSUME RInv, NEW c \in Clients, EndScan(c)
  PROVE  Atomic!Serve(c)
<1> USE DEF RInv, IInv, TypeOK, lock
<1>1. req[c].op = "scan"
  BY DEF EndScan, RequestInv
<1>2. got[c] = Listing(files, req[c].dir)
  BY DEF EndScan, ScanInv, Listing
<1>3. /\ out' = [out EXCEPT ![c] = Answer(files, req[c])]
      /\ Effect(files, req[c]) = files
  BY <1>1, <1>2 DEF EndScan, Answer, Effect, IsRead, IsMalformed
<1>. QED BY <1>3, AnswerIsServe DEF EndScan

\* Stat decides a write that fails and a delete; a create or an update that
\* may go on has no answer yet.
LEMMA StatIsServe ==
  ASSUME RInv, NEW c \in Clients, Stat(c)
  PROVE  Atomic!Serve(c) \/ UNCHANGED bar
<1> USE ValuesAssumption DEF RInv, IInv, TypeOK, lock
<1>1. files \in [Paths -> Values \cup {Absent}] /\ storeBar = files
  BY ReaderSeesStore DEF Stat
<1>2. req[c] \in Requests /\ ~IsRead(req[c]) /\ ~IsMalformed(req[c]) /\ req[c].path \in Paths
  BY RequestShape DEF Stat, RequestInv, Writing, IsRead
<1>3. UNCHANGED <<owner, req>> /\ owner = c /\ pc[c] = "stat"
  BY DEF Stat, LockInv, Writing
<1> DEFINE r == req[c]
           present == files[r.path] # Absent
<1>4. CASE (r.op = "create" /\ present) \/ (r.op \in {"update", "delete"} /\ ~present)
  <2>1. /\ out' = [out EXCEPT ![c] = Answer(files, r)]
        /\ Effect(files, r) = files
    BY <1>2, <1>4 DEF Stat, Answer, Effect, Error
  <2>. QED BY <1>3, <1>4, <2>1, AnswerIsServe DEF Stat
<1>5. CASE r.op = "delete" /\ present
  <2>1. /\ out' = [out EXCEPT ![c] = Answer(files, r)]
        /\ files' = Effect(files, r)
        /\ pc' = [pc EXCEPT ![c] = "unlock"]
    BY <1>2, <1>5 DEF Stat, Answer, Effect, Error, Ok, Goto, IsMalformed, IsRead
  <2>2. storeBar' = files'
    BY <1>1, <1>5, <1>2 DEF Stat, storeBar
  <2>3. pc'[c] = "unlock" /\ \A d \in Clients \ {c} : pc'[d] = pc[d] /\ out'[d] = out[d]
    BY <2>1
  <2>4. outBar'[c] = Answer(files, r) /\ \A d \in Clients \ {c} : outBar'[d] = outBar[d]
    BY <1>3, <2>1, <2>3 DEF outBar
  <2>. QED BY <1>1, <1>3, <2>1, <2>2, <2>3, <2>4, ServeShape DEF Served
<1>6. CASE (r.op = "create" /\ ~present) \/ (r.op = "update" /\ present)
  <2>1. UNCHANGED <<files, out>> /\ pc' = [pc EXCEPT ![c] = "open"]
    BY <1>6 DEF Stat, Goto
  <2>2. storeBar' = storeBar
    BY <1>3, <2>1 DEF storeBar
  <2>3. phaseBar' = phaseBar
    BY <1>3, <2>1 DEF phaseBar, Served
  <2>4. outBar' = outBar
    BY <1>3, <2>1 DEF outBar
  <2>. QED BY <1>3, <2>2, <2>3, <2>4 DEF bar
<1>7. r.op \in {"create", "update", "delete"}
  BY <1>2, RequestShape DEF IsRead
<1>. QED BY <1>4, <1>5, <1>6, <1>7

\* A create or an update takes effect when the file is truncated: nobody can
\* look at it before it is written.
LEMMA TruncateIsServe ==
  ASSUME RInv, NEW c \in Clients, Truncate(c)
  PROVE  Atomic!Serve(c)
<1> USE ValuesAssumption DEF RInv, IInv, TypeOK, lock
<1>1. pc[c] = "open" /\ owner = c /\ UNCHANGED <<owner, req, out>>
  BY DEF Truncate, LockInv, Writing
<1>2. storeBar = files /\ \A p \in Paths : files[p] # Torn
  BY <1>1, BarIsFiles
<1>3. /\ req[c] \in Requests /\ req[c].op \in {"create", "update"} /\ req[c].path \in Paths
      /\ ~IsMalformed(req[c]) /\ req[c].val \in Values
      /\ files[req[c].path] = Absent <=> req[c].op = "create"
  BY <1>1, RequestShape DEF RequestInv, Writing
<1>4. Answer(files, req[c]) = Ok(req[c].val)
  BY <1>3 DEF Answer
<1>5. Effect(files, req[c]) = [files EXCEPT ![req[c].path] = req[c].val]
  BY <1>3, <1>4 DEF Effect, Ok, IsRead
<1>6. storeBar' = [files EXCEPT ![req[c].path] = req[c].val]
  BY <1>1, <1>2, <1>3 DEF storeBar, Truncate
<1>7. pc'[c] = "write" /\ \A d \in Clients \ {c} : pc'[d] = pc[d]
  BY DEF Truncate, Goto
<1>8. outBar'[c] = Ok(req[c].val) /\ \A d \in Clients \ {c} : outBar'[d] = outBar[d]
  BY <1>1, <1>7 DEF outBar
<1>. QED BY <1>1, <1>2, <1>4, <1>5, <1>6, <1>7, <1>8, ServeShape DEF Served

-----------------------------------------------------------------------------

LEMMA ReturnIsReturn ==
  ASSUME RInv, NEW c \in Clients, Reply(c) \/ RUnlock(c) \/ Unlock(c)
  PROVE  Atomic!Return(c)
<1> USE DEF RInv, IInv, TypeOK, lock
<1>1. files' = files /\ Forget(c) /\ pc[c] \in {"reply", "runlock", "unlock"} /\ pc'[c] = "idle"
  BY DEF Reply, RUnlock, Unlock, Goto
<1>2. \A d \in Clients \ {c} : pc'[d] = pc[d] \/ (pc[d] = "parked" /\ pc'[d] = "read")
  <2>1. CASE Unlock(c)
    BY <2>1 DEF Unlock, LockInv
  <2>. QED BY <2>1 DEF Reply, RUnlock, Goto
<1>3. phaseBar[c] = "served" /\ phaseBar' = [phaseBar EXCEPT ![c] = "idle"]
  BY <1>1, <1>2 DEF phaseBar, Served
<1>4. outBar' = [outBar EXCEPT ![c] = NoAnswer]
  BY <1>1, <1>2 DEF outBar, Forget
<1>5. storeBar' = storeBar
  <2>1. CASE Unlock(c)
    <3>1. storeBar = files /\ \A p \in Paths : files[p] # Torn
      BY <2>1, <1>1, BarIsFiles DEF Unlock, LockInv, Writing
    <3>. QED BY <3>1, <1>1 DEF storeBar
  <2>2. CASE Reply(c) \/ RUnlock(c)
    <3>1. owner' = owner /\ owner # c /\ \A d \in Clients \ {c} : req'[d] = req[d]
      BY <2>2, <1>1 DEF Reply, RUnlock, Forget, LockInv, Writing
    <3>2. \A p \in Paths : files[p] = Torn => owner \in Clients
      BY DEF DamageConfined, BeingWritten, NoFaults
    <3>. QED BY <3>1, <3>2, <1>1 DEF storeBar
  <2>. QED BY <2>1, <2>2
<1>. QED BY <1>1, <1>3, <1>4, <1>5, SameInterface DEF Atomic!Return, Forget

LEMMA InitIsInit == Init => Atomic!Init
<1> SUFFICES ASSUME Init PROVE Atomic!Init
  OBVIOUS
<1>1. storeBar = Nothing
  BY ValuesAssumption DEF Init, storeBar, Nothing
<1>2. phaseBar = [c \in Clients |-> "idle"] /\ outBar = [c \in Clients |-> NoAnswer]
  BY DEF Init, phaseBar, outBar
<1>. QED BY <1>1, <1>2, SameInterface DEF Atomic!Init, Init

LEMMA StepIsStep ==
  ASSUME RInv, [Next]_vars
  PROVE  [Atomic!Next]_(Atomic!vars)
<1>1. ASSUME NEW c \in Clients, ClientStep(c), ~IOError(c)
      PROVE  UNCHANGED bar \/ Atomic!Serve(c) \/ Atomic!Return(c)
             \/ \E r \in Requests : Atomic!Call(c, r)
  BY <1>1, CallIsCall, AcceptStutters, ScanFileStutters, WriteStutters, RejectIsServe,
     ReadFileIsServe, EndScanIsServe, StatIsServe, TruncateIsServe, ReturnIsReturn
     DEF ClientStep
<1>2. UNCHANGED vars => UNCHANGED bar
  BY DEF vars, lock, bar, storeBar, phaseBar, outBar, Served
<1>3. UNCHANGED vars \/ \E c \in Clients : ClientStep(c)
  BY DEF Next, Progress, ReadStep, WriteStep, ClientStep
<1>4. [Next]_vars => faults' = faults
  BY DEF vars, Next, Progress, ReadStep, WriteStep, Call, Lock, Reject, Accept, Reply,
         RLock, ReadFile, ReadDir, EndScan, RUnlock, ScanFile, Stat, Truncate, Write, Unlock
<1>5. \A c \in Clients : faults' = faults => ~IOError(c)
  BY DEF RInv, IInv, TypeOK, IOError
<1>. QED BY <1>1, <1>2, <1>3, <1>4, <1>5, SameInterface DEF bar, Atomic!Next, Atomic!vars

\* Every behaviour of the file store without failures is a behaviour of the
\* atomic store (file_store.go: each method holds the mutex while it works).
THEOREM Refinement == Spec => ImplementsAtomicStore
<1>1. Init => Atomic!Init
  BY InitIsInit
<1>2. RInv /\ [Next]_vars => [Atomic!Next]_(Atomic!vars)
  BY StepIsStep
<1>. QED BY <1>1, <1>2, RInvariant, PTL DEF Spec, ImplementsAtomicStore, Atomic!Spec

=============================================================================
