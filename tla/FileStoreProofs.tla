-------------------------- MODULE FileStoreProofs ---------------------------
(***************************************************************************)
(* Machine-checked proofs about FileStore, for every set of clients,       *)
(* identifiers and contents and any number of failures.                    *)
(***************************************************************************)
EXTENDS FileStore, TLAPS

\* The requests of one client, and its steps; what TLAPS splits a step into.
ClientStep(c) ==
  \/ \E r \in Requests : Call(c, r)
  \/ Lock(c) \/ Reject(c) \/ Accept(c) \/ Reply(c)
  \/ RLock(c) \/ ReadFile(c) \/ ReadDir(c) \/ EndScan(c) \/ RUnlock(c)
  \/ \E p \in Paths : ScanFile(c, p)
  \/ Stat(c) \/ Truncate(c) \/ Write(c) \/ Unlock(c)
  \/ IOError(c)

\* Every step, failures included, is a client's step, a crash or a stutter.
LEMMA StepCases ==
  ASSUME [FaultyNext]_vars
  PROVE  (\E c \in Clients : ClientStep(c)) \/ Crash \/ UNCHANGED vars
BY DEF FaultyNext, Next, Progress, ReadStep, WriteStep, ClientStep

\* What a request can be, by its operation.
LEMMA RequestShape ==
  ASSUME NEW r \in Requests
  PROVE  /\ r.op \in {"create", "update", "delete", "get", "scan"}
         /\ r.op # "scan" => r.path \in Paths
         /\ r.op = "scan" => r.dir \in Dirs
         /\ r.op \in {"create", "update"} => r.val \in Values \cup Malformed
         /\ r.op \in {"create", "update"} /\ ~IsMalformed(r) => r.val \in Values
BY DEF Requests, IsMalformed

LEMMA AnswerTypes ==
  /\ NoAnswer \in Answers
  /\ \A tag \in {"invalid", "exists", "not found", "decode", "io"} : Error(tag) \in Answers
  /\ Ok(Absent) \in Answers
  /\ \A v \in Values : Ok(v) \in Answers
  /\ \A g \in [Paths -> Values \cup {Absent}] : Ok(g) \in Answers
BY DEF Answers, NoAnswer, Error, Ok

LEMMA NothingType == /\ Nothing \in [Paths -> Values \cup {Absent}]
                     /\ Nothing \in [Paths -> Values \cup {Absent, Torn}]
BY DEF Nothing

-----------------------------------------------------------------------------
\* The type invariant needs RequestInv: what a writer stores is a valid
\* content because Reject has filtered the others out.

LEMMA TypeInit == Init => TypeOK
<1> SUFFICES ASSUME Init PROVE TypeOK
  OBVIOUS
<1>1. pc \in [Clients -> Labels]
  BY DEF Init, Labels
<1>2. out \in [Clients -> Answers] /\ got \in [Clients -> [Paths -> Values \cup {Absent}]]
  BY AnswerTypes, NothingType DEF Init
<1>3. files \in [Paths -> Values \cup {Absent, Torn}]
  BY NothingType DEF Init
<1>4. faults \in Nat /\ damaged \in SUBSET Paths
  BY DEF Init
<1>. QED BY <1>1, <1>2, <1>3, <1>4 DEF Init, TypeOK

LEMMA TypeStep ==
  ASSUME TypeOK, LockInv, RequestInv, [FaultyNext]_vars
  PROVE  TypeOK'
<1> USE DEF TypeOK, lock
<1>1. ASSUME NEW c \in Clients, ClientStep(c)
      PROVE  TypeOK'
  <2>1. CASE \E r \in Requests : Call(c, r)
    BY <2>1 DEF Call, Goto, Labels
  <2>2. CASE Lock(c)
    BY <2>2 DEF Lock, Goto, Labels
  <2>3. CASE Reject(c)
    BY <2>3, AnswerTypes DEF Reject, Goto, Labels
  <2>4. CASE Accept(c)
    BY <2>4 DEF Accept, Goto, Labels
  <2>5. CASE Reply(c)
    BY <2>5, AnswerTypes, NothingType DEF Reply, Forget, Goto, Labels
  <2>6. CASE RLock(c)
    BY <2>6 DEF RLock, Goto, Labels
  <2>7. CASE ReadFile(c)
    <3>1. req[c] \in Requests /\ req[c].path \in Paths
      BY <2>7, RequestShape DEF ReadFile, RequestInv
    <3>2. files[req[c].path] \in Values \cup {Absent, Torn}
      BY <3>1
    <3>3. out' \in [Clients -> Answers]
      BY <2>7, <3>2, AnswerTypes DEF ReadFile
    <3>. QED BY <2>7, <3>3 DEF ReadFile, Goto, Labels
  <2>8. CASE ReadDir(c)
    BY <2>8 DEF ReadDir, Goto, Labels
  <2>9. CASE EndScan(c)
    BY <2>9, AnswerTypes DEF EndScan, Goto, Labels
  <2>10. CASE RUnlock(c)
    BY <2>10, AnswerTypes, NothingType DEF RUnlock, Forget, Goto, Labels
  <2>11. CASE \E p \in Paths : ScanFile(c, p)
    <3>1. PICK p \in Paths : ScanFile(c, p)
      BY <2>11
    <3>2. todo' \in [Clients -> SUBSET Paths]
      BY <3>1 DEF ScanFile
    <3>3. out' \in [Clients -> Answers]
      BY <3>1, AnswerTypes DEF ScanFile
    <3>4. got' \in [Clients -> [Paths -> Values \cup {Absent}]]
      <4>1. CASE files[p] \in Values
        <5>1. [got[c] EXCEPT ![p] = files[p]] \in [Paths -> Values \cup {Absent}]
          BY <4>1
        <5>2. got' = [got EXCEPT ![c] = [got[c] EXCEPT ![p] = files[p]]]
          BY <3>1, <4>1 DEF ScanFile
        <5>. QED BY <5>1, <5>2
      <4>. QED BY <3>1, <4>1 DEF ScanFile
    <3>5. pc' \in [Clients -> Labels]
      BY <3>1 DEF ScanFile, Goto, Labels
    <3>. QED BY <3>1, <3>2, <3>3, <3>4, <3>5 DEF ScanFile
  <2>12. CASE Stat(c)
    <3>1. req[c] \in Requests /\ req[c].path \in Paths
      BY <2>12, RequestShape DEF Stat, RequestInv, Writing, IsRead
    <3>2. files' \in [Paths -> Values \cup {Absent, Torn}]
      BY <2>12, <3>1 DEF Stat
    <3>3. out' \in [Clients -> Answers]
      BY <2>12, AnswerTypes DEF Stat
    <3>4. pc' \in [Clients -> Labels]
      BY <2>12 DEF Stat, Goto, Labels
    <3>5. damaged' \in SUBSET Paths
      BY <2>12 DEF Stat
    <3>. QED BY <2>12, <3>2, <3>3, <3>4, <3>5 DEF Stat
  <2>13. CASE Truncate(c)
    <3>1. req[c] \in Requests /\ req[c].path \in Paths
      BY <2>13, RequestShape DEF Truncate, RequestInv, Writing, IsRead
    <3>. QED BY <2>13, <3>1 DEF Truncate, Goto, Labels
  <2>14. CASE Write(c)
    <3>1. req[c] \in Requests /\ req[c].path \in Paths /\ req[c].val \in Values
      BY <2>14, RequestShape DEF Write, RequestInv, Writing, IsRead
    <3>2. damaged' \in SUBSET Paths
      BY <2>14 DEF Write
    <3>. QED BY <2>14, <3>1, <3>2, AnswerTypes DEF Write, Goto, Labels
  <2>15. CASE Unlock(c)
    BY <2>15, AnswerTypes, NothingType DEF Unlock, Forget, Labels
  <2>16. CASE IOError(c)
    <3>1. faults' \in Nat
      BY <2>16 DEF IOError
    <3>2. out' \in [Clients -> Answers]
      BY <2>16, AnswerTypes DEF IOError
    <3>3. pc' \in [Clients -> Labels]
      BY <2>16 DEF IOError, Goto, Labels
    <3>4. damaged' \in SUBSET Paths
      BY <2>16 DEF IOError, CutBy
    <3>. QED BY <2>16, <3>1, <3>2, <3>3, <3>4 DEF IOError
  <2>. QED
    BY <1>1, <2>1, <2>2, <2>3, <2>4, <2>5, <2>6, <2>7, <2>8, <2>9, <2>10,
       <2>11, <2>12, <2>13, <2>14, <2>15, <2>16 DEF ClientStep
<1>2. CASE Crash
  <2>1. faults' \in Nat
    BY <1>2 DEF Crash
  <2>2. pc' \in [Clients -> Labels]
    BY <1>2 DEF Crash, Labels
  <2>3. out' \in [Clients -> Answers] /\ got' \in [Clients -> [Paths -> Values \cup {Absent}]]
    BY <1>2, AnswerTypes, NothingType DEF Crash
  <2>4. damaged' \in SUBSET Paths
    BY <1>2 DEF Crash, CutBy
  <2>. QED BY <1>2, <2>1, <2>2, <2>3, <2>4 DEF Crash
<1>3. CASE UNCHANGED vars
  BY <1>3 DEF vars
<1>. QED BY <1>1, <1>2, <1>3, StepCases

-----------------------------------------------------------------------------
\* The lock.  A writer past Stat is alone: no reader is inside, and who is
\* inside is exactly who the lock says.

LEMMA LockInit == Init => LockInv
BY ClientsAssumption DEF Init, LockInv, Reading, Writing

LEMMA LockStep ==
  ASSUME TypeOK, LockInv, [FaultyNext]_vars
  PROVE  LockInv'
<1> USE ClientsAssumption DEF TypeOK, LockInv, Reading, Writing, lock
<1>1. ASSUME NEW c \in Clients, ClientStep(c)
      PROVE  LockInv'
  <2>1. CASE \E r \in Requests : Call(c, r)
    BY <2>1 DEF Call, Goto
  <2>2. CASE Lock(c)
    BY <2>2 DEF Lock, Goto
  <2>3. CASE Reject(c) \/ Accept(c) \/ Reply(c)
    BY <2>3 DEF Reject, Accept, Reply, Goto
  <2>4. CASE RLock(c)
    BY <2>4 DEF RLock, Goto
  <2>5. CASE ReadFile(c) \/ ReadDir(c) \/ EndScan(c) \/ \E p \in Paths : ScanFile(c, p)
    BY ZenonT(30), <2>5 DEF ReadFile, ReadDir, EndScan, ScanFile, Goto
  <2>6. CASE RUnlock(c)
    BY <2>6 DEF RUnlock, Goto
  <2>7. CASE Stat(c) \/ Truncate(c) \/ Write(c)
    BY ZenonT(30), <2>7 DEF Stat, Truncate, Write, Goto
  <2>8. CASE Unlock(c)
    BY <2>8 DEF Unlock
  <2>9. CASE IOError(c)
    BY <2>9 DEF IOError, Goto
  <2>. QED
    BY <1>1, <2>1, <2>2, <2>3, <2>4, <2>5, <2>6, <2>7, <2>8, <2>9 DEF ClientStep
<1>2. CASE Crash
  BY <1>2 DEF Crash
<1>3. CASE UNCHANGED vars
  BY <1>3 DEF vars
<1>. QED BY <1>1, <1>2, <1>3, StepCases

-----------------------------------------------------------------------------
\* Requests: what a client is doing fits what it was asked.

LEMMA RequestInit == Init => RequestInv
BY DEF Init, RequestInv, Reading, Writing

LEMMA RequestStep ==
  ASSUME TypeOK, LockInv, RequestInv, [FaultyNext]_vars
  PROVE  RequestInv'
<1> USE ClientsAssumption DEF TypeOK, RequestInv, Reading, Writing, lock
<1>1. ASSUME NEW c \in Clients, ClientStep(c)
      PROVE  RequestInv'
  <2>1. CASE \E r \in Requests : Call(c, r)
    BY <2>1 DEF Call, Goto
  <2>2. CASE Lock(c)
    BY <2>2 DEF Lock, Goto
  <2>3. CASE Reject(c) \/ Accept(c)
    BY <2>3 DEF Reject, Accept, Goto
  <2>4. CASE Reply(c) \/ RUnlock(c)
    BY <2>4 DEF Reply, RUnlock, Forget, Goto
  <2>5. CASE RLock(c)
    BY <2>5 DEF RLock, Goto
  <2>6. CASE ReadFile(c) \/ ReadDir(c) \/ EndScan(c) \/ \E p \in Paths : ScanFile(c, p)
    BY ZenonT(30), <2>6 DEF ReadFile, ReadDir, EndScan, ScanFile, Goto
  <2>7. CASE Stat(c)
    <3>1. c = owner /\ pc[c] = "stat" /\ req' = req
      BY <2>7 DEF Stat, LockInv
    <3>2. req[c] \in Requests /\ req[c].op \in {"create", "update", "delete"}
      BY <3>1, RequestShape DEF IsRead
    <3>3. pc'[c] \in {"unlock", "open"} /\ \A d \in Clients \ {c} : pc'[d] = pc[d]
      BY <2>7 DEF Stat, Goto
    <3>4. ASSUME pc'[c] = "open"
          PROVE  /\ req[c].op \in {"create", "update"}
                 /\ files' = files
                 /\ files[req[c].path] = Absent <=> req[c].op = "create"
      BY <2>7, <3>2, <3>4 DEF Stat, Goto
    <3>5. \A d \in Clients \ {c} : pc'[d] \notin {"open", "write"}
      BY <3>1, <3>3 DEF LockInv
    <3>6. req[c] \in Requests /\ ~IsRead(req[c]) /\ ~IsMalformed(req[c])
      BY <3>1
    <3>7. CASE pc'[c] = "unlock"
      BY <3>1, <3>3, <3>5, <3>6, <3>7
    <3>8. CASE pc'[c] = "open"
      BY <3>1, <3>3, <3>4, <3>5, <3>6, <3>8
    <3>. QED BY <3>3, <3>7, <3>8
  <2>10. CASE Truncate(c) \/ Write(c)
    <3>1. c = owner /\ pc[c] \in {"open", "write"} /\ req' = req
      BY <2>10 DEF Truncate, Write, LockInv
    <3>2. pc'[c] \in {"unlock", "write"} /\ \A d \in Clients \ {c} : pc'[d] = pc[d]
      BY <2>10 DEF Truncate, Write, Goto
    <3>3. \A d \in Clients \ {c} : pc'[d] \notin {"open", "write"}
      BY <3>1, <3>2 DEF LockInv
    <3>4. req[c] \in Requests /\ req[c].op \in {"create", "update"} /\ req[c].path \in Paths
      BY <3>1, RequestShape
    <3>5. pc'[c] = "write" => files'[req[c].path] = Torn
      BY <2>10, <3>4 DEF Truncate, Write, Goto
    <3>. QED BY <3>1, <3>2, <3>3, <3>4, <3>5
  <2>8. CASE Unlock(c)
    BY <2>8 DEF Unlock, Forget, LockInv
  <2>9. CASE IOError(c)
    BY <2>9 DEF IOError, Goto
  <2>. QED
    BY <1>1, <2>1, <2>2, <2>3, <2>4, <2>5, <2>6, <2>7, <2>8, <2>9, <2>10 DEF ClientStep
<1>2. CASE Crash
  BY <1>2 DEF Crash
<1>3. CASE UNCHANGED vars
  BY <1>3 DEF vars
<1>. QED BY <1>1, <1>2, <1>3, StepCases

-----------------------------------------------------------------------------
\* Files change only under the write lock, so not while anybody reads.

LEMMA FilesStep ==
  ASSUME TypeOK, LockInv, [FaultyNext]_vars
  PROVE  \/ files' = files
         \/ /\ owner # NoOne /\ active = {}
            /\ pc[owner] \in {"stat", "open", "write"}
            /\ \A p \in Paths : p # req[owner].path => files'[p] = files[p]
<1> USE ClientsAssumption DEF TypeOK, LockInv, Reading, Writing, lock
<1>1. ASSUME NEW c \in Clients, Stat(c) \/ Truncate(c) \/ Write(c)
      PROVE  /\ owner # NoOne /\ active = {}
             /\ pc[owner] \in {"stat", "open", "write"}
             /\ \A p \in Paths : p # req[owner].path => files'[p] = files[p]
  <2>1. c = owner /\ active = {} /\ pc[c] \in {"stat", "open", "write"}
    <3>1. pc[c] \in {"stat", "open", "write"} /\ (pc[c] = "stat" => active = {})
      BY <1>1 DEF Stat, Truncate, Write
    <3>. QED BY <3>1
  <2>2. \A p \in Paths : p # req[c].path => files'[p] = files[p]
    <3>1. files' = files \/ \E v : files' = [files EXCEPT ![req[c].path] = v]
      BY <1>1 DEF Stat, Truncate, Write
    <3>. QED BY <3>1
  <2>. QED BY <2>1, <2>2
<1>2. ASSUME NEW c \in Clients, ClientStep(c), ~(Stat(c) \/ Truncate(c) \/ Write(c))
      PROVE  files' = files
  BY <1>2 DEF ClientStep, Call, Lock, Reject, Accept, Reply, RLock, ReadFile, ReadDir,
              EndScan, RUnlock, ScanFile, Unlock, IOError
<1>3. CASE Crash \/ UNCHANGED vars
  BY <1>3 DEF Crash, vars
<1>. QED BY <1>1, <1>2, <1>3, StepCases

\* Listings.

LEMMA ScanInit == Init => ScanInv
BY DEF Init, ScanInv

LEMMA ScanStep ==
  ASSUME TypeOK, LockInv, RequestInv, ScanInv, [FaultyNext]_vars
  PROVE  ScanInv'
<1> USE ClientsAssumption DEF TypeOK, lock
<1>1. ASSUME NEW c \in Clients, ClientStep(c)
      PROVE  ScanInv'
  <2>1. CASE (\E r \in Requests : Call(c, r)) \/ Lock(c) \/ Reject(c) \/ Accept(c) \/ RLock(c)
    BY <2>1 DEF Call, Lock, Reject, Accept, RLock, Goto, ScanInv, Listing
  <2>2. CASE Reply(c) \/ RUnlock(c)
    <3>1. pc'[c] = "idle" /\ got'[c] = Nothing /\ files' = files
      BY <2>2 DEF Reply, RUnlock, Forget, Goto
    <3>2. \A d \in Clients \ {c} :
            pc'[d] = pc[d] /\ req'[d] = req[d] /\ got'[d] = got[d] /\ todo'[d] = todo[d]
      BY <2>2 DEF Reply, RUnlock, Forget, Goto
    <3>. QED BY <3>1, <3>2 DEF ScanInv, Listing
  <2>3. CASE ReadFile(c) \/ EndScan(c)
    <3>1. UNCHANGED <<files, req, todo, got>> /\ pc[c] \in {"read", "scan"}
      BY <2>3 DEF ReadFile, EndScan
    <3>2. pc'[c] = "runlock" /\ \A d \in Clients \ {c} : pc'[d] = pc[d]
      BY <2>3 DEF ReadFile, EndScan, Goto
    <3>. QED BY <3>1, <3>2 DEF ScanInv, Listing
  <2>4. CASE ReadDir(c)
    BY <2>4 DEF ReadDir, Goto, ScanInv, Listing, Nothing
  <2>5. CASE \E p \in Paths : ScanFile(c, p)
    BY <2>5 DEF ScanFile, Goto, ScanInv, Listing
  <2>6. CASE Stat(c) \/ Truncate(c) \/ Write(c)
    <3>1. active = {} /\ got' = got /\ todo' = todo
      BY <2>6 DEF Stat, Truncate, Write, LockInv
    <3>2. \A d \in Clients : pc[d] \notin {"scan", "runlock"}
      BY <3>1 DEF LockInv, Reading
    <3>3. pc'[c] \notin {"scan", "runlock"} /\ \A d \in Clients \ {c} : pc'[d] = pc[d]
      BY <2>6 DEF Stat, Truncate, Write, Goto
    <3>. QED BY <3>1, <3>2, <3>3 DEF ScanInv
  <2>7. CASE Unlock(c)
    BY <2>7 DEF Unlock, Forget, ScanInv, Listing, LockInv, Writing
  <2>8. CASE IOError(c)
    BY <2>8 DEF IOError, Goto, ScanInv, Listing
  <2>. QED
    BY <1>1, <2>1, <2>2, <2>3, <2>4, <2>5, <2>6, <2>7, <2>8 DEF ClientStep
<1>2. CASE Crash
  BY <1>2 DEF Crash, ScanInv
<1>3. CASE UNCHANGED vars
  BY <1>3 DEF vars, ScanInv, Listing
<1>. QED BY <1>1, <1>2, <1>3, StepCases

-----------------------------------------------------------------------------
\* Answers appear when a call has been served, and not before.

LEMMA AnswerInit == Init => AnswerInv
BY DEF Init, AnswerInv

LEMMA AnswerStep ==
  ASSUME TypeOK, LockInv, AnswerInv, [FaultyNext]_vars
  PROVE  AnswerInv'
<1> USE DEF TypeOK, lock, AnswerInv
<1>1. ASSUME NEW c \in Clients, ClientStep(c)
      PROVE  AnswerInv'
  <2>1. CASE (\E r \in Requests : Call(c, r)) \/ Lock(c) \/ Accept(c) \/ RLock(c) \/ ReadDir(c)
                \/ Truncate(c)
    BY <2>1 DEF Call, Lock, Accept, RLock, ReadDir, Truncate, Goto
  <2>2. CASE Reply(c) \/ RUnlock(c)
    BY <2>2 DEF Reply, RUnlock, Forget, Goto
  <2>3. CASE Unlock(c)
    BY <2>3 DEF Unlock, Forget, LockInv
  <2>4. CASE Reject(c) \/ ReadFile(c) \/ EndScan(c) \/ Write(c) \/ IOError(c)
    <3>1. pc'[c] \in {"reply", "runlock", "unlock"}
      BY <2>4 DEF Reject, ReadFile, EndScan, Write, IOError, Goto
    <3>2. \A d \in Clients \ {c} : pc'[d] = pc[d] /\ out'[d] = out[d]
      BY <2>4 DEF Reject, ReadFile, EndScan, Write, IOError, Goto
    <3>. QED BY <3>1, <3>2
  <2>5. CASE \E p \in Paths : ScanFile(c, p)
    BY <2>5 DEF ScanFile, Goto
  <2>6. CASE Stat(c)
    BY <2>6 DEF Stat, Goto
  <2>. QED BY <1>1, <2>1, <2>2, <2>3, <2>4, <2>5, <2>6 DEF ClientStep
<1>2. CASE Crash
  BY <1>2 DEF Crash
<1>3. CASE UNCHANGED vars
  BY <1>3 DEF vars
<1>. QED BY <1>1, <1>2, <1>3, StepCases

-----------------------------------------------------------------------------
\* Torn files: made by the writer that holds the lock and mended by it, or left
\* behind by the failure that cut this write.

LEMMA DamageInit == Init => DamageConfined
BY ValuesAssumption DEF Init, DamageConfined, BeingWritten, Nothing

\* Which files a step that leaves the files and the history alone may show as
\* being written: the same.
LEMMA DamageKept ==
  ASSUME DamageConfined, UNCHANGED <<files, damaged>>,
         \A p \in Paths : BeingWritten(p)' <=> BeingWritten(p)
  PROVE  DamageConfined'
BY DEF DamageConfined

\* What a failure adds to the history is the file being written.
LEMMA CutIsWrite ==
  ASSUME TypeOK, LockInv, NEW p \in Paths
  PROVE  /\ p \in CutBy(Clients) <=> BeingWritten(p)
         /\ \A c \in Clients : pc[c] \in Writing => (p \in CutBy({c}) <=> BeingWritten(p))
BY ClientsAssumption DEF TypeOK, LockInv, CutBy, BeingWritten, Writing

LEMMA DamageStep ==
  ASSUME TypeOK, LockInv, RequestInv, DamageConfined, [FaultyNext]_vars
  PROVE  DamageConfined'
<1> USE ClientsAssumption, ValuesAssumption DEF TypeOK, lock
<1>1. ASSUME NEW c \in Clients, ClientStep(c)
      PROVE  DamageConfined'
  <2>1. CASE IOError(c)
    <3>1. CASE pc[c] \in {"stat", "open", "write"}
      <4>1. owner = c /\ owner' = owner /\ pc'[owner] = "unlock"
        BY <2>1, <3>1 DEF IOError, Goto, LockInv, Writing
      <4>2. \A p \in Paths : ~BeingWritten(p)'
        BY <4>1 DEF BeingWritten
      <4>3. damaged' = damaged \cup CutBy({c}) /\ files' = files
        BY <2>1 DEF IOError
      <4>4. \A p \in Paths : p \in CutBy({c}) <=> BeingWritten(p)
        BY <3>1, CutIsWrite DEF Writing
      <4>. QED BY <4>2, <4>3, <4>4 DEF DamageConfined
    <3>2. CASE pc[c] \in {"read", "scan"}
      <4>1. CutBy({c}) = {}
        BY <3>2 DEF CutBy
      <4>2. UNCHANGED <<files, damaged, owner, req>>
        BY <2>1, <4>1 DEF IOError
      <4>3. \A d \in Clients : pc[d] = "write" <=> pc'[d] = "write"
        BY <2>1, <3>2 DEF IOError, Goto
      <4>4. \A p \in Paths : BeingWritten(p)' <=> BeingWritten(p)
        BY <4>2, <4>3 DEF BeingWritten
      <4>. QED BY <4>2, <4>4, DamageKept
    <3>. QED BY <2>1, <3>1, <3>2 DEF IOError
  <2>2. CASE Truncate(c)
    <3>1. owner = c /\ UNCHANGED <<owner, req, damaged>> /\ pc[c] = "open" /\ pc'[c] = "write"
      BY <2>2 DEF Truncate, Goto, LockInv, Writing
    <3>2. \A p \in Paths : ~BeingWritten(p) /\ (BeingWritten(p)' <=> p = req[c].path)
      BY <3>1 DEF BeingWritten
    <3>3. files' = [files EXCEPT ![req[c].path] = Torn]
      BY <2>2 DEF Truncate
    <3>. QED BY <3>1, <3>2, <3>3 DEF DamageConfined
  <2>3. CASE Write(c)
    <3>1. c = owner /\ req[c].val \in Values
      BY <2>3, RequestShape DEF Write, LockInv, RequestInv, Writing, IsRead
    <3>2. /\ files' = [files EXCEPT ![req[c].path] = req[c].val]
          /\ damaged' = damaged \ {req[c].path}
          /\ owner' = owner /\ pc'[owner] = "unlock"
          /\ pc[c] = "write"
      BY <2>3, <3>1 DEF Write, Goto
    <3>3. \A p \in Paths : ~BeingWritten(p)' /\ (BeingWritten(p) <=> p = req[c].path)
      BY <3>1, <3>2 DEF BeingWritten
    <3>. QED BY <3>1, <3>2, <3>3 DEF DamageConfined
  <2>4. CASE Stat(c)
    <3>1. /\ owner = c /\ UNCHANGED <<owner, req>>
          /\ pc[c] = "stat" /\ pc'[c] \in {"unlock", "open"}
      BY <2>4 DEF Stat, Goto, LockInv, Writing
    <3>2. \A p \in Paths : ~BeingWritten(p) /\ ~BeingWritten(p)'
      BY <3>1 DEF BeingWritten
    <3>3. \/ UNCHANGED <<files, damaged>>
          \/ /\ files' = [files EXCEPT ![req[c].path] = Absent]
             /\ damaged' = damaged \ {req[c].path}
      BY <2>4 DEF Stat
    <3>. QED BY <3>2, <3>3 DEF DamageConfined
  <2>5. CASE Lock(c) \/ Unlock(c)
    <3>1. UNCHANGED <<files, damaged>>
      BY <2>5 DEF Lock, Unlock
    <3>2. \A p \in Paths : ~BeingWritten(p)
      BY <2>5 DEF Lock, Unlock, BeingWritten, LockInv, Writing
    <3>3. owner' = NoOne \/ (owner' = c /\ pc'[c] = "stat")
      BY <2>5 DEF Lock, Unlock, Goto
    <3>4. \A p \in Paths : ~BeingWritten(p)'
      BY <3>3 DEF BeingWritten
    <3>. QED BY <3>1, <3>2, <3>4, DamageKept
  <2>6. CASE Reply(c) \/ RUnlock(c) \/ \E r \in Requests : Call(c, r)
    <3>1. /\ UNCHANGED <<files, damaged, owner>> /\ pc[c] # "write" /\ pc'[c] # "write"
          /\ \A d \in Clients \ {c} : pc'[d] = pc[d] /\ req'[d] = req[d]
      BY <2>6 DEF Reply, RUnlock, Call, Forget, Goto
    <3>2. \A p \in Paths : BeingWritten(p)' <=> BeingWritten(p)
      BY <3>1 DEF BeingWritten
    <3>. QED BY <3>1, <3>2, DamageKept
  <2>7. CASE Reject(c) \/ Accept(c) \/ RLock(c) \/ ReadFile(c) \/ ReadDir(c) \/ EndScan(c)
                \/ \E p \in Paths : ScanFile(c, p)
    <3>1. UNCHANGED <<files, damaged, owner, req>> /\ pc[c] # "write"
      BY <2>7 DEF Reject, Accept, RLock, ReadFile, ReadDir, EndScan, ScanFile
    <3>2. \A d \in Clients : pc[d] = "write" <=> pc'[d] = "write"
      BY <2>7, <3>1 DEF Reject, Accept, RLock, ReadFile, ReadDir, EndScan, ScanFile, Goto
    <3>3. \A p \in Paths : BeingWritten(p)' <=> BeingWritten(p)
      BY <3>1, <3>2 DEF BeingWritten
    <3>. QED BY <3>1, <3>3, DamageKept
  <2>. QED
    BY <1>1, <2>1, <2>2, <2>3, <2>4, <2>5, <2>6, <2>7 DEF ClientStep
<1>2. CASE Crash
  <2>1. owner' = NoOne /\ files' = files /\ damaged' = damaged \cup CutBy(Clients)
    BY <1>2 DEF Crash
  <2>2. \A p \in Paths : ~BeingWritten(p)' /\ (p \in CutBy(Clients) <=> BeingWritten(p))
    BY <2>1, CutIsWrite DEF BeingWritten
  <2>. QED BY <2>1, <2>2 DEF DamageConfined
<1>3. CASE UNCHANGED vars
  BY <1>3, DamageKept DEF vars, BeingWritten
<1>. QED BY <1>1, <1>2, <1>3, StepCases

-----------------------------------------------------------------------------
\* The inductive invariant.

IInv == TypeOK /\ LockInv /\ RequestInv /\ ScanInv /\ AnswerInv /\ DamageConfined

LEMMA IInvInit == Init => IInv
BY TypeInit, LockInit, RequestInit, ScanInit, AnswerInit, DamageInit DEF IInv

LEMMA IInvStep == IInv /\ [FaultyNext]_vars => IInv'
BY TypeStep, LockStep, RequestStep, ScanStep, AnswerStep, DamageStep DEF IInv

LEMMA FaultFree == [Next]_vars => [FaultyNext]_vars
BY DEF FaultyNext

LEMMA FaultyInvariant == FaultySpec => []IInv
BY IInvInit, IInvStep, PTL DEF FaultySpec

LEMMA Invariant == Spec => []IInv
BY IInvInit, IInvStep, FaultFree, PTL DEF Spec

-----------------------------------------------------------------------------
\* Every variable keeps its type, failures included.
THEOREM Typing == FaultySpec => []TypeOK
BY FaultyInvariant, PTL DEF IInv

\* However calls interleave and fail, a file that does not decode is the one
\* being written or one whose last write a failure has cut.
THEOREM DamageIsConfined == FaultySpec => []DamageConfined
BY FaultyInvariant, PTL DEF IInv

\* While anybody reads, nothing in any directory changes.
THEOREM ReadersSeeOneState == FaultySpec => StableWhileRead
<1>1. IInv /\ [FaultyNext]_vars => [active # {} => UNCHANGED files]_vars
  BY FilesStep DEF IInv
<1>. QED BY <1>1, FaultyInvariant, PTL DEF FaultySpec, StableWhileRead

\* A decode error is on its way out of a read that still holds the lock.
DecodeInv ==
  \A c \in Clients : out[c].tag = "decode" =>
    pc[c] = "runlock" /\ \E p \in damaged : Covers(req[c], p)

\* What a step of c must not touch for the other clients' decode errors to stay
\* explained.
LEMMA DecodeOfOthers ==
  ASSUME DecodeInv, NEW c \in Clients,
         \A d \in Clients \ {c} : out'[d] = out[d] /\ req'[d] = req[d]
                                  /\ (pc[d] = "runlock" => pc'[d] = "runlock"),
         damaged \subseteq damaged',
         out'[c].tag = "decode" =>
           pc'[c] = "runlock" /\ \E p \in damaged' : Covers(req'[c], p)
  PROVE  DecodeInv'
<1> SUFFICES ASSUME NEW d \in Clients, out'[d].tag = "decode"
             PROVE  pc'[d] = "runlock" /\ \E p \in damaged' : Covers(req'[d], p)
  BY DEF DecodeInv, Covers
<1>1. CASE d = c
  BY <1>1
<1>2. CASE d # c
  <2>1. out[d].tag = "decode" /\ req'[d] = req[d] /\ pc'[d] = "runlock"
    BY <1>2 DEF DecodeInv
  <2>2. PICK p \in damaged : Covers(req[d], p)
    BY <2>1 DEF DecodeInv
  <2>. QED BY <2>1, <2>2
<1>. QED BY <1>1, <1>2

LEMMA DecodeStep ==
  ASSUME IInv, DecodeInv, [FaultyNext]_vars
  PROVE  DecodeInv'
<1> USE DEF IInv, TypeOK, lock
<1>1. ASSUME NEW c \in Clients, ClientStep(c)
      PROVE  DecodeInv'
  <2>1. CASE ReadFile(c)
    <3>1. req[c].path \in Paths /\ active # {} /\ req[c].op = "get"
      BY <2>1, RequestShape DEF ReadFile, RequestInv, LockInv, Reading
    <3>2. files[req[c].path] = Torn => req[c].path \in damaged
      BY <3>1 DEF DamageConfined, BeingWritten, LockInv
    <3>3. out'[c].tag = "decode" => files[req[c].path] = Torn
      BY <2>1, <3>1 DEF ReadFile, Error, Ok
    <3>4. /\ UNCHANGED <<req, damaged>> /\ pc'[c] = "runlock"
          /\ \A d \in Clients \ {c} : out'[d] = out[d] /\ pc'[d] = pc[d]
      BY <2>1 DEF ReadFile, Goto
    <3>5. Covers(req'[c], req[c].path)
      BY <3>1, <3>4 DEF Covers
    <3>6. out'[c].tag = "decode" => \E p \in damaged' : Covers(req'[c], p)
      BY <3>2, <3>3, <3>4, <3>5
    <3>. QED BY <3>4, <3>6, DecodeOfOthers
  <2>2. CASE \E p \in Paths : ScanFile(c, p)
    <3>1. PICK p \in Paths : ScanFile(c, p)
      BY <2>2
    <3>2. active # {} /\ p \in todo[c] /\ req[c].op = "scan" /\ pc[c] = "scan"
      BY <3>1 DEF ScanFile, LockInv, RequestInv, Reading
    <3>3. files[p] # Absent /\ p[1] = req[c].dir
      BY <3>1, <3>2 DEF ScanInv
    <3>4. files[p] = Torn => p \in damaged
      BY <3>2 DEF DamageConfined, BeingWritten, LockInv
    <3>5. /\ UNCHANGED <<req, damaged>>
          /\ \A d \in Clients \ {c} : out'[d] = out[d] /\ pc'[d] = pc[d]
      BY <3>1 DEF ScanFile, Goto
    <3>6. CASE files[p] \in Values
      <4>1. out' = out /\ pc' = pc
        BY <3>1, <3>6 DEF ScanFile
      <4>. QED BY <3>2, <3>5, <4>1 DEF DecodeInv
    <3>7. CASE files[p] \notin Values
      <4>1. pc'[c] = "runlock" /\ files[p] = Torn
        BY <3>1, <3>3, <3>7 DEF ScanFile, Goto
      <4>2. Covers(req'[c], p)
        BY <3>2, <3>3, <3>5 DEF Covers
      <4>3. \E q \in damaged' : Covers(req'[c], q)
        BY <3>4, <3>5, <4>1, <4>2
      <4>. QED BY <3>5, <4>1, <4>3, DecodeOfOthers
    <3>. QED BY <3>6, <3>7
  <2>3. CASE IOError(c)
    <3>1. /\ req' = req /\ damaged \subseteq damaged'
          /\ \A d \in Clients \ {c} : out'[d] = out[d] /\ pc'[d] = pc[d]
          /\ out'[c].tag = "io"
      BY <2>3 DEF IOError, Goto, Error
    <3>. QED BY <3>1, DecodeOfOthers
  <2>4. CASE Stat(c) \/ Write(c)
    <3>1. \A d \in Clients : pc[d] # "runlock"
      BY <2>4 DEF Stat, Write, LockInv, Reading
    <3>2. \A d \in Clients : out[d].tag # "decode"
      BY <3>1 DEF DecodeInv
    <3>3. out'[c] \in {Error("exists"), Error("not found"), Ok(Absent), Ok(req[c].val), out[c]}
      BY <2>4 DEF Stat, Write
    <3>4. \A v : Ok(v).tag # "decode"
      BY DEF Ok
    <3>5. Error("exists").tag # "decode" /\ Error("not found").tag # "decode"
      BY DEF Error
    <3>6. out'[c].tag # "decode"
      BY <3>2, <3>3, <3>4, <3>5
    <3>7. \A d \in Clients \ {c} : out'[d] = out[d]
      BY <2>4 DEF Stat, Write
    <3>. QED BY <3>2, <3>6, <3>7 DEF DecodeInv
  <2>5. CASE Reject(c) \/ EndScan(c)
    <3>1. /\ UNCHANGED <<req, damaged>>
          /\ \A d \in Clients \ {c} : out'[d] = out[d] /\ pc'[d] = pc[d]
          /\ out'[c].tag # "decode"
      BY <2>5 DEF Reject, EndScan, Goto, Error, Ok
    <3>. QED BY <3>1, DecodeOfOthers
  <2>6. CASE Reply(c) \/ RUnlock(c) \/ Unlock(c)
    <3>1. /\ damaged' = damaged
          /\ \A d \in Clients \ {c} : out'[d] = out[d] /\ req'[d] = req[d]
          /\ out'[c] = NoAnswer
      BY <2>6 DEF Reply, RUnlock, Unlock, Forget
    <3>2. \A d \in Clients \ {c} : pc[d] = "runlock" => pc'[d] = "runlock"
      BY <2>6 DEF Reply, RUnlock, Unlock, Goto, LockInv
    <3>3. out'[c].tag # "decode"
      BY <3>1 DEF NoAnswer, Error
    <3>. QED BY <3>1, <3>2, <3>3, DecodeOfOthers
  <2>7. CASE (\E r \in Requests : Call(c, r)) \/ Accept(c) \/ RLock(c) \/ ReadDir(c) \/ Lock(c)
                \/ Truncate(c)
    <3>1. /\ UNCHANGED <<damaged, out>> /\ pc[c] # "runlock"
          /\ \A d \in Clients \ {c} : req'[d] = req[d] /\ pc'[d] = pc[d]
      BY <2>7 DEF Call, Accept, RLock, ReadDir, Lock, Truncate, Goto
    <3>2. out'[c].tag # "decode"
      BY <3>1 DEF DecodeInv
    <3>. QED BY <3>1, <3>2, DecodeOfOthers
  <2>. QED
    BY <1>1, <2>1, <2>2, <2>3, <2>4, <2>5, <2>6, <2>7 DEF ClientStep
<1>2. CASE Crash
  BY <1>2 DEF Crash, DecodeInv, NoAnswer, Error
<1>3. CASE UNCHANGED vars
  BY <1>3 DEF vars, DecodeInv
<1>. QED BY <1>1, <1>2, <1>3, StepCases

\* A caller is told of an undecodable file only when the last write of a file it
\* asked for was cut by a failure.
THEOREM DecodeErrorsAreDamage == FaultySpec => []DecodeErrorsNameDamage
<1>1. Init => DecodeInv
  BY DEF Init, DecodeInv, NoAnswer, Error
<1>2. IInv /\ DecodeInv /\ [FaultyNext]_vars => DecodeInv'
  BY DecodeStep
<1>3. DecodeInv => DecodeErrorsNameDamage
  BY DEF DecodeInv, DecodeErrorsNameDamage
<1>. QED BY <1>1, <1>2, <1>3, FaultyInvariant, PTL DEF FaultySpec

=============================================================================
