------------------------- MODULE ScopedMemoryProofs --------------------------
(***************************************************************************)
(* Machine-checked proofs about ScopedMemory, for any number of clients,   *)
(* any requests, however they overlap, and any number of failed calls.     *)
(***************************************************************************)
EXTENDS ScopedMemory, SequenceTheorems, FiniteSetTheorems, WellFoundedInduction, TLAPS

Reference == "memory_snapshot_reference"

\* What a request may have still to do.

NoteItem      == [rank : 1 .. 20, do : {"create"}, class : Classes \ {Reference}, text : Texts,
                  status : Statuses]
ReferenceItem == [rank : {22}, do : {"create"}, class : {Reference}, text : Nat \ {0},
                  status : {"open"}]
FindItem      == [rank : {9}, do : {"find"}, class : {"unresolved_gaps"}, text : Texts,
                  status : Statuses]
ValidRecord   == {r \in RecordType : r.status = "resolved" => r.resolvedAt}
PutItem       == [rank : 0 .. 20, do : {"put"}, id : Nat, rec : ValidRecord]
GetItem       == [rank : {17}, do : {"get"}, id : Nat]
MatchItem     == [rank : {19}, do : {"match"}, texts : SUBSET Texts]
StatusItem    == [rank : {1}, do : {"transition"}, id : Nat, target : Statuses]
CollectItem   == [rank : {20}, do : {"collect"}]
StampItem     == [rank : {21}, do : {"stamp"}, notes : BOOLEAN]
LinkItem      == [rank : {21}, do : {"link"}, notes : BOOLEAN, stamp : Nat \ {0}]
PublishItem   == [rank : {21}, do : {"publish"}, notes : BOOLEAN, snap : SnapshotType]

Item == NoteItem \cup ReferenceItem \cup FindItem \cup PutItem \cup GetItem \cup MatchItem
        \cup StatusItem \cup CollectItem \cup StampItem \cup LinkItem \cup PublishItem

Task == [ns : Namespaces, refs : SUBSET Nat, work : SUBSET Item] \cup {Idle}

\* The inductive invariant, in parts.

Types == TypeOK /\ task \in [Clients -> Task]

Fields == {"ns", "class", "text"}

\* What is to be written back says what the stored record says.
PutInv ==
  \A c \in Clients : \A s \in task[c].work :
    s.do = "put" => /\ s.id \in DOMAIN recs /\ IsActionable(recs[s.id].class)
                    /\ \A field \in Fields : s.rec[field] = recs[s.id][field]

\* An open record is written back before anything else is done.
UrgentInv ==
  \A c \in Clients : \A s, t \in task[c].work :
    s.do = "put" /\ s.rec.status = "open" /\ t # s => s.rank < t.rank

IsReference(s) == s.do = "create" /\ s.class = Reference
Stamped(c)     == {s \in task[c].work : s.do \in {"link", "publish"} \/ IsReference(s)}
StampOf(s)     == IF s.do = "link" THEN s.stamp
                  ELSE IF s.do = "publish" THEN s.snap.stamp ELSE s.text
References     == {i \in DOMAIN recs : recs[i].class = Reference}

\* A stamp is on its way to one snapshot and one reference at most.
StampInv ==
  /\ \A c \in Clients : \A s \in Stamped(c) :
       /\ StampOf(s) \in 1 .. clock
       /\ \A i \in References : recs[i].text # StampOf(s)
       /\ s.do = "create" => \E k \in DOMAIN snaps : snaps[k].stamp = s.text
  /\ \A c, d \in Clients : \A s \in Stamped(c), t \in Stamped(d) :
       StampOf(s) = StampOf(t) => c = d /\ s = t
  /\ \A i \in References : recs[i].text \in 1 .. clock
  /\ \A k \in DOMAIN snaps : snaps[k].stamp \in 1 .. clock

\* A request that has notes to create has a snapshot to make.
SnapshotInv ==
  \A c \in Clients : \A s \in task[c].work :
    s.do \in {"create", "find"} /\ s.class # Reference => \E t \in task[c].work : t.do = "stamp"

\* The snapshot that a record will be in.
Awaited(i) ==
  \E c \in Clients : \E s \in task[c].work :
    \/ s.do \in {"stamp", "link"} /\ i \in task[c].refs
    \/ s.do = "publish" /\ i \in s.snap.refs

CoverInv ==
  faults = 0 => \A i \in DOMAIN recs :
                  i \in References \/ (\E k \in DOMAIN snaps : i \in snaps[k].refs) \/ Awaited(i)

\* As long as requests come one at a time.
AloneInv  == ~overlapped => \A c, d \in Clients : task[c] # Idle /\ task[d] # Idle => c = d
ReopenInv == ~overlapped =>
  \A c \in Clients : \A s \in task[c].work :
    s.do = "put" /\ s.rec.status = "open" => recs[s.id].status = "open"

\* A gap to be created is not there yet.
GapInv ==
  \A c \in Clients : \A s \in task[c].work :
    s.do = "create" /\ s.class = "unresolved_gaps" =>
      /\ s.status = "open" /\ s.rank = 8
      /\ ~overlapped => \A i \in OpenGaps({s.text}) : recs[i].ns # task[c].ns

Making == {"stamp", "link", "publish"}
OneSnapshotInv ==
  \A c \in Clients : \A s, t \in task[c].work : s.do \in Making /\ t.do \in Making => s = t

\* Stamps are stored in their order, and the newest one is linked to the last.
ChainInv ==
  ~overlapped =>
    /\ \A j, k \in DOMAIN snaps : j < k => snaps[j].stamp < snaps[k].stamp
    /\ \A c \in Clients : \A s \in task[c].work :
         s.do \in {"link", "publish"} =>
           /\ \A k \in DOMAIN snaps : snaps[k].stamp < StampOf(s)
           /\ s.do = "publish" => s.snap.prev = LatestSnapshot(s.snap.ns)

IInv ==
  /\ Types /\ PutInv /\ UrgentInv
  /\ StampInv /\ ReferencesAreSound /\ SnapshotInv /\ CoverInv
  /\ AloneInv /\ ReopenInv /\ GapInv /\ SerialGapsAreUnique
  /\ OneSnapshotInv /\ ChainInv

-----------------------------------------------------------------------------
\* Work.

\* What an item of work holds, by the call it stands for.
LEMMA ItemShape ==
  ASSUME NEW s \in Item
  PROVE  /\ s.rank \in 0 .. 22
         /\ s.do = "create" => \/ /\ s.class \in Classes \ {Reference} /\ s.text \in Texts
                                  /\ s.status \in Statuses /\ s.rank \in 1 .. 20
                               \/ /\ s.class = Reference /\ s.text \in Nat \ {0}
                                  /\ s.status = "open" /\ s.rank = 22
         /\ s.do = "find" => /\ s.class = "unresolved_gaps" /\ s.text \in Texts /\ s.rank = 9
                             /\ GapOf(s) = [rank |-> 8, do |-> "create", class |-> "unresolved_gaps",
                                            text |-> s.text, status |-> "open"]
         /\ s.do = "put" => s.id \in Nat /\ s.rec \in ValidRecord /\ s.rank \in 0 .. 20
         /\ s.do = "get" => s.id \in Nat /\ s.rank = 17
         /\ s.do = "match" => s.texts \in SUBSET Texts /\ s.rank = 19
         /\ s.do = "transition" => s.id \in Nat /\ s.target \in Statuses /\ s.rank = 1
         /\ s.do = "collect" => s.rank = 20
         /\ s.do = "stamp" => s.notes \in BOOLEAN /\ s.rank = 21
         /\ s.do = "link" => s.notes \in BOOLEAN /\ s.stamp \in Nat \ {0} /\ s.rank = 21
         /\ s.do = "publish" => s.notes \in BOOLEAN /\ s.snap \in SnapshotType /\ s.rank = 21
<1> USE DEF NoteItem, ReferenceItem, FindItem, PutItem, GetItem, MatchItem, StatusItem,
            CollectItem, StampItem, LinkItem, PublishItem
<1>1. CASE s \in NoteItem
  BY <1>1
<1>2. CASE s \in ReferenceItem
  BY <1>2
<1>3. CASE s \in FindItem
  BY <1>3 DEF GapOf
<1>4. CASE s \in PutItem
  BY <1>4
<1>5. CASE s \in GetItem \cup MatchItem \cup StatusItem \cup CollectItem
  BY <1>5
<1>6. CASE s \in StampItem \cup LinkItem \cup PublishItem
  BY <1>6
<1>. QED BY <1>1, <1>2, <1>3, <1>4, <1>5, <1>6 DEF Item

LEMMA TaskShape ==
  ASSUME Types, NEW c \in Clients
  PROVE  /\ task[c].work \in SUBSET Item
         /\ task[c] # Idle => /\ task[c].ns \in Namespaces /\ task[c].refs \in SUBSET Nat
                              /\ task[c] = [ns |-> task[c].ns, refs |-> task[c].refs,
                                            work |-> task[c].work]
         /\ task[c].work # {} => task[c] # Idle
BY DEF Types, Task, Idle

\* A call removes its item of work and adds others.
LEMMA WorkAfter ==
  ASSUME Types, NEW c \in Clients, NEW step \in task[c].work, NEW added, NEW refs,
         Proceed(c, step, added, refs)
  PROVE  /\ task'[c].work = (task[c].work \ {step}) \cup added
         /\ task'[c].work # {} => /\ task'[c].ns = task[c].ns
                                  /\ task'[c].refs = task[c].refs \cup refs
         /\ \A d \in Clients \ {c} : task'[d] = task[d]
<1> DEFINE left == (task[c].work \ {step}) \cup added
<1>1. task \in [Clients -> Task]
  BY DEF Types
<1>2. \A d \in Clients \ {c} : task'[d] = task[d]
  BY <1>1 DEF Proceed
<1>3. task'[c] = GoesOn(task[c], left, refs)
  BY <1>1 DEF Proceed
<1>4. task[c] = [ns |-> task[c].ns, refs |-> task[c].refs, work |-> task[c].work]
  BY TaskShape
<1> HIDE DEF left
<1>5. CASE left = {}
  BY <1>2, <1>3, <1>5 DEF left, Idle, GoesOn
<1>6. CASE left # {}
  <2>1. task'[c] = [ns |-> task[c].ns, refs |-> task[c].refs \cup refs, work |-> left]
    BY <1>3, <1>4, <1>6 DEF GoesOn
  <2>. QED BY <1>2, <2>1 DEF left
<1>. QED BY <1>5, <1>6

-----------------------------------------------------------------------------
\* Positions.

LEMMA LeastOf ==
  ASSUME NEW S \in SUBSET Nat, S # {}
  PROVE  First(S) \in S /\ \A j \in S : First(S) <= j
<1>0. \E i \in S : \A j \in S : ~(<<j, i>> \in OpToRel(<, Nat))
  <2>1. IsWellFoundedOn(OpToRel(<, Nat), Nat)
    BY NatLessThanWellFounded
  <2>2. S \subseteq Nat
    OBVIOUS
  <2> HIDE DEF OpToRel
  <2>. QED BY <2>1, <2>2, WFMin, Zenon
<1>1. PICK i \in S : \A j \in S : ~(<<j, i>> \in OpToRel(<, Nat))
  BY <1>0
<1>2. \A j \in S : ~(j < i)
  BY <1>1 DEF OpToRel
<1>3. \E k \in S : \A j \in S : k <= j
  BY <1>2
<1>. QED BY <1>3 DEF First

LEMMA GreatestOf ==
  ASSUME NEW n \in Nat, NEW S \in SUBSET (0 .. n), S # {}
  PROVE  \E i \in S : \A j \in S : j <= i
<1> DEFINE T == {n - i : i \in S}
<1>0. \A i \in S : n - i \in Nat
  OBVIOUS
<1>1. T \in SUBSET Nat /\ T # {}
  BY <1>0
<1>2. First(T) \in T /\ \A j \in T : First(T) <= j
  <2> HIDE DEF T
  <2>. QED BY <1>1, LeastOf
<1>3. PICK i \in S : First(T) = n - i
  BY <1>2
<1>4. \A j \in S : n - i <= n - j
  BY <1>2, <1>3
<1>5. \A j \in S : j <= i
  BY <1>4
<1>. QED BY <1>5

\* A sequence and its elements, also with one more.
LEMMA Positions ==
  ASSUME NEW S, NEW s \in Seq(S)
  PROVE  /\ Len(s) \in Nat /\ DOMAIN s = 1 .. Len(s) /\ DOMAIN s \subseteq Nat
         /\ \A i \in DOMAIN s : s[i] \in S
         /\ \A e \in S : /\ Append(s, e) \in Seq(S)
                         /\ DOMAIN Append(s, e) = 1 .. (Len(s) + 1)
                         /\ Len(Append(s, e)) = Len(s) + 1
                         /\ Append(s, e)[Len(s) + 1] = e
                         /\ \A i \in DOMAIN s : Append(s, e)[i] = s[i]
<1>1. Len(s) \in Nat /\ DOMAIN s = 1 .. Len(s) /\ \A i \in DOMAIN s : s[i] \in S
  BY LenProperties
<1>2. ASSUME NEW e \in S
      PROVE  /\ Append(s, e) \in Seq(S)
             /\ DOMAIN Append(s, e) = 1 .. (Len(s) + 1)
             /\ Len(Append(s, e)) = Len(s) + 1
             /\ Append(s, e)[Len(s) + 1] = e
             /\ \A i \in DOMAIN s : Append(s, e)[i] = s[i]
  <2>1. /\ Append(s, e) \in Seq(S) /\ Len(Append(s, e)) = Len(s) + 1
        /\ Append(s, e)[Len(s) + 1] = e
        /\ \A i \in 1 .. Len(s) : Append(s, e)[i] = s[i]
    BY AppendProperties
  <2>2. DOMAIN Append(s, e) = 1 .. Len(Append(s, e))
    BY <2>1, LenProperties
  <2>. QED BY <1>1, <2>1, <2>2
<1>. QED BY <1>1, <1>2

\* The records, the snapshots and the gaps among them.
LEMMA Stored ==
  ASSUME Types
  PROVE  /\ Len(recs) \in Nat /\ DOMAIN recs = 1 .. Len(recs) /\ DOMAIN recs \subseteq Nat
         /\ \A i \in DOMAIN recs : recs[i] \in ValidRecord
         /\ Len(snaps) \in Nat /\ DOMAIN snaps = 1 .. Len(snaps)
         /\ \A k \in DOMAIN snaps : snaps[k] \in SnapshotType
         /\ clock \in Nat
         /\ \A texts : /\ OpenGaps(texts) \subseteq DOMAIN recs
                       /\ \A i \in OpenGaps(texts) : /\ recs[i].class = "unresolved_gaps"
                                                     /\ recs[i].status = "open"
                                                     /\ recs[i].text \in texts
<1>1. recs \in Seq(RecordType) /\ snaps \in Seq(SnapshotType)
  BY DEF Types, TypeOK
<1>2. /\ Len(recs) \in Nat /\ DOMAIN recs = 1 .. Len(recs) /\ DOMAIN recs \subseteq Nat
      /\ \A i \in DOMAIN recs : recs[i] \in RecordType
  BY <1>1, Positions
<1>3. /\ Len(snaps) \in Nat /\ DOMAIN snaps = 1 .. Len(snaps)
      /\ \A k \in DOMAIN snaps : snaps[k] \in SnapshotType
  BY <1>1, Positions
<1>4. \A i \in DOMAIN recs : recs[i] \in ValidRecord
  BY <1>2 DEF Types, TypeOK, ValidRecord
<1>. QED BY <1>2, <1>3, <1>4 DEF OpenGaps, Types, TypeOK

-----------------------------------------------------------------------------
\* The steps of Next, without its quantifiers.

Called(c, step) ==
  /\ step \in task[c].work /\ IsNext(c, step)
  /\ \/ Create(c, step) \/ Find(c, step) \/ Put(c, step) \/ Get(c, step)
     \/ Match(c, step) \/ Transition(c, step) \/ Collect(c, step)
     \/ Stamp(c, step) \/ Link(c, step) \/ Publish(c, step)
  /\ UNCHANGED <<posted, faults, overlapped>>

\* The texts of a notes request, class by class.
NotesOf(in) ==
  {{[rank |-> 2 * k + 1,
     do |-> IF ClassOrder[k] = "unresolved_gaps" THEN "find" ELSE "create",
     class |-> ClassOrder[k], text |-> text, status |-> in.status] :
        text \in in.texts[ClassOrder[k]]} : k \in 1 .. 7}

\* What a request begins with.
LEMMA NotesWorkType ==
  ASSUME NEW in \in NotesInputs
  PROVE  /\ NotesWork(in) \in SUBSET (NoteItem \cup FindItem \cup GetItem \cup MatchItem \cup StampItem)
         /\ [rank |-> 21, do |-> "stamp", notes |-> TRUE] \in NotesWork(in)
         /\ in.ns \in Namespaces
<1>1. in \in NotesInput
  BY NotesAssumption
<1>2. ASSUME NEW k \in 1 .. 7, NEW text \in in.texts[ClassOrder[k]]
      PROVE  [rank |-> 2 * k + 1,
              do |-> IF ClassOrder[k] = "unresolved_gaps" THEN "find" ELSE "create",
              class |-> ClassOrder[k], text |-> text, status |-> in.status]
               \in NoteItem \cup FindItem
  <2>1. ClassOrder[k] \in Classes \ {Reference} /\ (ClassOrder[k] = "unresolved_gaps" => k = 4)
    BY DEF ClassOrder, Classes, Reference
  <2>2. text \in Texts /\ in.status \in Statuses
    BY <1>1, <2>1 DEF NotesInput
  <2>3. CASE ClassOrder[k] = "unresolved_gaps"
    BY <2>1, <2>2, <2>3 DEF FindItem
  <2>4. CASE ClassOrder[k] # "unresolved_gaps"
    BY <2>1, <2>2, <2>4 DEF NoteItem
  <2>. QED BY <2>3, <2>4
<1>3. \A i \in in.resolveIds : [rank |-> 17, do |-> "get", id |-> i] \in GetItem
  BY <1>1, BoundAssumption DEF NotesInput, GetItem
<1>4. [rank |-> 19, do |-> "match", texts |-> in.resolveTexts] \in MatchItem
  BY <1>1 DEF NotesInput, MatchItem
<1>5. [rank |-> 21, do |-> "stamp", notes |-> TRUE] \in StampItem
  BY DEF StampItem
<1>6. ASSUME NEW s \in NotesWork(in)
      PROVE  s \in NoteItem \cup FindItem \cup GetItem \cup MatchItem \cup StampItem
  <2>1. CASE \E k \in 1 .. 7 : \E text \in in.texts[ClassOrder[k]] :
               s = [rank |-> 2 * k + 1,
                    do |-> IF ClassOrder[k] = "unresolved_gaps" THEN "find" ELSE "create",
                    class |-> ClassOrder[k], text |-> text, status |-> in.status]
    BY <1>2, <2>1
  <2>2. CASE \E i \in in.resolveIds : s = [rank |-> 17, do |-> "get", id |-> i]
    BY <1>3, <2>2
  <2>3. CASE \/ s = [rank |-> 19, do |-> "match", texts |-> in.resolveTexts]
             \/ s = [rank |-> 21, do |-> "stamp", notes |-> TRUE]
    BY <1>4, <1>5, <2>3
  <2>4. \/ \E T \in NotesOf(in) : s \in T
        \/ s \in {[rank |-> 17, do |-> "get", id |-> i] : i \in in.resolveIds}
        \/ s \in {[rank |-> 19, do |-> "match", texts |-> in.resolveTexts]}
        \/ s \in {[rank |-> 21, do |-> "stamp", notes |-> TRUE]}
    BY DEF NotesWork, NotesOf
  <2>. QED BY <2>1, <2>2, <2>3, <2>4 DEF NotesOf
<1>7. [rank |-> 21, do |-> "stamp", notes |-> TRUE] \in NotesWork(in)
  BY DEF NotesWork
<1>8. in.ns \in Namespaces
  BY <1>1 DEF NotesInput
<1>. QED BY <1>6, <1>7, <1>8

\* A request that has just begun has read nothing and made no snapshot.
Fresh == NoteItem \cup FindItem \cup GetItem \cup MatchItem \cup StatusItem \cup CollectItem
         \cup StampItem

Begins(t) ==
  /\ t \in Task /\ t # Idle /\ t.work \in SUBSET Fresh
  /\ \A s \in t.work : s.do = "create" => s.class # "unresolved_gaps"
  /\ \A s, u \in t.work : s.do = "stamp" /\ u.do = "stamp" => s = u
  /\ (\E s \in t.work : s.do \in {"create", "find"}) => \E s \in t.work : s.do = "stamp"

Begun(c) == /\ \E t \in Task : Begins(t) /\ Begin(c, t)
            /\ posted \in 0 .. MaxPosts => posted' \in 0 .. MaxPosts

LEMMA NotesBegin ==
  ASSUME NEW c \in Clients, NEW in \in NotesInputs, PostNotes(c, in)
  PROVE  Begun(c)
<1> DEFINE t == [ns |-> in.ns, refs |-> {}, work |-> NotesWork(in)]
<1>1. NotesWork(in) \in SUBSET Fresh
  BY NotesWorkType DEF Fresh
<1>2. t \in Task /\ t # Idle
  BY <1>1, NotesWorkType DEF Task, Item, Fresh, Idle
<1>3. \A s \in NotesWork(in) : s.do = "create" => s.class # "unresolved_gaps"
  <2>1. ASSUME NEW s \in NotesWork(in)
        PROVE  \/ \E k \in 1 .. 7 : \E text \in in.texts[ClassOrder[k]] :
                    s = [rank |-> 2 * k + 1,
                         do |-> IF ClassOrder[k] = "unresolved_gaps" THEN "find" ELSE "create",
                         class |-> ClassOrder[k], text |-> text, status |-> in.status]
               \/ s.do # "create"
    <3>1. \/ \E T \in NotesOf(in) : s \in T
          \/ s \in {[rank |-> 17, do |-> "get", id |-> i] : i \in in.resolveIds}
          \/ s \in {[rank |-> 19, do |-> "match", texts |-> in.resolveTexts]}
          \/ s \in {[rank |-> 21, do |-> "stamp", notes |-> TRUE]}
      BY DEF NotesWork, NotesOf
    <3>. QED BY <3>1 DEF NotesOf
  <2>. QED BY <2>1
<1>4. \A s \in NotesWork(in) : s.do = "stamp" => s = [rank |-> 21, do |-> "stamp", notes |-> TRUE]
  <2>1. ASSUME NEW s \in NotesWork(in), s.do = "stamp"
        PROVE  s = [rank |-> 21, do |-> "stamp", notes |-> TRUE]
    <3>1. \/ \E T \in NotesOf(in) : s \in T
          \/ s \in {[rank |-> 17, do |-> "get", id |-> i] : i \in in.resolveIds}
          \/ s \in {[rank |-> 19, do |-> "match", texts |-> in.resolveTexts]}
          \/ s \in {[rank |-> 21, do |-> "stamp", notes |-> TRUE]}
      BY DEF NotesWork, NotesOf
    <3>. QED BY <2>1, <3>1 DEF NotesOf
  <2>. QED BY <2>1
<1>5. \E s \in NotesWork(in) : s.do = "stamp"
  BY NotesWorkType
<1>6. Begins(t)
  BY <1>1, <1>2, <1>3, <1>4, <1>5 DEF Begins
<1>7. Begin(c, t) /\ (posted \in 0 .. MaxPosts => posted' \in 0 .. MaxPosts)
  BY BoundAssumption DEF PostNotes, Post
<1> HIDE DEF t
<1>. QED BY <1>2, <1>6, <1>7 DEF Begun

LEMMA SnapshotBegins ==
  ASSUME NEW c \in Clients, NEW in \in SnapshotInputs, PostSnapshot(c, in)
  PROVE  Begun(c)
<1> DEFINE work == {[rank |-> 21, do |-> "stamp", notes |-> FALSE]} \cup
                   IF in.refs = {} THEN {[rank |-> 20, do |-> "collect"]} ELSE {}
           t == [ns |-> in.ns, refs |-> in.refs, work |-> work]
<1>1. in \in SnapshotInput
  BY SnapshotAssumption
<1> DEFINE stamp   == [rank |-> 21, do |-> "stamp", notes |-> FALSE]
           collect == [rank |-> 20, do |-> "collect"]
<1>2. /\ stamp \in StampItem /\ collect \in CollectItem
      /\ stamp.do = "stamp" /\ collect.do = "collect"
      /\ work \in SUBSET {stamp, collect} /\ stamp \in work
  BY DEF StampItem, CollectItem
<1> HIDE DEF stamp, collect
<1>3. /\ \A s \in work : s.do \notin {"create", "find"}
      /\ \A s, u \in work : s.do = "stamp" /\ u.do = "stamp" => s = u
      /\ work # {} /\ work \in SUBSET Fresh
  BY <1>2 DEF Fresh
<1>4. Begin(c, t) /\ (posted \in 0 .. MaxPosts => posted' \in 0 .. MaxPosts)
  BY BoundAssumption DEF PostSnapshot, Post
<1> HIDE DEF work
<1>5. t \in Task /\ t # Idle
  BY <1>1, <1>3, BoundAssumption DEF Task, Item, Fresh, Idle, SnapshotInput
<1>6. Begins(t)
  BY <1>3, <1>5 DEF Begins
<1> HIDE DEF t
<1>. QED BY <1>4, <1>5, <1>6 DEF Begun

LEMMA StatusBegins ==
  ASSUME NEW c \in Clients, NEW i \in 1 .. MaxRecs, NEW target \in Targets,
         PostStatus(c, i, target)
  PROVE  Begun(c)
<1> DEFINE step == [rank |-> 1, do |-> "transition", id |-> i, target |-> target]
           t == [ns |-> [cycle |-> "", agent |-> ""], refs |-> {}, work |-> {step}]
<1>1. step \in StatusItem /\ step.do = "transition"
  BY TargetsAssumption, BoundAssumption DEF StatusItem
<1>2. Begin(c, t) /\ (posted \in 0 .. MaxPosts => posted' \in 0 .. MaxPosts)
  BY DEF PostStatus
<1> HIDE DEF step
<1>3. t \in Task /\ t # Idle
  BY <1>1 DEF Task, Item, Idle, Namespaces
<1>4. Begins(t)
  BY <1>1, <1>3 DEF Begins, Fresh
<1> HIDE DEF t
<1>. QED BY <1>2, <1>3, <1>4 DEF Begun

LEMMA StepCases ==
  ASSUME [Next]_vars
  PROVE  \/ \E c \in Clients :
              Begun(c) \/ (\E step \in task[c].work : Called(c, step)) \/ Fail(c)
         \/ UNCHANGED vars
<1>1. CASE Step
  <2>1. PICK c \in Clients :
          \/ \E in \in NotesInputs : PostNotes(c, in)
          \/ \E in \in SnapshotInputs : PostSnapshot(c, in)
          \/ \E i \in 1 .. MaxRecs : \E target \in Targets : PostStatus(c, i, target)
          \/ Call(c)
          \/ Fail(c)
    BY <1>1 DEF Step
  <2>2. CASE Call(c)
    BY <2>2 DEF Call, Called
  <2>. QED BY <2>1, <2>2, NotesBegin, SnapshotBegins, StatusBegins
<1>. QED BY <1>1 DEF Next

-----------------------------------------------------------------------------
\* What a call does.

NewRecord(c, step) == [ns |-> task[c].ns, class |-> step.class, text |-> step.text,
                       status |-> step.status, resolvedAt |-> step.status = "resolved"]

NewSnapshot(c, step) == [ns |-> task[c].ns, refs |-> task[c].refs, stamp |-> step.stamp,
                         prev |-> LatestSnapshot(task[c].ns)]

\* To the store and the clock.
Stores(c, step) ==
  /\ step.do = "create" => recs' = Append(recs, NewRecord(c, step))
  /\ step.do = "put" => recs' = [recs EXCEPT ![step.id] = step.rec]
  /\ step.do \notin {"create", "put"} => recs' = recs
  /\ step.do = "publish" => snaps' = Append(snaps, step.snap)
  /\ step.do # "publish" => snaps' = snaps
  /\ clock' = clock \/ (step.do = "stamp" /\ clock' = clock + 1)

\* To the request: what it adds to its work, and to what the snapshot is of.
Adds(c, step, added, refs) ==
  /\ Proceed(c, step, added, refs)
  /\ step.do \in {"create", "put"} => added = {}
  /\ step.do = "create" => refs = IF step.class = Reference THEN {} ELSE {Len(recs) + 1}
  /\ \A s \in added : s.do \in {"put", "create", "link", "publish"}
  /\ \A s \in added : s.do = "put" =>
       /\ s.rank < step.rank
       /\ s.id \in DOMAIN recs /\ IsActionable(recs[s.id].class)
       /\ \A field \in Fields : s.rec[field] = recs[s.id][field]
       /\ s.rec.status = "open" => added = {s} /\ recs[s.id].status = "open"
  /\ \A s \in added : s.do = "create" =>
       \/ /\ step.do = "find"
          /\ s = [rank |-> 8, do |-> "create", class |-> "unresolved_gaps", text |-> step.text,
                  status |-> "open"]
          /\ \A i \in OpenGaps({step.text}) : recs[i].ns # task[c].ns
       \/ /\ step.do = "publish"
          /\ s = [rank |-> 22, do |-> "create", class |-> Reference, text |-> step.snap.stamp,
                  status |-> "open"]
  /\ \A s \in added : s.do = "link" =>
       step.do = "stamp" /\ added = {s} /\ s.stamp = clock + 1 /\ clock' = clock + 1
  /\ \A s \in added : s.do = "publish" =>
       step.do = "link" /\ added = {s} /\ s.snap = NewSnapshot(c, step)
  /\ step.do = "stamp" => task[c].refs = {} \/ \E s \in added : s.do = "link"
  /\ step.do = "link" => \E s \in added : s.do = "publish"

LEMMA CallStores ==
  ASSUME NEW c \in Clients, NEW step, Called(c, step)
  PROVE  Stores(c, step) /\ UNCHANGED <<posted, faults, overlapped>>
<1> USE DEF Stores
<1>1. CASE Create(c, step)
  BY <1>1 DEF Create, Called, Store, NewRecord
<1>2. CASE Find(c, step) \/ Get(c, step) \/ Match(c, step) \/ Transition(c, step) \/ Collect(c, step)
  BY <1>2 DEF Find, Get, Match, Transition, Collect, Called
<1>3. CASE Put(c, step)
  BY <1>3 DEF Put, Called
<1>4. CASE Stamp(c, step)
  BY <1>4 DEF Stamp, Called
<1>5. CASE Link(c, step) \/ Publish(c, step)
  BY <1>5 DEF Link, Publish, Called
<1>. QED BY <1>1, <1>2, <1>3, <1>4, <1>5 DEF Called

LEMMA LatestIsStamp ==
  ASSUME Types, StampInv, NEW ns
  PROVE  LatestSnapshot(ns) \in Nat
<1> DEFINE page == {s \in ScopeStamps(ns) :
                      Cardinality({r \in ScopeStamps(ns) : r <= s}) <= MaxPageSize}
<1>1. page \in SUBSET (0 .. clock)
  <2>1. \A k \in DOMAIN snaps : snaps[k].stamp \in 0 .. clock
    BY Stored DEF StampInv
  <2>2. ScopeStamps(ns) \in SUBSET (0 .. clock)
    BY <2>1 DEF ScopeStamps
  <2>. QED BY <2>2
<1>2. clock \in Nat
  BY Stored
<1>3. LatestSnapshot(ns) = IF page = {} THEN 0 ELSE CHOOSE s \in page : \A r \in page : r <= s
  BY DEF LatestSnapshot
<1> HIDE DEF page
<1>4. CASE page # {}
  <2>1. \E s \in page : \A r \in page : r <= s
    BY <1>1, <1>2, <1>4, GreatestOf
  <2>2. LatestSnapshot(ns) \in page
    BY <1>3, <1>4, <2>1
  <2>3. \A s \in page : s \in Nat
    BY <1>1, <1>2
  <2>. QED BY <2>2, <2>3
<1>. QED BY <1>3, <1>4

\* The copy that is to be written back.
LEMMA PutIsItem ==
  ASSUME NEW step, step.rank \in 1 .. 20, NEW i \in Nat, NEW rec \in ValidRecord
  PROVE  /\ PutOf(step, i, rec) \in PutItem
         /\ PutOf(step, i, rec).do = "put" /\ PutOf(step, i, rec).rank < step.rank
         /\ PutOf(step, i, rec).id = i /\ PutOf(step, i, rec).rec = rec
BY DEF PutOf, PutItem

LEMMA ChangedRecord ==
  ASSUME NEW r \in ValidRecord, NEW status \in Statuses, NEW at \in BOOLEAN,
         status = "resolved" => at = TRUE
  PROVE  /\ [r EXCEPT !.status = status, !.resolvedAt = at] \in ValidRecord
         /\ [r EXCEPT !.status = status, !.resolvedAt = at].status = status
         /\ \A field \in Fields :
              [r EXCEPT !.status = status, !.resolvedAt = at][field] = r[field]
BY DEF ValidRecord, RecordType, Fields

LEMMA ResolvedRecord ==
  ASSUME NEW r \in ValidRecord
  PROVE  /\ Resolved(r) \in ValidRecord /\ Resolved(r).status = "resolved"
         /\ \A field \in Fields : Resolved(r)[field] = r[field]
BY ChangedRecord DEF Resolved, Statuses

LEMMA CallAdds ==
  ASSUME Types, StampInv, NEW c \in Clients, NEW step, Called(c, step)
  PROVE  \E added \in SUBSET Item, refs \in SUBSET Nat : Adds(c, step, added, refs)
<1>0. /\ step \in Item /\ task[c] # Idle
      /\ task[c].ns \in Namespaces /\ task[c].refs \in SUBSET Nat
  BY TaskShape DEF Called
<1>a. /\ Len(recs) \in Nat /\ DOMAIN recs \in SUBSET Nat
      /\ \A i \in DOMAIN recs : recs[i] \in ValidRecord
  BY Stored
<1>1. CASE Create(c, step)
  <2> DEFINE refs == IF step.class = Reference THEN {} ELSE {Len(recs) + 1}
  <2>1. step.do = "create" /\ Proceed(c, step, {}, refs)
    BY <1>1 DEF Create, Reference
  <2>2. refs \in SUBSET Nat /\ {} \in SUBSET Item
    BY <1>a
  <2>3. Adds(c, step, {}, refs)
    BY <2>1 DEF Adds
  <2>. QED BY <2>2, <2>3
<1>2. CASE Find(c, step)
  <2> DEFINE found == {i \in OpenGaps({step.text}) : InScope(task[c].ns, recs[i].ns)}
  <2>1. step.do = "find" /\ step.rank = 9 /\ step.text \in Texts /\ step.class = "unresolved_gaps"
    BY <1>0, <1>2, ItemShape DEF Find
  <2>2. CASE found # {}
    <3> DEFINE i == First(found)
               put == PutOf(step, i, recs[i])
    <3>1. i \in found
      <4>1. found \in SUBSET Nat
        BY Stored
      <4> HIDE DEF found
      <4>. QED BY <2>2, <4>1, LeastOf
    <3>2. i \in DOMAIN recs /\ recs[i].class = "unresolved_gaps" /\ recs[i].status = "open"
      BY <3>1, Stored
    <3>3. Proceed(c, step, {put}, {})
      BY <1>2, <2>2 DEF Find
    <3> HIDE DEF i, found
    <3>4. put \in PutItem /\ put.do = "put" /\ put.rank < step.rank /\ put.id = i /\ put.rec = recs[i]
      BY <1>a, <2>1, <3>2, PutIsItem
    <3>5. Adds(c, step, {put}, {})
      BY <2>1, <3>2, <3>3, <3>4 DEF Adds, IsActionable
    <3>6. {put} \in SUBSET Item /\ {} \in SUBSET Nat
      BY <3>4 DEF Item
    <3>. QED BY <3>5, <3>6
  <2>3. CASE found = {}
    <3> DEFINE gap == [rank |-> 8, do |-> "create", class |-> "unresolved_gaps",
                       text |-> step.text, status |-> "open"]
    <3>1. Proceed(c, step, {gap}, {})
      BY <1>0, <1>2, <2>1, <2>3, ItemShape DEF Find
    <3>2. \A i \in OpenGaps({step.text}) : recs[i].ns # task[c].ns
      BY <2>3 DEF InScope
    <3>3. gap \in NoteItem
      BY <2>1 DEF NoteItem, Classes, ClassOrder, Statuses, Reference
    <3>4. /\ gap.do = "create"
          /\ gap = [rank |-> 8, do |-> "create", class |-> "unresolved_gaps", text |-> step.text,
                    status |-> "open"]
      OBVIOUS
    <3> HIDE DEF gap, found
    <3>5. Adds(c, step, {gap}, {})
      BY <2>1, <3>1, <3>2, <3>4 DEF Adds
    <3>6. {gap} \in SUBSET Item /\ {} \in SUBSET Nat
      BY <3>3 DEF Item
    <3>. QED BY <3>5, <3>6
  <2>. QED BY <2>2, <2>3
<1>3. CASE Put(c, step)
  <2>1. step.do = "put" /\ Proceed(c, step, {}, {step.id}) /\ step.id \in Nat
    BY <1>0, <1>3, ItemShape DEF Put
  <2>2. Adds(c, step, {}, {step.id})
    BY <2>1 DEF Adds
  <2>3. {} \in SUBSET Item /\ {step.id} \in SUBSET Nat
    BY <2>1
  <2>. QED BY <2>2, <2>3
<1>4. CASE Get(c, step)
  <2>1. step.do = "get" /\ step.rank = 17 /\ step.id \in Nat
    BY <1>0, <1>4, ItemShape DEF Get
  <2> DEFINE put == PutOf(step, step.id, Resolved(recs[step.id]))
  <2>2. CASE \/ Proceed(c, step, {}, {})
             \/ step.id \in DOMAIN recs /\ Proceed(c, step, {}, {step.id})
    <3>1. Adds(c, step, {}, {}) \/ Adds(c, step, {}, {step.id})
      BY <2>1, <2>2 DEF Adds
    <3>2. {} \in SUBSET Item /\ {} \in SUBSET Nat /\ {step.id} \in SUBSET Nat
      BY <2>1
    <3>. QED BY <3>1, <3>2
  <2>3. CASE /\ step.id \in DOMAIN recs /\ IsActionable(recs[step.id].class)
             /\ Proceed(c, step, {put}, {})
    <3>1. /\ put \in PutItem /\ put.do = "put" /\ put.rank < step.rank /\ put.id = step.id
          /\ put.rec = Resolved(recs[step.id])
      BY <1>a, <2>1, <2>3, PutIsItem, ResolvedRecord
    <3>2. /\ Resolved(recs[step.id]).status = "resolved"
          /\ \A field \in Fields : Resolved(recs[step.id])[field] = recs[step.id][field]
      BY <1>a, <2>3, ResolvedRecord
    <3> HIDE DEF put
    <3>3. Adds(c, step, {put}, {})
      BY <2>1, <2>3, <3>1, <3>2 DEF Adds
    <3>4. {put} \in SUBSET Item /\ {} \in SUBSET Nat
      BY <3>1 DEF Item
    <3>. QED BY <3>3, <3>4
  <2>. QED BY <1>4, <2>2, <2>3 DEF Get
<1>5. CASE Match(c, step)
  <2> DEFINE puts == {PutOf(step, i, Resolved(recs[i])) : i \in OpenGaps(step.texts)}
  <2>1. step.do = "match" /\ step.rank = 19 /\ Proceed(c, step, puts, {})
    BY <1>0, <1>5, ItemShape DEF Match
  <2>2. ASSUME NEW s \in puts
        PROVE  /\ s \in PutItem /\ s.do = "put" /\ s.rank < step.rank
               /\ s.id \in DOMAIN recs /\ IsActionable(recs[s.id].class)
               /\ \A field \in Fields : s.rec[field] = recs[s.id][field]
               /\ s.rec.status = "resolved"
    <3>1. PICK i \in OpenGaps(step.texts) : s = PutOf(step, i, Resolved(recs[i]))
      OBVIOUS
    <3>2. i \in DOMAIN recs /\ recs[i].class = "unresolved_gaps" /\ recs[i] \in ValidRecord
      BY <1>a, Stored
    <3>3. /\ s \in PutItem /\ s.do = "put" /\ s.rank < step.rank
          /\ s.id = i /\ s.rec = Resolved(recs[i])
      BY <1>a, <2>1, <3>1, <3>2, PutIsItem, ResolvedRecord
    <3>. QED BY <3>2, <3>3, ResolvedRecord DEF IsActionable
  <2> HIDE DEF puts
  <2>3. Adds(c, step, puts, {})
    BY <2>1, <2>2 DEF Adds
  <2>4. puts \in SUBSET Item /\ {} \in SUBSET Nat
    BY <2>2 DEF Item
  <2>. QED BY <2>3, <2>4
<1>6. CASE Transition(c, step)
  <2>1. step.do = "transition" /\ step.rank = 1 /\ step.id \in Nat /\ step.target \in Statuses
    BY <1>0, <1>6, ItemShape DEF Transition
  <2> DEFINE i == step.id
             at == CASE step.target = "resolved" -> TRUE
                     [] step.target = "open" -> FALSE
                     [] OTHER -> recs[i].resolvedAt
             changed == [recs[i] EXCEPT !.status = step.target, !.resolvedAt = at]
  <2>2. CASE Proceed(c, step, {}, {})
    <3>1. Adds(c, step, {}, {})
      BY <2>1, <2>2 DEF Adds
    <3>. QED BY <3>1
  <2>3. CASE /\ i \in DOMAIN recs /\ IsActionable(recs[i].class)
             /\ IsAllowedStatusTransition(recs[i].status, step.target)
             /\ Proceed(c, step, {PutOf(step, i, changed)}, {})
    <3>1. recs[i] \in ValidRecord /\ recs[i].resolvedAt \in BOOLEAN
      BY <1>a, <2>3 DEF ValidRecord, RecordType
    <3>2. at \in BOOLEAN /\ (step.target = "resolved" => at = TRUE)
      BY <3>1
    <3> HIDE DEF at
    <3>3. /\ changed \in ValidRecord /\ changed.status = step.target
          /\ \A field \in Fields : changed[field] = recs[i][field]
      <4> DEFINE r == recs[i]
      <4>1. r \in ValidRecord
        BY <3>1
      <4>2. changed = [r EXCEPT !.status = step.target, !.resolvedAt = at]
        OBVIOUS
      <4> HIDE DEF r, changed
      <4>3. /\ changed \in ValidRecord /\ changed.status = step.target
            /\ \A field \in Fields : changed[field] = r[field]
        BY <2>1, <3>2, <4>1, <4>2 DEF ValidRecord, RecordType, Fields
      <4>. QED BY <4>3 DEF r
    <3>4. step.target = "open" => recs[i].status = "open"
      BY <2>3 DEF IsAllowedStatusTransition
    <3> DEFINE put == PutOf(step, i, changed)
    <3> HIDE DEF changed
    <3>5. /\ put \in PutItem /\ put.do = "put" /\ put.rank < step.rank
          /\ put.id = i /\ put.rec = changed
      BY <2>1, <3>3, PutIsItem
    <3>6. Proceed(c, step, {put}, {})
      BY <2>3
    <3> HIDE DEF put
    <3>7. Adds(c, step, {put}, {})
      BY <2>1, <2>3, <3>3, <3>4, <3>5, <3>6 DEF Adds
    <3>8. {put} \in SUBSET Item /\ {} \in SUBSET Nat
      BY <3>5 DEF Item
    <3>. QED BY <3>7, <3>8
  <2>. QED BY <1>6, <2>2, <2>3 DEF Transition
<1>7. CASE Collect(c, step)
  <2> DEFINE refs == {i \in DOMAIN recs : task[c].ns.cycle # "" => recs[i].ns.cycle = task[c].ns.cycle}
  <2>1. step.do = "collect" /\ Proceed(c, step, {}, refs)
    BY <1>7 DEF Collect
  <2>2. refs \in SUBSET Nat /\ {} \in SUBSET Item
    BY <1>a
  <2> HIDE DEF refs
  <2>3. Adds(c, step, {}, refs)
    BY <2>1 DEF Adds
  <2>. QED BY <2>2, <2>3
<1>8. CASE Stamp(c, step)
  <2> DEFINE link == [rank |-> 21, do |-> "link", notes |-> step.notes, stamp |-> clock + 1]
  <2>1. step.do = "stamp" /\ step.notes \in BOOLEAN /\ clock \in Nat
    BY <1>0, <1>8, ItemShape, Stored DEF Stamp
  <2>2. CASE Proceed(c, step, {}, {}) /\ task[c].refs = {}
    <3>1. Adds(c, step, {}, {})
      BY <2>1, <2>2 DEF Adds
    <3>. QED BY <3>1
  <2>3. CASE Proceed(c, step, {link}, {}) /\ clock' = clock + 1
    <3>1. link \in LinkItem /\ link.do = "link" /\ link.stamp = clock + 1
      BY <2>1 DEF LinkItem
    <3> HIDE DEF link
    <3>2. Adds(c, step, {link}, {})
      BY <2>1, <2>3, <3>1 DEF Adds
    <3>3. {link} \in SUBSET Item /\ {} \in SUBSET Nat
      BY <3>1 DEF Item
    <3>. QED BY <3>2, <3>3
  <2>. QED BY <1>8, <2>2, <2>3 DEF Stamp
<1>9. CASE Link(c, step)
  <2> DEFINE publish == [rank |-> 21, do |-> "publish", notes |-> step.notes,
                         snap |-> NewSnapshot(c, step)]
  <2>1. step.do = "link" /\ step.notes \in BOOLEAN /\ step.stamp \in Nat \ {0}
    BY <1>0, <1>9, ItemShape DEF Link
  <2>2. Proceed(c, step, {publish}, {})
    BY <1>9 DEF Link, NewSnapshot
  <2>3. NewSnapshot(c, step) \in SnapshotType
    BY <1>0, <2>1, LatestIsStamp DEF NewSnapshot, SnapshotType
  <2>4. publish \in PublishItem /\ publish.do = "publish" /\ publish.snap = NewSnapshot(c, step)
    BY <2>1, <2>3 DEF PublishItem
  <2> HIDE DEF publish
  <2>5. Adds(c, step, {publish}, {})
    BY <2>1, <2>2, <2>4 DEF Adds
  <2>6. {publish} \in SUBSET Item /\ {} \in SUBSET Nat
    BY <2>4 DEF Item
  <2>. QED BY <2>5, <2>6
<1>10. CASE Publish(c, step)
  <2> DEFINE ref == [rank |-> 22, do |-> "create", class |-> Reference,
                     text |-> step.snap.stamp, status |-> "open"]
  <2>1. step.do = "publish" /\ step.snap \in SnapshotType
    BY <1>0, <1>10, ItemShape DEF Publish
  <2>2. CASE Proceed(c, step, {}, {})
    <3>1. Adds(c, step, {}, {})
      BY <2>1, <2>2 DEF Adds
    <3>. QED BY <3>1
  <2>3. CASE Proceed(c, step, {ref}, {})
    <3>1. ref \in ReferenceItem /\ ref.do = "create"
      BY <2>1 DEF ReferenceItem, SnapshotType
    <3>2. Adds(c, step, {ref}, {})
      BY <2>1, <2>3, <3>1 DEF Adds
    <3>3. {ref} \in SUBSET Item /\ {} \in SUBSET Nat
      BY <3>1 DEF Item
    <3>. QED BY <3>2, <3>3
  <2>. QED BY <1>10, <2>2, <2>3 DEF Publish, Reference
<1>. QED
  BY <1>1, <1>2, <1>3, <1>4, <1>5, <1>6, <1>7, <1>8, <1>9, <1>10 DEF Called

\* The whole of a call, for the lemmas below.
After(c, step, added, refs) ==
  /\ added \in SUBSET Item /\ refs \in SUBSET Nat /\ Adds(c, step, added, refs)
  /\ task'[c].work = (task[c].work \ {step}) \cup added
  /\ task'[c].work # {} => task'[c].ns = task[c].ns /\ task'[c].refs = task[c].refs \cup refs
  /\ \A d \in Clients \ {c} : task'[d] = task[d]

LEMMA CallAfter ==
  ASSUME Types, StampInv, NEW c \in Clients, NEW step, Called(c, step)
  PROVE  \E added, refs : After(c, step, added, refs)
<1>1. PICK added \in SUBSET Item, refs \in SUBSET Nat : Adds(c, step, added, refs)
  BY CallAdds
<1>2. step \in task[c].work /\ Proceed(c, step, added, refs)
  BY <1>1 DEF Called, Adds
<1>3. /\ task'[c].work = (task[c].work \ {step}) \cup added
      /\ task'[c].work # {} => task'[c].ns = task[c].ns /\ task'[c].refs = task[c].refs \cup refs
      /\ \A d \in Clients \ {c} : task'[d] = task[d]
  BY <1>2, WorkAfter
<1>. QED BY <1>1, <1>3 DEF After

LEMMA NewRecordIsValid ==
  ASSUME Types, NEW c \in Clients, NEW step \in task[c].work, step.do = "create"
  PROVE  /\ NewRecord(c, step) \in ValidRecord
         /\ NewRecord(c, step).ns = task[c].ns /\ NewRecord(c, step).class = step.class
         /\ NewRecord(c, step).text = step.text /\ NewRecord(c, step).status = step.status
<1>1. task[c].ns \in Namespaces /\ step \in Item
  BY TaskShape
<1>2. step.class \in Classes /\ step.text \in Texts \cup Nat /\ step.status \in Statuses
  BY <1>1, ItemShape DEF Classes, Reference, Statuses
<1>3. CASE step.status = "resolved"
  BY <1>1, <1>2, <1>3 DEF NewRecord, ValidRecord, RecordType
<1>4. CASE step.status # "resolved"
  BY <1>1, <1>2, <1>4 DEF NewRecord, ValidRecord, RecordType
<1>. QED BY <1>3, <1>4

\* The records stay where they are and say what they said.
RecordsStay(c, step) ==
  /\ DOMAIN recs \subseteq DOMAIN recs'
  /\ \A i \in DOMAIN recs : /\ \A field \in Fields : recs'[i][field] = recs[i][field]
                            /\ IsActionable(recs[i].class) \/ recs'[i] = recs[i]
                            /\ \/ recs'[i] = recs[i]
                               \/ step.do = "put" /\ i = step.id /\ recs'[i] = step.rec
  /\ \A i \in DOMAIN recs' \ DOMAIN recs :
       /\ step.do = "create" /\ i = Len(recs) + 1
       /\ recs'[i].ns = task[c].ns /\ recs'[i].class = step.class
       /\ recs'[i].text = step.text /\ recs'[i].status = step.status
  /\ step.do = "create" => Len(recs) + 1 \in DOMAIN recs' \ DOMAIN recs
  /\ step.do \notin {"create", "put"} => recs' = recs

LEMMA CallRecords ==
  ASSUME Types, PutInv, NEW c \in Clients, NEW step, Called(c, step)
  PROVE  /\ RecordsStay(c, step)
         /\ recs' \in Seq(RecordType) /\ \A i \in DOMAIN recs' : recs'[i] \in ValidRecord
<1>1. /\ recs \in Seq(RecordType) /\ DOMAIN recs = 1 .. Len(recs) /\ Len(recs) \in Nat
      /\ \A i \in DOMAIN recs : recs[i] \in ValidRecord
  BY Stored DEF Types, TypeOK
<1>2. Stores(c, step) /\ step \in task[c].work /\ step \in Item
  BY CallStores, TaskShape DEF Called
<1>3. CASE step.do = "create"
  <2>1. recs' = Append(recs, NewRecord(c, step))
    BY <1>2, <1>3 DEF Stores
  <2>2. /\ NewRecord(c, step) \in ValidRecord
        /\ NewRecord(c, step).ns = task[c].ns /\ NewRecord(c, step).class = step.class
        /\ NewRecord(c, step).text = step.text /\ NewRecord(c, step).status = step.status
    BY <1>2, <1>3, NewRecordIsValid
  <2>3. NewRecord(c, step) \in RecordType
    BY <2>2 DEF ValidRecord
  <2>4. /\ recs' \in Seq(RecordType) /\ DOMAIN recs' = 1 .. (Len(recs) + 1)
        /\ recs'[Len(recs) + 1] = NewRecord(c, step)
        /\ \A i \in DOMAIN recs : recs'[i] = recs[i]
    BY <1>1, <2>1, <2>3, Positions
  <2>5. DOMAIN recs' = DOMAIN recs \cup {Len(recs) + 1} /\ Len(recs) + 1 \notin DOMAIN recs
    BY <1>1, <2>4
  <2>6. \A i \in DOMAIN recs' : recs'[i] \in ValidRecord
    BY <1>1, <2>2, <2>4, <2>5
  <2>7. RecordsStay(c, step)
    BY <1>3, <2>2, <2>4, <2>5 DEF RecordsStay
  <2>. QED BY <2>4, <2>6, <2>7
<1>4. CASE step.do = "put"
  <2>1. recs' = [recs EXCEPT ![step.id] = step.rec]
    BY <1>2, <1>4 DEF Stores
  <2>2. /\ step.id \in DOMAIN recs /\ IsActionable(recs[step.id].class)
        /\ \A field \in Fields : step.rec[field] = recs[step.id][field]
    BY <1>2, <1>4 DEF PutInv
  <2>3. step.rec \in ValidRecord
    BY <1>2, <1>4, ItemShape
  <2>4. /\ DOMAIN recs' = DOMAIN recs /\ recs'[step.id] = step.rec
        /\ \A i \in DOMAIN recs \ {step.id} : recs'[i] = recs[i]
    BY <1>1, <2>1, <2>2
  <2>5. recs' \in Seq(RecordType)
    <3>1. step.rec \in RecordType
      BY <2>3 DEF ValidRecord
    <3>. QED BY <1>1, <2>1, <2>2, <3>1, ExceptSeq
  <2>6. \A i \in DOMAIN recs' : recs'[i] \in ValidRecord
    BY <1>1, <2>3, <2>4
  <2>7. RecordsStay(c, step)
    BY <1>4, <2>2, <2>4 DEF RecordsStay
  <2>. QED BY <2>5, <2>6, <2>7
<1>5. CASE step.do \notin {"create", "put"}
  <2>1. recs' = recs
    BY <1>2, <1>5 DEF Stores
  <2>. QED BY <1>1, <1>5, <2>1 DEF RecordsStay
<1>. QED BY <1>3, <1>4, <1>5

\* So do the snapshots, and the clock does not go back.
SnapshotsStay(step) ==
  /\ DOMAIN snaps \subseteq DOMAIN snaps'
  /\ \A k \in DOMAIN snaps : snaps'[k] = snaps[k]
  /\ \A k \in DOMAIN snaps' \ DOMAIN snaps :
       step.do = "publish" /\ k = Len(snaps) + 1 /\ snaps'[k] = step.snap
  /\ step.do = "publish" => Len(snaps) + 1 \in DOMAIN snaps' \ DOMAIN snaps
  /\ step.do # "publish" => snaps' = snaps
  /\ clock' \in Nat /\ clock <= clock'

LEMMA CallSnapshots ==
  ASSUME Types, NEW c \in Clients, NEW step, Called(c, step)
  PROVE  SnapshotsStay(step) /\ snaps' \in Seq(SnapshotType)
<1>1. /\ snaps \in Seq(SnapshotType) /\ DOMAIN snaps = 1 .. Len(snaps) /\ Len(snaps) \in Nat
      /\ clock \in Nat
  BY Stored DEF Types, TypeOK
<1>2. Stores(c, step) /\ step \in task[c].work /\ step \in Item
  BY CallStores, TaskShape DEF Called
<1>3. clock' \in Nat /\ clock <= clock'
  BY <1>1, <1>2 DEF Stores
<1>4. CASE step.do = "publish"
  <2>1. snaps' = Append(snaps, step.snap)
    BY <1>2, <1>4 DEF Stores
  <2>2. step.snap \in SnapshotType
    BY <1>2, <1>4, ItemShape
  <2>3. /\ snaps' \in Seq(SnapshotType) /\ DOMAIN snaps' = 1 .. (Len(snaps) + 1)
        /\ snaps'[Len(snaps) + 1] = step.snap
        /\ \A k \in DOMAIN snaps : snaps'[k] = snaps[k]
    BY <1>1, <2>1, <2>2, Positions
  <2>4. DOMAIN snaps' = DOMAIN snaps \cup {Len(snaps) + 1} /\ Len(snaps) + 1 \notin DOMAIN snaps
    BY <1>1, <2>3
  <2>. QED BY <1>3, <1>4, <2>3, <2>4 DEF SnapshotsStay
<1>5. CASE step.do # "publish"
  <2>1. snaps' = snaps
    BY <1>2, <1>5 DEF Stores
  <2>. QED BY <1>1, <1>3, <1>5, <2>1 DEF SnapshotsStay
<1>. QED BY <1>4, <1>5

-----------------------------------------------------------------------------
\* Each part of the invariant is kept.

\* A request begins.
BeginsAs(c, t) ==
  /\ t \in Task /\ Begins(t) /\ task[c] = Idle /\ task'[c] = t
  /\ \A d \in Clients \ {c} : task'[d] = task[d]
  /\ UNCHANGED <<recs, snaps, clock, faults>>
  /\ ~overlapped' => ~overlapped /\ \A d \in Clients : task[d] = Idle

LEMMA BegunAs ==
  ASSUME Types, NEW c \in Clients, Begun(c)
  PROVE  /\ \E t : BeginsAs(c, t)
         /\ posted' \in 0 .. MaxPosts /\ overlapped' \in BOOLEAN
<1>1. PICK t \in Task : Begins(t) /\ Begin(c, t)
  BY DEF Begun
<1>2. task \in [Clients -> Task] /\ posted \in 0 .. MaxPosts /\ overlapped \in BOOLEAN
  BY DEF Types, TypeOK
<1>3. BeginsAs(c, t)
  BY <1>1, <1>2 DEF BeginsAs, Begin
<1>4. overlapped' \in BOOLEAN
  BY <1>1, <1>2 DEF Begin
<1>. QED BY <1>2, <1>3, <1>4 DEF Begun

\* A call fails.
FailsAs(c) ==
  /\ task'[c] = Idle /\ \A d \in Clients \ {c} : task'[d] = task[d]
  /\ UNCHANGED <<recs, snaps, clock, posted, overlapped>>
  /\ faults' \in 1 .. MaxFaults

LEMMA FailAs ==
  ASSUME Types, NEW c \in Clients, Fail(c)
  PROVE  FailsAs(c)
BY BoundAssumption DEF Fail, FailsAs, Types, TypeOK

\* Nothing is left to do for a client that is idle.
LEMMA IdleWork == Idle.work = {} /\ Idle \in Task
BY DEF Idle, Task

LEMMA FreshShape ==
  ASSUME NEW t, Begins(t), NEW s \in t.work
  PROVE  /\ s \in Item
         /\ s.do \notin {"put", "link", "publish"}
         /\ s.do = "create" => s.class \notin {Reference, "unresolved_gaps"}
BY DEF Begins, Fresh, Item, NoteItem, FindItem, GetItem, MatchItem, StatusItem, CollectItem, StampItem

LEMMA TypesStep ==
  ASSUME Types, PutInv, StampInv, [Next]_vars
  PROVE  Types'
<1>0. /\ task \in [Clients -> Task] /\ recs \in Seq(RecordType) /\ snaps \in Seq(SnapshotType)
      /\ \A i \in DOMAIN recs : recs[i].status = "resolved" => recs[i].resolvedAt
      /\ clock \in Nat /\ posted \in 0 .. MaxPosts /\ faults \in 0 .. MaxFaults
      /\ overlapped \in BOOLEAN
  BY DEF Types, TypeOK
<1>1. CASE \E c \in Clients : Begun(c)
  <2>1. PICK c \in Clients : Begun(c)
    BY <1>1
  <2>2. PICK t \in Task : Begin(c, t)
    BY <2>1 DEF Begun
  <2>3. posted' \in 0 .. MaxPosts /\ overlapped' \in BOOLEAN
    BY <2>1, BegunAs
  <2>4. task' \in [Clients -> Task]
    BY <1>0, <2>2 DEF Begin
  <2>. QED BY <1>0, <2>2, <2>3, <2>4 DEF Types, TypeOK, Begin
<1>2. CASE \E c \in Clients : \E step \in task[c].work : Called(c, step)
  <2>1. PICK c \in Clients : \E step \in task[c].work : Called(c, step)
    BY <1>2
  <2>2. PICK step \in task[c].work : Called(c, step)
    BY <2>1
  <2>3. PICK added \in SUBSET Item, refs \in SUBSET Nat : Adds(c, step, added, refs)
    BY <2>2, CallAdds
  <2>4. task' \in [Clients -> Task]
    <3>1. Proceed(c, step, added, refs)
      BY <2>3 DEF Adds
    <3>2. task'[c] \in Task
      <4> DEFINE left == (task[c].work \ {step}) \cup added
      <4>1. task'[c] = GoesOn(task[c], left, refs)
        BY <1>0, <3>1 DEF Proceed
      <4>2. /\ left \in SUBSET Item
            /\ task[c] = [ns |-> task[c].ns, refs |-> task[c].refs, work |-> task[c].work]
            /\ task[c].ns \in Namespaces /\ task[c].refs \in SUBSET Nat
        BY TaskShape
      <4> HIDE DEF left
      <4>3. CASE left = {}
        BY <4>1, <4>3, IdleWork DEF GoesOn
      <4>4. CASE left # {}
        <5>1. task'[c] = [ns |-> task[c].ns, refs |-> task[c].refs \cup refs, work |-> left]
          BY <4>1, <4>2, <4>4 DEF GoesOn
        <5>2. task[c].refs \cup refs \in SUBSET Nat
          BY <4>2
        <5>. QED BY <4>2, <5>1, <5>2 DEF Task
      <4>. QED BY <4>3, <4>4
    <3>. QED BY <1>0, <3>1, <3>2 DEF Proceed
  <2>5. recs' \in Seq(RecordType) /\ \A i \in DOMAIN recs' : recs'[i] \in ValidRecord
    BY <2>2, CallRecords
  <2>6. snaps' \in Seq(SnapshotType) /\ clock' \in Nat
    BY <2>2, CallSnapshots DEF SnapshotsStay
  <2>7. UNCHANGED <<posted, faults, overlapped>>
    BY <2>2 DEF Called
  <2>8. \A i \in DOMAIN recs' : recs'[i].status = "resolved" => recs'[i].resolvedAt
    BY <2>5 DEF ValidRecord
  <2>. QED BY <1>0, <2>4, <2>5, <2>6, <2>7, <2>8 DEF Types, TypeOK
<1>3. CASE \E c \in Clients : Fail(c)
  <2>1. PICK c \in Clients : Fail(c)
    BY <1>3
  <2>2. task' \in [Clients -> Task]
    BY <1>0, <2>1, IdleWork DEF Fail
  <2>. QED BY <1>0, <2>1, <2>2, BoundAssumption DEF Types, TypeOK, Fail
<1>4. CASE UNCHANGED vars
  BY <1>4 DEF Types, TypeOK, vars
<1>. QED BY <1>1, <1>2, <1>3, <1>4, StepCases

\* A call is of the least rank, and what it adds is well formed.
LEMMA CallOrder ==
  ASSUME Types, NEW c \in Clients, NEW step, Called(c, step)
  PROVE  /\ step \in task[c].work /\ step \in Item /\ task[c] # Idle
         /\ \A s \in task[c].work : s \in Item /\ step.rank <= s.rank
BY TaskShape DEF Called, IsNext

LEMMA PutStep ==
  ASSUME Types, PutInv, StampInv, [Next]_vars
  PROVE  PutInv'
<1>1. ASSUME NEW c \in Clients, Begun(c)
      PROVE  PutInv'
  <2>1. PICK t : BeginsAs(c, t)
    BY <1>1, BegunAs
  <2>2. \A s \in t.work : s.do # "put"
    BY <2>1, FreshShape DEF BeginsAs
  <2>. QED BY <2>1, <2>2 DEF BeginsAs, PutInv
<1>2. ASSUME NEW c \in Clients, NEW step, Called(c, step)
      PROVE  PutInv'
  <2>1. PICK added, refs : After(c, step, added, refs)
    BY <1>2, CallAfter
  <2>2. RecordsStay(c, step)
    BY <1>2, CallRecords
  <2>3. \A i \in DOMAIN recs : /\ i \in DOMAIN recs' /\ recs'[i].class = recs[i].class
                              /\ \A field \in Fields : recs'[i][field] = recs[i][field]
    BY <2>2 DEF RecordsStay, Fields
  <2>4. SUFFICES ASSUME NEW d \in Clients, NEW s \in task'[d].work, s.do = "put"
                 PROVE  /\ s.id \in DOMAIN recs /\ IsActionable(recs[s.id].class)
                        /\ \A field \in Fields : s.rec[field] = recs[s.id][field]
    BY <2>3 DEF PutInv
  <2>5. CASE s \in task[d].work
    BY <2>4, <2>5 DEF PutInv
  <2>6. CASE s \notin task[d].work
    <3>1. d = c /\ s \in added
      BY <2>1, <2>6 DEF After
    <3>. QED BY <2>1, <2>4, <3>1 DEF After, Adds
  <2>. QED BY <2>5, <2>6
<1>3. ASSUME NEW c \in Clients, Fail(c)
      PROVE  PutInv'
  BY <1>3, FailAs, IdleWork DEF FailsAs, PutInv
<1>4. CASE UNCHANGED vars
  BY <1>4 DEF PutInv, vars
<1>. QED BY <1>1, <1>2, <1>3, <1>4, StepCases

\* What is to be written back open goes first.
LEMMA OpenPutIsNext ==
  ASSUME Types, UrgentInv, NEW c \in Clients, NEW step, Called(c, step),
         NEW s \in task[c].work, s.do = "put", s.rec.status = "open"
  PROVE  s = step
<1>1. /\ step \in task[c].work /\ step \in Item /\ s \in Item /\ step.rank <= s.rank
  BY CallOrder
<1>2. s.rank \in Nat /\ step.rank \in Nat
  BY <1>1, ItemShape
<1>3. s # step => s.rank < step.rank
  BY <1>1 DEF UrgentInv
<1>. QED BY <1>1, <1>2, <1>3

LEMMA UrgentStep ==
  ASSUME Types, StampInv, UrgentInv, [Next]_vars
  PROVE  UrgentInv'
<1>1. ASSUME NEW c \in Clients, Begun(c)
      PROVE  UrgentInv'
  <2>1. PICK t : BeginsAs(c, t)
    BY <1>1, BegunAs
  <2>2. \A s \in t.work : s.do # "put"
    BY <2>1, FreshShape DEF BeginsAs
  <2>. QED BY <2>1, <2>2 DEF BeginsAs, UrgentInv
<1>2. ASSUME NEW c \in Clients, NEW step, Called(c, step)
      PROVE  UrgentInv'
  <2>1. PICK added, refs : After(c, step, added, refs)
    BY <1>2, CallAfter
  <2>2. SUFFICES ASSUME NEW d \in Clients, NEW s \in task'[d].work, NEW t \in task'[d].work,
                        s.do = "put", s.rec.status = "open", t # s
                 PROVE  s.rank < t.rank
    BY DEF UrgentInv
  <2>3. CASE d # c
    BY <2>1, <2>2, <2>3 DEF After, UrgentInv
  <2>4. CASE d = c /\ s \notin added
    <3>1. s \in task[c].work /\ s # step
      BY <2>1, <2>2, <2>4 DEF After
    <3>. QED BY <1>2, <2>2, <3>1, OpenPutIsNext
  <2>5. CASE d = c /\ s \in added
    <3>1. s.rank < step.rank /\ added = {s} /\ s \in Item
      BY <2>1, <2>2, <2>5 DEF After, Adds
    <3>2. t \in task[c].work
      BY <2>1, <2>2, <2>5, <3>1 DEF After
    <3>3. step.rank <= t.rank /\ step \in Item /\ t \in Item
      BY <1>2, <3>2, CallOrder
    <3>4. s.rank \in Nat /\ step.rank \in Nat /\ t.rank \in Nat
      BY <3>1, <3>3, ItemShape
    <3>. QED BY <3>1, <3>3, <3>4
  <2>. QED BY <2>3, <2>4, <2>5
<1>3. ASSUME NEW c \in Clients, Fail(c)
      PROVE  UrgentInv'
  BY <1>3, FailAs, IdleWork DEF FailsAs, UrgentInv
<1>4. CASE UNCHANGED vars
  BY <1>4 DEF UrgentInv, vars
<1>. QED BY <1>1, <1>2, <1>3, <1>4, StepCases

LEMMA SnapshotStep ==
  ASSUME Types, StampInv, SnapshotInv, [Next]_vars
  PROVE  SnapshotInv'
<1>1. ASSUME NEW c \in Clients, Begun(c)
      PROVE  SnapshotInv'
  <2>1. PICK t : BeginsAs(c, t)
    BY <1>1, BegunAs
  <2>. QED BY <2>1 DEF BeginsAs, Begins, SnapshotInv
<1>2. ASSUME NEW c \in Clients, NEW step, Called(c, step)
      PROVE  SnapshotInv'
  <2>1. PICK added, refs : After(c, step, added, refs)
    BY <1>2, CallAfter
  <2>2. SUFFICES ASSUME NEW d \in Clients, NEW s \in task'[d].work,
                        s.do \in {"create", "find"}, s.class # Reference
                 PROVE  \E t \in task'[d].work : t.do = "stamp"
    BY DEF SnapshotInv
  <2>3. CASE d # c
    BY <2>1, <2>2, <2>3 DEF After, SnapshotInv
  <2>4. CASE d = c /\ s \notin added
    <3>1. s \in task[c].work
      BY <2>1, <2>2, <2>4 DEF After
    <3>2. PICK t \in task[c].work : t.do = "stamp"
      BY <2>2, <3>1 DEF SnapshotInv
    <3>3. s \in Item /\ step.rank <= s.rank /\ step \in Item
      BY <1>2, <3>1, CallOrder
    <3>4. s.rank \in 0 .. 20 /\ step.rank \in Nat /\ (step.do = "stamp" => step.rank = 21)
      BY <2>2, <3>3, ItemShape
    <3>5. t # step
      BY <3>2, <3>3, <3>4
    <3>. QED BY <2>1, <2>4, <3>2, <3>5 DEF After
  <2>5. CASE d = c /\ s \in added
    <3>1. step.do = "find" /\ step.class # Reference
      <4>1. step.do = "find"
        BY <2>1, <2>2, <2>5 DEF After, Adds
      <4>2. step \in Item
        BY <1>2, CallOrder
      <4>. QED BY <4>1, <4>2, ItemShape DEF Reference
    <3>2. PICK t \in task[c].work : t.do = "stamp"
      BY <1>2, <3>1, CallOrder DEF SnapshotInv
    <3>. QED BY <2>1, <2>5, <3>1, <3>2 DEF After
  <2>. QED BY <2>3, <2>4, <2>5
<1>3. ASSUME NEW c \in Clients, Fail(c)
      PROVE  SnapshotInv'
  BY <1>3, FailAs, IdleWork DEF FailsAs, SnapshotInv
<1>4. CASE UNCHANGED vars
  BY <1>4 DEF SnapshotInv, vars
<1>. QED BY <1>1, <1>2, <1>3, <1>4, StepCases

LEMMA OneSnapshotStep ==
  ASSUME Types, StampInv, OneSnapshotInv, [Next]_vars
  PROVE  OneSnapshotInv'
<1>1. ASSUME NEW c \in Clients, Begun(c)
      PROVE  OneSnapshotInv'
  <2>1. PICK t : BeginsAs(c, t)
    BY <1>1, BegunAs
  <2>2. \A s \in t.work : s.do \in Making => s.do = "stamp"
    BY <2>1, FreshShape DEF BeginsAs, Making
  <2>3. \A s, u \in t.work : s.do \in Making /\ u.do \in Making => s = u
    BY <2>1, <2>2 DEF BeginsAs, Begins
  <2>. QED BY <2>1, <2>3 DEF BeginsAs, OneSnapshotInv
<1>2. ASSUME NEW c \in Clients, NEW step, Called(c, step)
      PROVE  OneSnapshotInv'
  <2>1. PICK added, refs : After(c, step, added, refs)
    BY <1>2, CallAfter
  <2>2. step \in task[c].work
    BY <1>2, CallOrder
  <2>3. \A s \in added : s.do \in Making => step.do \in Making /\ added = {s}
    BY <2>1 DEF After, Adds, Making
  <2>4. \A s, t \in task'[c].work : s.do \in Making /\ t.do \in Making => s = t
    BY <2>1, <2>2, <2>3 DEF After, OneSnapshotInv
  <2>. QED BY <2>1, <2>4 DEF After, OneSnapshotInv
<1>3. ASSUME NEW c \in Clients, Fail(c)
      PROVE  OneSnapshotInv'
  BY <1>3, FailAs, IdleWork DEF FailsAs, OneSnapshotInv
<1>4. CASE UNCHANGED vars
  BY <1>4 DEF OneSnapshotInv, vars
<1>. QED BY <1>1, <1>2, <1>3, <1>4, StepCases

LEMMA AloneStep ==
  ASSUME Types, StampInv, AloneInv, [Next]_vars
  PROVE  AloneInv'
<1>1. ASSUME NEW c \in Clients, Begun(c)
      PROVE  AloneInv'
  <2>1. PICK t : BeginsAs(c, t)
    BY <1>1, BegunAs
  <2>. QED BY <2>1 DEF BeginsAs, AloneInv
<1>2. ASSUME NEW c \in Clients, NEW step, Called(c, step)
      PROVE  AloneInv'
  <2>1. PICK added, refs : After(c, step, added, refs)
    BY <1>2, CallAfter
  <2>2. task[c] # Idle /\ overlapped' = overlapped
    BY <1>2, CallOrder DEF Called
  <2>3. \A d \in Clients \ {c} : task'[d] = task[d]
    BY <2>1 DEF After
  <2>. QED BY <2>2, <2>3 DEF AloneInv
<1>3. ASSUME NEW c \in Clients, Fail(c)
      PROVE  AloneInv'
  BY <1>3, FailAs DEF FailsAs, AloneInv
<1>4. CASE UNCHANGED vars
  BY <1>4 DEF AloneInv, vars
<1>. QED BY <1>1, <1>2, <1>3, <1>4, StepCases

\* While requests come one at a time, only the client that calls is busy.
LEMMA CallerIsAlone ==
  ASSUME Types, StampInv, AloneInv, NEW c \in Clients, NEW step, Called(c, step), ~overlapped'
  PROVE  ~overlapped /\ \A d \in Clients \ {c} : task[d] = Idle /\ task'[d] = Idle
<1>1. PICK added, refs : After(c, step, added, refs)
  BY CallAfter
<1>2. task[c] # Idle /\ overlapped' = overlapped
  BY CallOrder DEF Called
<1>. QED BY <1>1, <1>2 DEF After, AloneInv

LEMMA ReopenStep ==
  ASSUME Types, PutInv, StampInv, UrgentInv, AloneInv, ReopenInv, [Next]_vars
  PROVE  ReopenInv'
<1>1. ASSUME NEW c \in Clients, Begun(c)
      PROVE  ReopenInv'
  <2>1. PICK t : BeginsAs(c, t)
    BY <1>1, BegunAs
  <2>2. \A s \in t.work : s.do # "put"
    BY <2>1, FreshShape DEF BeginsAs
  <2>. QED BY <2>1, <2>2, IdleWork DEF BeginsAs, ReopenInv
<1>2. ASSUME NEW c \in Clients, NEW step, Called(c, step)
      PROVE  ReopenInv'
  <2>1. PICK added, refs : After(c, step, added, refs)
    BY <1>2, CallAfter
  <2>2. RecordsStay(c, step)
    BY <1>2, CallRecords
  <2>3. SUFFICES ASSUME ~overlapped', NEW d \in Clients, NEW s \in task'[d].work,
                        s.do = "put", s.rec.status = "open"
                 PROVE  recs'[s.id].status = "open"
    BY DEF ReopenInv
  <2>4. d = c
    BY <1>2, <2>3, CallerIsAlone, IdleWork
  <2>5. s \in added
    <3>1. s \in task[c].work => s = step
      BY <1>2, <2>3, OpenPutIsNext
    <3>. QED BY <2>1, <2>3, <2>4, <3>1 DEF After
  <2>6. recs[s.id].status = "open" /\ step.do \notin {"create", "put"}
    BY <2>1, <2>3, <2>5 DEF After, Adds
  <2>. QED BY <2>2, <2>6 DEF RecordsStay
<1>3. ASSUME NEW c \in Clients, Fail(c)
      PROVE  ReopenInv'
  BY <1>3, FailAs, IdleWork DEF FailsAs, ReopenInv
<1>4. CASE UNCHANGED vars
  BY <1>4 DEF ReopenInv, vars
<1>. QED BY <1>1, <1>2, <1>3, <1>4, StepCases

\* No call opens a record again.
LEMMA NothingReopens ==
  ASSUME Types, PutInv, StampInv, AloneInv, ReopenInv, NEW c \in Clients, NEW step,
         Called(c, step), ~overlapped'
  PROVE  \A i \in DOMAIN recs : recs'[i].status = "open" => recs[i].status = "open"
<1>1. RecordsStay(c, step) /\ step \in task[c].work /\ ~overlapped
  BY CallRecords, CallOrder, CallerIsAlone
<1>. QED BY <1>1 DEF RecordsStay, ReopenInv

\* The stamps.

LEMMA NewStamped ==
  ASSUME Types, NEW c \in Clients, NEW step, Called(c, step),
         NEW added, NEW refs, After(c, step, added, refs),
         NEW s \in added, s.do \in {"link", "publish"} \/ IsReference(s)
  PROVE  /\ \/ s.do = "link" /\ StampOf(s) = clock + 1 /\ clock' = clock + 1
            \/ step \in Stamped(c) /\ StampOf(s) = StampOf(step)
         /\ s.do = "create" => step.do = "publish" /\ s.text = step.snap.stamp
         /\ \A t \in added : t.do \in {"link", "publish"} \/ IsReference(t) => t = s
<1>1. Adds(c, step, added, refs) /\ step \in task[c].work
  BY CallOrder DEF After
<1>2. CASE s.do = "link"
  BY <1>1, <1>2 DEF Adds, StampOf
<1>3. CASE s.do = "publish"
  <2>1. step.do = "link" /\ added = {s} /\ s.snap = NewSnapshot(c, step)
    BY <1>1, <1>3 DEF Adds
  <2>2. s.snap.stamp = step.stamp
    BY <2>1 DEF NewSnapshot
  <2>. QED BY <1>1, <1>3, <2>1, <2>2 DEF StampOf, Stamped
<1>4. CASE IsReference(s)
  <2>1. /\ step.do = "publish"
        /\ s = [rank |-> 22, do |-> "create", class |-> Reference, text |-> step.snap.stamp,
                status |-> "open"]
    BY <1>1, <1>4 DEF Adds, IsReference, Reference
  <2>2. \A t \in added : t.do \in {"link", "publish"} \/ IsReference(t) => t = s
    BY <1>1, <2>1 DEF Adds, IsReference
  <2>. QED BY <1>1, <2>1, <2>2 DEF StampOf, Stamped
<1>. QED BY <1>2, <1>3, <1>4

\* Stamps that are on their way: those that were, except that of the call
\* which its work may take over, or a new one.
LEMMA StampedAfter ==
  ASSUME Types, NEW c \in Clients, NEW step, Called(c, step),
         NEW added, NEW refs, After(c, step, added, refs),
         NEW d \in Clients, NEW s \in Stamped(d)'
  PROVE  \/ s \in Stamped(d) /\ ~(d = c /\ s = step)
         \/ d = c /\ s \in added /\ (s.do \in {"link", "publish"} \/ IsReference(s))
<1>1. s \in task'[d].work /\ (s.do \in {"link", "publish"} \/ IsReference(s))
  BY DEF Stamped
<1>2. \/ s \in task[d].work /\ ~(d = c /\ s = step)
      \/ d = c /\ s \in added
  BY <1>1 DEF After
<1>. QED BY <1>1, <1>2 DEF Stamped

LEMMA StampCall ==
  ASSUME Types, PutInv, StampInv, NEW c \in Clients, NEW step, Called(c, step)
  PROVE  StampInv'
<1>1. PICK added, refs : After(c, step, added, refs)
  BY CallAfter
<1>2. RecordsStay(c, step) /\ SnapshotsStay(step) /\ step \in task[c].work /\ clock \in Nat
  BY CallRecords, CallSnapshots, CallOrder, Stored
<1>3. ASSUME NEW i \in References'
      PROVE  \/ i \in References /\ recs'[i].text = recs[i].text
             \/ step \in Stamped(c) /\ IsReference(step) /\ recs'[i].text = StampOf(step)
  <2>1. i \in DOMAIN recs' /\ recs'[i].class = Reference
    BY DEF References
  <2>2. CASE i \in DOMAIN recs
    BY <1>2, <2>1, <2>2 DEF RecordsStay, Fields, References
  <2>3. CASE i \notin DOMAIN recs
    <3>1. step.do = "create" /\ step.class = Reference /\ recs'[i].text = step.text
      BY <1>2, <2>1, <2>3 DEF RecordsStay
    <3>. QED BY <1>2, <3>1 DEF Stamped, IsReference, StampOf
  <2>. QED BY <2>2, <2>3
<1>4. ASSUME NEW k \in DOMAIN snaps'
      PROVE  \/ k \in DOMAIN snaps /\ snaps'[k] = snaps[k]
             \/ step \in Stamped(c) /\ snaps'[k].stamp = StampOf(step)
  BY <1>2 DEF SnapshotsStay, Stamped, StampOf
<1>5. step \in Stamped(c) => StampOf(step) \in 1 .. clock
  BY DEF StampInv
<1>6. \A i \in References' : recs'[i].text \in 1 .. clock'
  BY <1>2, <1>3, <1>5 DEF StampInv, SnapshotsStay
<1>7. \A k \in DOMAIN snaps' : snaps'[k].stamp \in 1 .. clock'
  BY <1>2, <1>4, <1>5 DEF StampInv, SnapshotsStay
<1>8. ASSUME NEW d \in Clients, NEW s \in Stamped(d)'
      PROVE  \/ s \in Stamped(d) /\ ~(d = c /\ s = step)
             \/ /\ d = c /\ s \in added /\ (s.do \in {"link", "publish"} \/ IsReference(s))
                /\ \/ StampOf(s) = clock + 1 /\ clock' = clock + 1 /\ s.do = "link"
                   \/ step \in Stamped(c) /\ StampOf(s) = StampOf(step)
                /\ s.do = "create" => step.do = "publish" /\ s.text = step.snap.stamp
                /\ added # {}
  BY <1>1, <1>8, StampedAfter, NewStamped
<1>9. ASSUME NEW d \in Clients, NEW s \in Stamped(d)'
      PROVE  /\ StampOf(s) \in 1 .. clock'
             /\ \A i \in References' : recs'[i].text # StampOf(s)
             /\ s.do = "create" => \E k \in DOMAIN snaps' : snaps'[k].stamp = s.text
  <2>1. CASE s \in Stamped(d) /\ ~(d = c /\ s = step)
    <3>1. StampOf(s) \in 1 .. clock'
      BY <1>2, <2>1 DEF StampInv, SnapshotsStay
    <3>2. \A i \in References' : recs'[i].text # StampOf(s)
      BY <1>3, <2>1 DEF StampInv
    <3>3. s.do = "create" => \E k \in DOMAIN snaps' : snaps'[k].stamp = s.text
      BY <1>2, <2>1 DEF StampInv, SnapshotsStay
    <3>. QED BY <3>1, <3>2, <3>3
  <2>2. CASE ~(s \in Stamped(d) /\ ~(d = c /\ s = step))
    <3>1. /\ d = c /\ s \in added
          /\ \/ StampOf(s) = clock + 1 /\ clock' = clock + 1 /\ s.do = "link"
             \/ step \in Stamped(c) /\ StampOf(s) = StampOf(step)
          /\ s.do = "create" => step.do = "publish" /\ s.text = step.snap.stamp
      BY <1>8, <2>2
    <3>2. ~IsReference(step)
      BY <1>1, <3>1 DEF After, Adds, IsReference
    <3>3. StampOf(s) \in 1 .. clock'
      BY <1>2, <1>5, <3>1 DEF SnapshotsStay
    <3>4. \A i \in References' : recs'[i].text \in 1 .. clock /\ (step \in Stamped(c) => recs'[i].text # StampOf(step))
      BY <1>3, <3>2 DEF StampInv
    <3>5. \A i \in References' : recs'[i].text # StampOf(s)
      BY <1>2, <3>1, <3>4
    <3>6. s.do = "create" => \E k \in DOMAIN snaps' : snaps'[k].stamp = s.text
      BY <1>2, <3>1 DEF SnapshotsStay
    <3>. QED BY <3>3, <3>5, <3>6
  <2>. QED BY <2>1, <2>2
<1>10. ASSUME NEW d \in Clients, NEW e \in Clients, NEW s \in Stamped(d)', NEW t \in Stamped(e)',
              StampOf(s) = StampOf(t)
       PROVE  d = e /\ s = t
  <2>1. CASE s \in Stamped(d) /\ ~(d = c /\ s = step) /\ t \in Stamped(e) /\ ~(e = c /\ t = step)
    BY <1>10, <2>1 DEF StampInv
  <2>2. ASSUME NEW f \in Clients, NEW g \in Clients, NEW u \in Stamped(f)', NEW v \in Stamped(g)',
               u \in Stamped(f), ~(f = c /\ u = step), ~(v \in Stamped(g) /\ ~(g = c /\ v = step))
        PROVE  StampOf(u) # StampOf(v)
    <3>1. \/ StampOf(v) = clock + 1
          \/ step \in Stamped(c) /\ StampOf(v) = StampOf(step)
      BY <1>8, <2>2
    <3>2. StampOf(u) \in 1 .. clock /\ (step \in Stamped(c) => StampOf(u) # StampOf(step))
      BY <2>2 DEF StampInv
    <3>. QED BY <1>2, <3>1, <3>2
  <2>3. CASE /\ ~(s \in Stamped(d) /\ ~(d = c /\ s = step))
             /\ ~(t \in Stamped(e) /\ ~(e = c /\ t = step))
    <3>1. d = c /\ s \in added /\ (s.do \in {"link", "publish"} \/ IsReference(s))
      BY <1>8, <2>3
    <3>2. e = c /\ t \in added /\ (t.do \in {"link", "publish"} \/ IsReference(t))
      BY <1>8, <2>3
    <3>. QED BY <1>1, <3>1, <3>2, NewStamped
  <2>. QED BY <1>10, <2>1, <2>2, <2>3
<1>. QED BY <1>6, <1>7, <1>9, <1>10 DEF StampInv

LEMMA StampStep ==
  ASSUME Types, PutInv, StampInv, [Next]_vars
  PROVE  StampInv'
<1>1. ASSUME NEW c \in Clients, Begun(c)
      PROVE  StampInv'
  <2>1. PICK t : BeginsAs(c, t)
    BY <1>1, BegunAs
  <2>2. \A s \in t.work : s.do \notin {"link", "publish"} /\ ~IsReference(s)
    BY <2>1, FreshShape DEF BeginsAs, IsReference
  <2>3. \A d \in Clients : Stamped(d)' \subseteq Stamped(d)
    BY <2>1, <2>2 DEF BeginsAs, Stamped
  <2>4. UNCHANGED <<recs, snaps, clock>>
    BY <2>1 DEF BeginsAs
  <2>. QED BY <2>3, <2>4 DEF StampInv, References
<1>2. ASSUME NEW c \in Clients, NEW step, Called(c, step)
      PROVE  StampInv'
  BY <1>2, StampCall
<1>3. ASSUME NEW c \in Clients, Fail(c)
      PROVE  StampInv'
  <2>1. FailsAs(c)
    BY <1>3, FailAs
  <2>2. \A d \in Clients : Stamped(d)' \subseteq Stamped(d)
    BY <2>1, IdleWork DEF FailsAs, Stamped
  <2>. QED BY <2>1, <2>2 DEF FailsAs, StampInv, References
<1>4. CASE UNCHANGED vars
  BY <1>4 DEF StampInv, References, Stamped, vars
<1>. QED BY <1>1, <1>2, <1>3, <1>4, StepCases

LEMMA ReferencesStep ==
  ASSUME Types, PutInv, StampInv, ReferencesAreSound, [Next]_vars
  PROVE  ReferencesAreSound'
<1>0. /\ \A i \in References : \E k \in DOMAIN snaps : snaps[k].stamp = recs[i].text
      /\ \A i, j \in References : recs[i].text = recs[j].text => i = j
  BY DEF ReferencesAreSound, References, Reference
<1>1. ASSUME NEW c \in Clients, Begun(c)
      PROVE  ReferencesAreSound'
  <2>1. UNCHANGED <<recs, snaps>>
    BY <1>1, BegunAs DEF BeginsAs
  <2>. QED BY <2>1 DEF ReferencesAreSound
<1>2. ASSUME NEW c \in Clients, NEW step, Called(c, step)
      PROVE  ReferencesAreSound'
  <2>1. RecordsStay(c, step) /\ SnapshotsStay(step) /\ step \in task[c].work
    BY <1>2, CallRecords, CallSnapshots, CallOrder
  <2>2. ASSUME NEW i \in References'
        PROVE  \/ i \in References /\ recs'[i].text = recs[i].text
               \/ /\ i = Len(recs) + 1 /\ step \in Stamped(c) /\ step.do = "create"
                  /\ recs'[i].text = step.text /\ step.text = StampOf(step)
    <3>1. i \in DOMAIN recs' /\ recs'[i].class = Reference
      BY DEF References
    <3>2. CASE i \in DOMAIN recs
      BY <2>1, <3>1, <3>2 DEF RecordsStay, Fields, References
    <3>3. CASE i \notin DOMAIN recs
      <4>1. /\ i = Len(recs) + 1 /\ step.do = "create" /\ step.class = Reference
            /\ recs'[i].text = step.text
        BY <2>1, <3>1, <3>3 DEF RecordsStay
      <4>. QED BY <2>1, <4>1 DEF Stamped, IsReference, StampOf
    <3>. QED BY <3>2, <3>3
  <2>3. \A i \in References' : \E k \in DOMAIN snaps' : snaps'[k].stamp = recs'[i].text
    BY <1>0, <2>1, <2>2 DEF StampInv, SnapshotsStay
  <2>4. \A i, j \in References' : recs'[i].text = recs'[j].text => i = j
    BY <1>0, <2>2 DEF StampInv
  <2>. QED BY <2>3, <2>4 DEF ReferencesAreSound, References, Reference
<1>3. ASSUME NEW c \in Clients, Fail(c)
      PROVE  ReferencesAreSound'
  BY <1>3, FailAs DEF FailsAs, ReferencesAreSound
<1>4. CASE UNCHANGED vars
  BY <1>4 DEF ReferencesAreSound, vars
<1>. QED BY <1>1, <1>2, <1>3, <1>4, StepCases

LEMMA CoverStep ==
  ASSUME Types, PutInv, StampInv, SnapshotInv, CoverInv, [Next]_vars
  PROVE  CoverInv'
<1>1. ASSUME NEW c \in Clients, Begun(c)
      PROVE  CoverInv'
  <2>1. PICK t : BeginsAs(c, t)
    BY <1>1, BegunAs
  <2>2. \A i : Awaited(i) => Awaited(i)'
    BY <2>1, IdleWork DEF BeginsAs, Awaited
  <2>. QED BY <2>1, <2>2 DEF BeginsAs, CoverInv, References
<1>2. ASSUME NEW c \in Clients, NEW step, Called(c, step)
      PROVE  CoverInv'
  <2>1. PICK added, refs : After(c, step, added, refs)
    BY <1>2, CallAfter
  <2>2. /\ RecordsStay(c, step) /\ SnapshotsStay(step) /\ step \in task[c].work /\ step \in Item
        /\ faults' = faults
    BY <1>2, CallRecords, CallSnapshots, CallOrder DEF Called
  <2>3. SUFFICES ASSUME faults = 0, NEW i \in DOMAIN recs'
                 PROVE  \/ i \in References' \/ \E k \in DOMAIN snaps' : i \in snaps'[k].refs
                        \/ Awaited(i)'
    BY <2>2 DEF CoverInv
  <2>4. CASE i \notin DOMAIN recs
    <3>1. /\ step.do = "create" /\ i = Len(recs) + 1 /\ recs'[i].class = step.class
      BY <2>2, <2>3, <2>4 DEF RecordsStay
    <3>2. CASE step.class = Reference
      BY <2>3, <3>1, <3>2 DEF References
    <3>3. CASE step.class # Reference
      <4>1. PICK t \in task[c].work : t.do = "stamp"
        BY <2>2, <3>1, <3>3 DEF SnapshotInv
      <4>2. t \in task'[c].work
        BY <2>1, <3>1, <4>1 DEF After
      <4>3. refs = {i}
        BY <2>1, <3>1, <3>3 DEF After, Adds
      <4>4. i \in task'[c].refs
        BY <2>1, <4>2, <4>3 DEF After
      <4>. QED BY <4>1, <4>2, <4>4 DEF Awaited
    <3>. QED BY <3>2, <3>3
  <2>5. CASE i \in References
    BY <2>2, <2>5 DEF References, RecordsStay, Fields
  <2>6. CASE \E k \in DOMAIN snaps : i \in snaps[k].refs
    BY <2>2, <2>6 DEF SnapshotsStay
  <2>7. CASE Awaited(i)
    <3>0. PICK d \in Clients : \E s \in task[d].work :
            \/ s.do \in {"stamp", "link"} /\ i \in task[d].refs
            \/ s.do = "publish" /\ i \in s.snap.refs
      BY <2>7 DEF Awaited
    <3>1. PICK s \in task[d].work :
            \/ s.do \in {"stamp", "link"} /\ i \in task[d].refs
            \/ s.do = "publish" /\ i \in s.snap.refs
      BY <3>0
    <3>2. CASE d # c
      BY <2>1, <3>1, <3>2 DEF After, Awaited
    <3>3. CASE d = c /\ s # step
      <4>1. s \in task'[c].work /\ task[c].refs \subseteq task'[c].refs
        BY <2>1, <3>1, <3>3 DEF After
      <4>. QED BY <3>1, <3>3, <4>1 DEF Awaited
    <3>4. CASE d = c /\ s = step /\ step.do = "stamp"
      <4>1. PICK t \in added : t.do = "link"
        BY <2>1, <3>1, <3>4 DEF After, Adds
      <4>2. t \in task'[c].work /\ task[c].refs \subseteq task'[c].refs
        BY <2>1, <4>1 DEF After
      <4>. QED BY <3>1, <3>4, <4>1, <4>2 DEF Awaited
    <3>5. CASE d = c /\ s = step /\ step.do = "link"
      <4>1. PICK t \in added : t.do = "publish"
        BY <2>1, <3>5 DEF After, Adds
      <4>2. t \in task'[c].work /\ t.snap = NewSnapshot(c, step)
        BY <2>1, <4>1 DEF After, Adds
      <4>3. t.snap.refs = task[c].refs
        BY <4>2 DEF NewSnapshot
      <4>. QED BY <3>1, <3>5, <4>1, <4>2, <4>3 DEF Awaited
    <3>6. CASE d = c /\ s = step /\ step.do = "publish"
      BY <2>2, <3>1, <3>6 DEF SnapshotsStay
    <3>. QED BY <3>1, <3>2, <3>3, <3>4, <3>5, <3>6
  <2>. QED BY <2>3, <2>4, <2>5, <2>6, <2>7 DEF CoverInv
<1>3. ASSUME NEW c \in Clients, Fail(c)
      PROVE  CoverInv'
  BY <1>3, FailAs DEF FailsAs, CoverInv
<1>4. CASE UNCHANGED vars
  BY <1>4 DEF CoverInv, References, Awaited, vars
<1>. QED BY <1>1, <1>2, <1>3, <1>4, StepCases

\* The gaps.

LEMMA SameGap ==
  ASSUME NEW s \in Item, NEW t \in Item, s.do = "create", t.do = "create",
         s.class = "unresolved_gaps", t.class = "unresolved_gaps",
         s.rank = t.rank, s.status = t.status, s.text = t.text
  PROVE  s = t
<1>1. s \in NoteItem /\ t \in NoteItem
  BY DEF Item, NoteItem, ReferenceItem, FindItem, PutItem, GetItem, MatchItem, StatusItem,
         CollectItem, StampItem, LinkItem, PublishItem, Reference
<1>. QED BY <1>1 DEF NoteItem

\* While requests come one at a time, a gap is open after a call if it was
\* before, or if the call created it.
LEMMA OpenGapsAfter ==
  ASSUME Types, PutInv, StampInv, AloneInv, ReopenInv, NEW c \in Clients, NEW step,
         Called(c, step), ~overlapped', NEW texts, NEW i \in OpenGaps(texts)'
  PROVE  \/ i \in OpenGaps(texts) /\ recs'[i].ns = recs[i].ns /\ recs'[i].text = recs[i].text
         \/ /\ i = Len(recs) + 1 /\ step.do = "create" /\ step.class = "unresolved_gaps"
            /\ recs'[i].ns = task[c].ns /\ recs'[i].text = step.text
<1>1. RecordsStay(c, step)
  BY CallRecords
<1>2. /\ i \in DOMAIN recs' /\ recs'[i].class = "unresolved_gaps" /\ recs'[i].status = "open"
      /\ recs'[i].text \in texts
  BY DEF OpenGaps
<1>3. CASE i \in DOMAIN recs
  <2>1. recs[i].status = "open"
    BY <1>2, <1>3, NothingReopens
  <2>2. /\ recs'[i].ns = recs[i].ns /\ recs'[i].text = recs[i].text
        /\ recs'[i].class = recs[i].class
    BY <1>1, <1>3 DEF RecordsStay, Fields
  <2>. QED BY <1>2, <1>3, <2>1, <2>2 DEF OpenGaps
<1>4. CASE i \notin DOMAIN recs
  BY <1>1, <1>2, <1>4 DEF RecordsStay
<1>. QED BY <1>3, <1>4

LEMMA GapStep ==
  ASSUME Types, PutInv, StampInv, AloneInv, ReopenInv, GapInv, [Next]_vars
  PROVE  GapInv'
<1>1. ASSUME NEW c \in Clients, Begun(c)
      PROVE  GapInv'
  <2>1. PICK t : BeginsAs(c, t)
    BY <1>1, BegunAs
  <2>2. \A s \in t.work : s.do = "create" => s.class # "unresolved_gaps"
    BY <2>1, FreshShape DEF BeginsAs
  <2>3. UNCHANGED recs /\ (~overlapped' => ~overlapped)
    BY <2>1 DEF BeginsAs
  <2>4. \A d \in Clients : d # c => task'[d] = task[d]
    BY <2>1 DEF BeginsAs
  <2>. QED BY <2>1, <2>2, <2>3, <2>4 DEF BeginsAs, GapInv, OpenGaps
<1>2. ASSUME NEW c \in Clients, NEW step, Called(c, step)
      PROVE  GapInv'
  <2>1. PICK added, refs : After(c, step, added, refs)
    BY <1>2, CallAfter
  <2>2. /\ RecordsStay(c, step) /\ step \in task[c].work /\ step \in Item
        /\ overlapped' = overlapped
    BY <1>2, CallRecords, CallOrder DEF Called
  <2>3. SUFFICES ASSUME NEW d \in Clients, NEW s \in task'[d].work,
                        s.do = "create", s.class = "unresolved_gaps"
                 PROVE  /\ s.status = "open" /\ s.rank = 8
                        /\ ~overlapped' => \A i \in OpenGaps({s.text})' : recs'[i].ns # task'[d].ns
    BY DEF GapInv
  <2>4. CASE ~(d = c /\ s \in added)
    <3>1. s \in task[d].work /\ ~(d = c /\ s = step)
      BY <2>1, <2>3, <2>4 DEF After
    <3>2. s.status = "open" /\ s.rank = 8
      BY <2>3, <3>1 DEF GapInv
    <3>3. ASSUME ~overlapped', NEW i \in OpenGaps({s.text})'
          PROVE  recs'[i].ns # task'[d].ns
      <4>1. d = c /\ ~overlapped
        BY <1>2, <2>3, <3>3, CallerIsAlone, IdleWork
      <4>2. task'[c].ns = task[c].ns
        BY <2>1, <2>3, <4>1 DEF After
      <4>3. \A j \in OpenGaps({s.text}) : recs[j].ns # task[c].ns
        BY <2>3, <3>1, <4>1 DEF GapInv
      <4>4. ~(step.do = "create" /\ step.class = "unresolved_gaps" /\ step.text = s.text)
        <5>1. s \in Item
          BY <1>2, <3>1, <4>1, CallOrder
        <5>2. step.do = "create" /\ step.class = "unresolved_gaps" =>
                step.rank = s.rank /\ step.status = s.status
          BY <2>2, <3>2 DEF GapInv
        <5>. QED BY <2>2, <2>3, <3>1, <4>1, <5>1, <5>2, SameGap
      <4>5. recs'[i].text = s.text
        BY <3>3 DEF OpenGaps
      <4>6. i \in OpenGaps({s.text}) /\ recs'[i].ns = recs[i].ns
        BY <1>2, <3>3, <4>4, <4>5, OpenGapsAfter
      <4>. QED BY <4>1, <4>2, <4>3, <4>6
    <3>. QED BY <3>2, <3>3
  <2>5. CASE d = c /\ s \in added
    <3>1. /\ step.do = "find"
          /\ s = [rank |-> 8, do |-> "create", class |-> "unresolved_gaps", text |-> step.text,
                  status |-> "open"]
          /\ \A i \in OpenGaps({step.text}) : recs[i].ns # task[c].ns
      <4> DEFINE gap == [rank |-> 8, do |-> "create", class |-> "unresolved_gaps",
                         text |-> step.text, status |-> "open"]
                 ref == [rank |-> 22, do |-> "create", class |-> Reference,
                         text |-> step.snap.stamp, status |-> "open"]
      <4>1. gap = [rank |-> 8, do |-> "create", class |-> "unresolved_gaps",
                   text |-> step.text, status |-> "open"] /\ ref.class # "unresolved_gaps"
        BY DEF Reference
      <4>2. \/ step.do = "find" /\ s = gap /\ \A i \in OpenGaps({step.text}) : recs[i].ns # task[c].ns
            \/ s = ref
        BY <2>1, <2>3, <2>5 DEF After, Adds
      <4> HIDE DEF gap, ref
      <4>. QED BY <2>3, <4>1, <4>2
    <3>2. s.status = "open" /\ s.rank = 8 /\ s.text = step.text
      BY <3>1
    <3>3. recs' = recs /\ task'[c].ns = task[c].ns
      BY <2>1, <2>2, <2>3, <2>5, <3>1 DEF RecordsStay, After
    <3>. QED BY <2>5, <3>1, <3>2, <3>3 DEF OpenGaps
  <2>. QED BY <2>4, <2>5
<1>3. ASSUME NEW c \in Clients, Fail(c)
      PROVE  GapInv'
  BY <1>3, FailAs, IdleWork DEF FailsAs, GapInv, OpenGaps
<1>4. CASE UNCHANGED vars
  BY <1>4 DEF GapInv, OpenGaps, vars
<1>. QED BY <1>1, <1>2, <1>3, <1>4, StepCases

LEMMA GapsStep ==
  ASSUME Types, PutInv, StampInv, AloneInv, ReopenInv, GapInv, SerialGapsAreUnique, [Next]_vars
  PROVE  SerialGapsAreUnique'
<1>1. ASSUME NEW c \in Clients, Begun(c)
      PROVE  SerialGapsAreUnique'
  <2>1. UNCHANGED recs /\ (~overlapped' => ~overlapped)
    BY <1>1, BegunAs DEF BeginsAs
  <2>. QED BY <2>1 DEF SerialGapsAreUnique, OpenGaps
<1>2. ASSUME NEW c \in Clients, NEW step, Called(c, step)
      PROVE  SerialGapsAreUnique'
  <2>1. step \in task[c].work
    BY <1>2, CallOrder
  <2>2. SUFFICES ASSUME ~overlapped', NEW i \in OpenGaps(Texts)', NEW j \in OpenGaps(Texts)',
                        recs'[i].ns = recs'[j].ns, recs'[i].text = recs'[j].text
                 PROVE  i = j
    BY DEF SerialGapsAreUnique
  <2>3. ~overlapped
    BY <1>2, <2>2, CallerIsAlone
  <2>4. ASSUME NEW k \in OpenGaps(Texts), recs[k].text = step.text, recs[k].ns = task[c].ns,
               step.do = "create", step.class = "unresolved_gaps"
        PROVE  FALSE
    <3>1. k \in OpenGaps({step.text})
      BY <2>4 DEF OpenGaps
    <3>. QED BY <2>1, <2>3, <2>4, <3>1 DEF GapInv
  <2>5. /\ \/ i \in OpenGaps(Texts) /\ recs'[i].ns = recs[i].ns /\ recs'[i].text = recs[i].text
           \/ /\ i = Len(recs) + 1 /\ step.do = "create" /\ step.class = "unresolved_gaps"
              /\ recs'[i].ns = task[c].ns /\ recs'[i].text = step.text
        /\ \/ j \in OpenGaps(Texts) /\ recs'[j].ns = recs[j].ns /\ recs'[j].text = recs[j].text
           \/ /\ j = Len(recs) + 1 /\ step.do = "create" /\ step.class = "unresolved_gaps"
              /\ recs'[j].ns = task[c].ns /\ recs'[j].text = step.text
    BY <1>2, <2>2, OpenGapsAfter
  <2>. QED BY <2>2, <2>3, <2>4, <2>5 DEF SerialGapsAreUnique
<1>3. ASSUME NEW c \in Clients, Fail(c)
      PROVE  SerialGapsAreUnique'
  BY <1>3, FailAs DEF FailsAs, SerialGapsAreUnique, OpenGaps
<1>4. CASE UNCHANGED vars
  BY <1>4 DEF SerialGapsAreUnique, OpenGaps, vars
<1>. QED BY <1>1, <1>2, <1>3, <1>4, StepCases

\* The chain of snapshots.

LEMMA ChainStep ==
  ASSUME Types, StampInv, AloneInv, OneSnapshotInv, ChainInv, [Next]_vars
  PROVE  ChainInv'
<1>1. ASSUME NEW c \in Clients, Begun(c)
      PROVE  ChainInv'
  <2>1. PICK t : BeginsAs(c, t)
    BY <1>1, BegunAs
  <2>2. \A s \in t.work : s.do \notin {"link", "publish"}
    BY <2>1, FreshShape DEF BeginsAs
  <2>3. UNCHANGED snaps /\ (~overlapped' => ~overlapped)
    BY <2>1 DEF BeginsAs
  <2>4. ~overlapped' => \A d \in Clients : \A s \in task'[d].work : s.do \notin {"link", "publish"}
    BY <2>1, <2>2, IdleWork DEF BeginsAs
  <2>. QED BY <2>3, <2>4 DEF ChainInv
<1>2. ASSUME NEW c \in Clients, NEW step, Called(c, step)
      PROVE  ChainInv'
  <2>1. PICK added, refs : After(c, step, added, refs)
    BY <1>2, CallAfter
  <2>2. /\ SnapshotsStay(step) /\ step \in task[c].work /\ step \in Item /\ clock \in Nat
        /\ Len(snaps) \in Nat /\ DOMAIN snaps = 1 .. Len(snaps)
    BY <1>2, CallSnapshots, CallOrder, Stored
  <2>3. SUFFICES ASSUME ~overlapped'
                 PROVE  /\ \A j, k \in DOMAIN snaps' : j < k => snaps'[j].stamp < snaps'[k].stamp
                        /\ \A d \in Clients : \A s \in task'[d].work :
                             s.do \in {"link", "publish"} =>
                               /\ \A k \in DOMAIN snaps' : snaps'[k].stamp < StampOf(s)
                               /\ s.do = "publish" => s.snap.prev = LatestSnapshot(s.snap.ns)'
    BY DEF ChainInv
  <2>4. /\ ~overlapped
        /\ \A d \in Clients \ {c} : task'[d] = Idle
    BY <1>2, <2>3, CallerIsAlone
  <2>5. \A j, k \in DOMAIN snaps' : j < k => snaps'[j].stamp < snaps'[k].stamp
    <3>1. CASE step.do = "publish"
      <4>1. \A k \in DOMAIN snaps : snaps[k].stamp < step.snap.stamp
        BY <2>2, <2>4, <3>1 DEF ChainInv, StampOf
      <4>2. \A j, k \in DOMAIN snaps : j < k => snaps[j].stamp < snaps[k].stamp
        BY <2>4 DEF ChainInv
      <4>3. \A k \in DOMAIN snaps' : \/ k \in DOMAIN snaps /\ snaps'[k] = snaps[k]
                                     \/ k = Len(snaps) + 1 /\ snaps'[k] = step.snap
        BY <2>2 DEF SnapshotsStay
      <4>. QED BY <2>2, <4>1, <4>2, <4>3
    <3>2. CASE step.do # "publish"
      BY <2>2, <2>4, <3>2 DEF ChainInv, SnapshotsStay
    <3>. QED BY <3>1, <3>2
  <2>6. ASSUME NEW s \in task'[c].work, s.do \in {"link", "publish"}
        PROVE  /\ \A k \in DOMAIN snaps' : snaps'[k].stamp < StampOf(s)
               /\ s.do = "publish" => s.snap.prev = LatestSnapshot(s.snap.ns)'
    <3>1. step.do # "publish"
      <4>1. CASE s \in added
        BY <2>1, <2>6, <4>1 DEF After, Adds
      <4>2. CASE s \notin added
        BY <2>1, <2>2, <2>6, <4>2 DEF After, OneSnapshotInv, Making
      <4>. QED BY <4>1, <4>2
    <3>2. snaps' = snaps
      BY <2>2, <3>1 DEF SnapshotsStay
    <3>3. \A ns : LatestSnapshot(ns)' = LatestSnapshot(ns)
      BY <3>2 DEF LatestSnapshot, ScopeStamps
    <3>4. CASE s \notin added
      <4>1. s \in task[c].work
        BY <2>1, <2>6, <3>4 DEF After
      <4>2. /\ \A k \in DOMAIN snaps : snaps[k].stamp < StampOf(s)
            /\ s.do = "publish" => s.snap.prev = LatestSnapshot(s.snap.ns)
        BY <2>4, <2>6, <4>1 DEF ChainInv
      <4>. QED BY <3>2, <3>3, <4>2
    <3>5. CASE s \in added /\ s.do = "link"
      <4>1. StampOf(s) = clock + 1
        BY <2>1, <3>5 DEF After, Adds, StampOf
      <4>. QED BY <2>2, <3>2, <3>5, <4>1 DEF StampInv
    <3>6. CASE s \in added /\ s.do = "publish"
      <4>1. step.do = "link" /\ s.snap = NewSnapshot(c, step)
        BY <2>1, <3>6 DEF After, Adds
      <4>2. s.snap.stamp = step.stamp /\ s.snap.prev = LatestSnapshot(s.snap.ns)
        BY <4>1 DEF NewSnapshot
      <4>3. StampOf(s) = StampOf(step)
        BY <3>6, <4>1, <4>2 DEF StampOf
      <4>4. \A k \in DOMAIN snaps : snaps[k].stamp < StampOf(step)
        BY <2>2, <2>4, <4>1 DEF ChainInv
      <4>. QED BY <3>2, <3>3, <4>2, <4>3, <4>4
    <3>. QED BY <2>6, <3>4, <3>5, <3>6
  <2>. QED BY <2>4, <2>5, <2>6, IdleWork
<1>3. ASSUME NEW c \in Clients, Fail(c)
      PROVE  ChainInv'
  <2>1. FailsAs(c)
    BY <1>3, FailAs
  <2>2. \A ns : LatestSnapshot(ns)' = LatestSnapshot(ns)
    BY <2>1 DEF FailsAs, LatestSnapshot, ScopeStamps
  <2>. QED BY <2>1, <2>2, IdleWork DEF FailsAs, ChainInv
<1>4. CASE UNCHANGED vars
  <2>1. \A ns : LatestSnapshot(ns)' = LatestSnapshot(ns)
    BY <1>4 DEF vars, LatestSnapshot, ScopeStamps
  <2>. QED BY <1>4, <2>1 DEF ChainInv, vars
<1>. QED BY <1>1, <1>2, <1>3, <1>4, StepCases

\* The snapshots of a scope, by their positions.
ScopeOf(ns) == {j \in DOMAIN snaps : ns.cycle # "" => snaps[j].ns.cycle = ns.cycle}

LEMMA StampsOfScope ==
  ASSUME NEW ns
  PROVE  /\ ScopeStamps(ns) = {snaps[k].stamp : k \in ScopeOf(ns)}
         /\ ScopeOf(ns) \in SUBSET DOMAIN snaps
BY DEF ScopeStamps, ScopeOf

\* A scope that fits one page has its last snapshot on it.
LEMMA LatestIsLast ==
  ASSUME Types, Len(snaps) <= MaxPageSize, NEW ns,
         \A j, k \in DOMAIN snaps : j < k => snaps[j].stamp < snaps[k].stamp
  PROVE  LatestSnapshot(ns) = IF ScopeOf(ns) = {} THEN 0
                              ELSE snaps[CHOOSE j \in ScopeOf(ns) : \A l \in ScopeOf(ns) : l <= j].stamp
<1> DEFINE n      == Len(snaps)
           scope  == ScopeOf(ns)
           stamps == {snaps[k].stamp : k \in DOMAIN snaps}
           S      == ScopeStamps(ns)
           page   == {s \in S : Cardinality({r \in S : r <= s}) <= MaxPageSize}
<1>7. n \in Nat /\ n <= MaxPageSize /\ MaxPageSize \in Nat
  BY Stored, PageAssumption
<1>0. DOMAIN snaps = 1 .. n /\ \A k \in DOMAIN snaps : snaps[k].stamp \in Nat
  BY Stored DEF SnapshotType
<1> HIDE DEF n
<1>1. S = {snaps[k].stamp : k \in scope} /\ S \in SUBSET stamps /\ scope \in SUBSET (1 .. n)
  BY <1>0, StampsOfScope
<1> HIDE DEF scope
<1>2. IsFiniteSet(stamps) /\ Cardinality(stamps) <= n
  <2> DEFINE f == [k \in 1 .. n |-> snaps[k].stamp]
  <2>1. f \in Surjection(1 .. n, stamps)
    BY <1>0 DEF Surjection
  <2>2. IsFiniteSet(1 .. n) /\ Cardinality(1 .. n) = n
    BY <1>7, FS_Interval
  <2> HIDE DEF f, stamps
  <2>3. IsFiniteSet(stamps) /\ Cardinality(stamps) <= Cardinality(1 .. n)
    BY <2>1, <2>2, FS_Surjection
  <2>. QED BY <2>2, <2>3
<1>3. page = S
  <2> SUFFICES ASSUME NEW s \in S
               PROVE  Cardinality({r \in S : r <= s}) <= MaxPageSize
    OBVIOUS
  <2> DEFINE T == {r \in S : r <= s}
  <2>1. T \in SUBSET stamps
    BY <1>1
  <2>2. IsFiniteSet(T) /\ Cardinality(T) <= Cardinality(stamps)
    BY <1>2, <2>1, FS_Subset
  <2>3. Cardinality(T) \in Nat /\ Cardinality(stamps) \in Nat
    BY <1>2, <2>2, FS_CardinalityType
  <2>. QED BY <1>7, <1>2, <2>2, <2>3
<1>4. LatestSnapshot(ns) = IF page = {} THEN 0 ELSE CHOOSE s \in page : \A r \in page : r <= s
  BY DEF LatestSnapshot
<1> HIDE DEF page
<1>5. CASE scope = {}
  <2>1. S = {}
    BY <1>1, <1>5
  <2> HIDE DEF S
  <2>. QED BY <1>3, <1>4, <1>5, <2>1 DEF scope
<1>6. CASE scope # {}
  <2> DEFINE m == CHOOSE j \in scope : \A l \in scope : l <= j
  <2>1. \E j \in scope : \A l \in scope : l <= j
    <3>1. scope \in SUBSET (0 .. n)
      BY <1>7, <1>1
    <3>. QED BY <1>7, <1>6, <3>1, GreatestOf
  <2>2. m \in scope /\ \A l \in scope : l <= m
    BY <2>1
  <2> HIDE DEF m
  <2>3. \A l \in scope : snaps[l].stamp <= snaps[m].stamp
    <3> SUFFICES ASSUME NEW l \in scope
                 PROVE  snaps[l].stamp <= snaps[m].stamp
      OBVIOUS
    <3>1. l \in DOMAIN snaps /\ m \in DOMAIN snaps /\ l \in Nat /\ m \in Nat
      BY <1>7, <1>0, <1>1, <2>2
    <3>2. l = m \/ l < m
      BY <2>2, <3>1
    <3>3. snaps[l].stamp \in Nat /\ snaps[m].stamp \in Nat
      BY <1>0, <3>1
    <3>. QED BY <3>1, <3>2, <3>3
  <2>4. snaps[m].stamp \in S /\ \A r \in S : r <= snaps[m].stamp /\ r \in Nat
    BY <1>0, <1>1, <2>2, <2>3
  <2> HIDE DEF S
  <2>5. \A s \in S : (\A r \in S : r <= s) => s = snaps[m].stamp
    BY <2>4
  <2>6. (CHOOSE s \in S : \A r \in S : r <= s) = snaps[m].stamp
    BY <2>4, <2>5
  <2>7. LatestSnapshot(ns) = snaps[m].stamp
    BY <1>3, <1>4, <2>4, <2>6
  <2>. QED BY <1>6, <2>7 DEF m, scope
<1>. QED BY <1>5, <1>6

LEMMA PublishLinks ==
  ASSUME Types, Len(snaps) <= MaxPageSize,
         \A j, k \in DOMAIN snaps : j < k => snaps[j].stamp < snaps[k].stamp,
         NEW step, SnapshotsStay(step), step.snap.prev = LatestSnapshot(step.snap.ns)
  PROVE  LinksToLast
<1>1. \A k \in DOMAIN snaps' \ DOMAIN snaps : snaps'[k] = step.snap
  BY DEF SnapshotsStay
<1>2. step.snap.prev = IF ScopeOf(step.snap.ns) = {} THEN 0
                       ELSE snaps[CHOOSE j \in ScopeOf(step.snap.ns) :
                                    \A l \in ScopeOf(step.snap.ns) : l <= j].stamp
  BY LatestIsLast
<1> SUFFICES ASSUME NEW k \in DOMAIN snaps' \ DOMAIN snaps
             PROVE  snaps'[k].prev = IF ScopeOf(snaps'[k].ns) = {} THEN 0
                                     ELSE snaps[CHOOSE j \in ScopeOf(snaps'[k].ns) :
                                                  \A l \in ScopeOf(snaps'[k].ns) : l <= j].stamp
  BY DEF LinksToLast, ScopeOf
<1>3. snaps'[k] = step.snap
  BY <1>1
<1>. QED BY <1>2, <1>3

-----------------------------------------------------------------------------
\* The theorems.

LEMMA IInvInit ==
  ASSUME Init
  PROVE  IInv
<1>1. /\ recs = <<>> /\ snaps = <<>> /\ clock = 0 /\ posted = 0 /\ faults = 0 /\ overlapped = FALSE
      /\ task = [c \in Clients |-> Idle]
  BY DEF Init
<1>2. DOMAIN recs = {} /\ DOMAIN snaps = {}
  BY <1>1
<1>3. \A c \in Clients : task[c] = Idle /\ task[c].work = {}
  BY <1>1, IdleWork
<1>4. Types
  <2>1. task \in [Clients -> Task]
    BY <1>1, IdleWork
  <2>2. /\ recs \in Seq(RecordType) /\ snaps \in Seq(SnapshotType)
        /\ \A i \in DOMAIN recs : recs[i].status = "resolved" => recs[i].resolvedAt
    BY <1>1, <1>2
  <2>3. clock \in Nat /\ posted \in 0 .. MaxPosts /\ faults \in 0 .. MaxFaults
    BY BoundAssumption DEF Init
  <2>4. overlapped \in BOOLEAN
    BY DEF Init
  <2>. QED BY <2>1, <2>2, <2>3, <2>4 DEF Types, TypeOK
<1>5. PutInv /\ UrgentInv /\ SnapshotInv /\ OneSnapshotInv /\ GapInv /\ AloneInv /\ ReopenInv
  BY <1>3 DEF PutInv, UrgentInv, SnapshotInv, OneSnapshotInv, GapInv, AloneInv, ReopenInv
<1>6. StampInv
  BY <1>2, <1>3 DEF StampInv, Stamped, References
<1>7. ReferencesAreSound /\ CoverInv /\ SerialGapsAreUnique
  BY <1>2 DEF ReferencesAreSound, CoverInv, SerialGapsAreUnique, OpenGaps
<1>8. ChainInv
  BY <1>2, <1>3 DEF ChainInv
<1>. QED BY <1>4, <1>5, <1>6, <1>7, <1>8 DEF IInv

\* The invariant above holds in every state: the stored records, what the
\* requests in progress have still to write, and the snapshots agree.
THEOREM Invariance == Spec => []IInv
<1>1. Init => IInv
  BY IInvInit
<1>2. IInv /\ [Next]_vars => IInv'
  <2> SUFFICES ASSUME IInv, [Next]_vars
               PROVE  IInv'
    OBVIOUS
  <2>1. /\ Types /\ PutInv /\ UrgentInv /\ StampInv /\ ReferencesAreSound /\ SnapshotInv
        /\ CoverInv /\ AloneInv /\ ReopenInv /\ GapInv /\ SerialGapsAreUnique
        /\ OneSnapshotInv /\ ChainInv
    BY DEF IInv
  <2>2. Types' /\ PutInv' /\ UrgentInv'
    BY <2>1, TypesStep, PutStep, UrgentStep
  <2>3. StampInv' /\ ReferencesAreSound' /\ SnapshotInv' /\ CoverInv'
    BY <2>1, StampStep, ReferencesStep, SnapshotStep, CoverStep
  <2>4. AloneInv' /\ ReopenInv' /\ GapInv' /\ SerialGapsAreUnique'
    BY <2>1, AloneStep, ReopenStep, GapStep, GapsStep
  <2>5. OneSnapshotInv' /\ ChainInv'
    BY <2>1, OneSnapshotStep, ChainStep
  <2>. QED BY <2>2, <2>3, <2>4, <2>5 DEF IInv
<1>. QED BY <1>1, <1>2, PTL DEF Spec

\* Every stored record validates, whatever stale copies are written back: a
\* resolved one has the time of its resolution.
THEOREM Typing == Spec => []TypeOK
<1>1. IInv => TypeOK
  BY DEF IInv, Types
<1>. QED BY <1>1, Invariance, PTL

\* A record that refers to a snapshot has that snapshot, and is the only one
\* that does.
THEOREM ReferencesSound == Spec => []ReferencesAreSound
<1>1. IInv => ReferencesAreSound
  BY DEF IInv
<1>. QED BY <1>1, Invariance, PTL

\* With no request in progress and no call failed, each note is in a snapshot.
THEOREM NotesAreCovered == Spec => []EveryNoteIsSnapshotted
<1>1. IInv => EveryNoteIsSnapshotted
  <2> SUFFICES ASSUME IInv, faults = 0, \A c \in Clients : task[c] = Idle, NEW i \in DOMAIN recs
               PROVE  \/ recs[i].class = "memory_snapshot_reference"
                      \/ \E k \in DOMAIN snaps : i \in snaps[k].refs
    BY DEF EveryNoteIsSnapshotted
  <2>1. ~Awaited(i)
    BY IdleWork DEF Awaited
  <2>. QED BY <2>1 DEF IInv, CoverInv, References, Reference
<1>. QED BY <1>1, Invariance, PTL

\* Requests that come one at a time keep one open record for a gap of a
\* namespace, even if some of them fail half way.
THEOREM GapsAreUnique == Spec => []SerialGapsAreUnique
<1>1. IInv => SerialGapsAreUnique
  BY DEF IInv
<1>. QED BY <1>1, Invariance, PTL

\* No request changes what a record says, or a record that is not actionable.
THEOREM RecordsKeepTheirText == Spec => OnlyActionableStatusChanges
<1>1. ASSUME IInv, [Next]_vars
      PROVE  \A i \in DOMAIN recs :
               /\ \A field \in {"ns", "class", "text"} : recs'[i][field] = recs[i][field]
               /\ IsActionable(recs[i].class) \/ recs'[i] = recs[i]
  <2>1. CASE recs' = recs
    BY <2>1
  <2>2. ASSUME NEW c \in Clients, NEW step, Called(c, step)
        PROVE  RecordsStay(c, step)
    BY <1>1, <2>2, CallRecords DEF IInv
  <2>3. \A c \in Clients : Begun(c) \/ Fail(c) => recs' = recs
    BY DEF Begun, Begin, Fail
  <2>4. UNCHANGED vars => recs' = recs
    BY DEF vars
  <2>. QED BY <1>1, <2>1, <2>2, <2>3, <2>4, StepCases DEF RecordsStay, Fields
<1>2. IInv /\ [Next]_vars => [\A i \in DOMAIN recs :
               /\ \A field \in {"ns", "class", "text"} : recs'[i][field] = recs[i][field]
               /\ IsActionable(recs[i].class) \/ recs'[i] = recs[i]]_vars
  BY <1>1
<1>. QED BY <1>2, Invariance, PTL DEF Spec, OnlyActionableStatusChanges

\* Requests that come one at a time never open a record again.
THEOREM NothingReopensSerially == Spec => SerialNeverReopens
<1>1. ASSUME IInv, [Next]_vars
      PROVE  ~overlapped' => \A i \in DOMAIN recs : recs'[i].status = "open" => recs[i].status = "open"
  <2>1. CASE recs' = recs
    BY <2>1
  <2>2. ASSUME NEW c \in Clients, NEW step, Called(c, step), ~overlapped'
        PROVE  \A i \in DOMAIN recs : recs'[i].status = "open" => recs[i].status = "open"
    BY <1>1, <2>2, NothingReopens DEF IInv
  <2>3. \A c \in Clients : Begun(c) \/ Fail(c) => recs' = recs
    BY DEF Begun, Begin, Fail
  <2>4. UNCHANGED vars => recs' = recs
    BY DEF vars
  <2>. QED BY <1>1, <2>1, <2>2, <2>3, <2>4, StepCases
<1>2. IInv /\ [Next]_vars =>
        [~overlapped' => \A i \in DOMAIN recs : recs'[i].status = "open" => recs[i].status = "open"]_vars
  BY <1>1
<1>. QED BY <1>2, Invariance, PTL DEF Spec, SerialNeverReopens

\* Requests that come one at a time link each snapshot to the last one of its
\* scope, as long as the scope fits one page.
THEOREM SnapshotsChainSerially == Spec => SerialSnapshotsChain
<1>1. ASSUME IInv, [Next]_vars, ~overlapped', Len(snaps) <= MaxPageSize
      PROVE  LinksToLast
  <2>1. CASE snaps' = snaps
    BY <2>1 DEF LinksToLast
  <2>2. ASSUME NEW c \in Clients, NEW step, Called(c, step), step.do = "publish"
        PROVE  LinksToLast
    <3>1. Types /\ StampInv /\ ChainInv /\ AloneInv
      BY <1>1 DEF IInv
    <3>2. SnapshotsStay(step) /\ step \in task[c].work /\ ~overlapped
      BY <1>1, <2>2, <3>1, CallSnapshots, CallOrder, CallerIsAlone
    <3>3. step.snap.prev = LatestSnapshot(step.snap.ns)
      BY <2>2, <3>1, <3>2 DEF ChainInv
    <3>4. \A j, k \in DOMAIN snaps : j < k => snaps[j].stamp < snaps[k].stamp
      BY <3>1, <3>2 DEF ChainInv
    <3>. QED BY <1>1, <3>1, <3>2, <3>3, <3>4, PublishLinks
  <2>3. ASSUME NEW c \in Clients, NEW step, Called(c, step), step.do # "publish"
        PROVE  snaps' = snaps
    BY <1>1, <2>3, CallSnapshots DEF IInv, SnapshotsStay
  <2>4. \A c \in Clients : Begun(c) \/ Fail(c) => snaps' = snaps
    BY DEF Begun, Begin, Fail
  <2>5. UNCHANGED vars => snaps' = snaps
    BY DEF vars
  <2>. QED BY <1>1, <2>1, <2>2, <2>3, <2>4, <2>5, StepCases
<1>2. IInv /\ [Next]_vars => [~overlapped' /\ Len(snaps) <= MaxPageSize => LinksToLast]_vars
  BY <1>1
<1>. QED BY <1>2, Invariance, PTL DEF Spec, SerialSnapshotsChain

=============================================================================
