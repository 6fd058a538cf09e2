----------------------------- MODULE NotesLedger -----------------------------
(***************************************************************************)
(* What scoped memory promises a control plane that sends one request at a *)
(* time, none of which fails: a ledger on which each request has its whole *)
(* effect at once.  ScopedMemory makes the same requests call by call.     *)
(*                                                                         *)
(* Once two requests overlap, or one fails half way, the ledger is closed: *)
(* nothing more is promised here.                                          *)
(***************************************************************************)
EXTENDS ScopedRules

CONSTANTS
  NotesInputs, SnapshotInputs,  \* the bodies of requests
  Targets,                      \* the statuses asked for
  MaxPageSize                   \* the longest page of a listing

VARIABLES
  recs,   \* scoped records, in the order of their creation
  snaps,  \* scoped snapshots, in the order of their storing
  open    \* the ledger is not closed

vars == <<recs, snaps, open>>

Init == recs = <<>> /\ snaps = <<>> /\ open = TRUE

-----------------------------------------------------------------------------

InScope(ns, other) ==
  /\ ns.cycle # "" => other.cycle = ns.cycle
  /\ ns.agent # "" => other.agent = ns.agent

IsOpenGap(rec, texts) ==
  rec.class = "unresolved_gaps" /\ rec.status = "open" /\ rec.text \in texts

\* The open gaps that a namespace has already reported.
Reported(ns, texts) == {i \in DOMAIN recs : IsOpenGap(recs[i], texts) /\ InScope(ns, recs[i].ns)}

\* The records a request asks for, and does not find.
Wanted(in) ==
  (UNION {{[class |-> class, text |-> text] : text \in in.texts[class]} :
            class \in Classes \ {"unresolved_gaps"}})
  \cup {[class |-> "unresolved_gaps", text |-> text] :
          text \in {t \in in.texts["unresolved_gaps"] : Reported(in.ns, {t}) = {}}}

\* Of equal gaps the one reported first is taken up.
TakenUp(in) ==
  {i \in Reported(in.ns, in.texts["unresolved_gaps"]) :
     \A j \in Reported(in.ns, {recs[i].text}) : i <= j}

Rank(class) == CHOOSE k \in 1 .. 7 : ClassOrder[k] = class

AsWanted(rec) == [class |-> rec.class, text |-> rec.text]

\* What is wanted is appended, class by class.
Appended(in, fresh) ==
  /\ {AsWanted(recs'[i]) : i \in fresh} = Wanted(in)
  /\ \A i, j \in fresh : i < j => /\ Rank(recs'[i].class) <= Rank(recs'[j].class)
                                  /\ AsWanted(recs'[i]) # AsWanted(recs'[j])

\* A record as the request finds it, or has just created it.
Found(in, i) ==
  IF i \in DOMAIN recs THEN recs[i]
  ELSE LET status == IF recs'[i].class = "unresolved_gaps" THEN "open" ELSE in.status
       IN [ns |-> in.ns, class |-> recs'[i].class, text |-> recs'[i].text,
           status |-> status, resolvedAt |-> status = "resolved"]

Resolved(rec) == [rec EXCEPT !.status = "resolved", !.resolvedAt = TRUE]

\* A snapshot of refs, linked to the one before it in its scope (as far as the
\* scope fits a page).
Chained(ns, refs) ==
  LET scope == {k \in DOMAIN snaps : ns.cycle # "" => snaps[k].ns.cycle = ns.cycle}
      new   == snaps'[Len(snaps) + 1]
  IN /\ Len(snaps') = Len(snaps) + 1
     /\ \A k \in DOMAIN snaps : snaps'[k] = snaps[k] /\ snaps[k].stamp < new.stamp
     /\ new.ns = ns /\ new.refs = refs
     /\ Cardinality(scope) <= MaxPageSize =>
          new.prev = IF scope = {} THEN 0
                     ELSE snaps[CHOOSE k \in scope : \A l \in scope : l <= k].stamp

\* Notes: what they say is on the ledger, what they resolve is resolved, and a
\* snapshot of all that, to which a last record refers.
Notes(in) ==
  LET fresh   == {i \in DOMAIN recs' \ DOMAIN recs : recs'[i].class # "memory_snapshot_reference"}
      all     == DOMAIN recs \cup fresh
      named   == {i \in in.resolveIds \cap all :
                    IsActionable(Found(in, i).class) \/ Found(in, i).status = "resolved"}
      matched == {i \in all : IsOpenGap(Found(in, i), in.resolveTexts)}
      refs    == fresh \cup TakenUp(in) \cup named \cup matched
  IN /\ DOMAIN recs \subseteq DOMAIN recs'
     /\ Appended(in, fresh)
     /\ \A i \in all : recs'[i] = IF i \in matched \/ (i \in named /\ Found(in, i).status # "resolved")
                                  THEN Resolved(Found(in, i)) ELSE Found(in, i)
     /\ IF refs = {}
        THEN DOMAIN recs' = all /\ UNCHANGED snaps
        ELSE /\ Chained(in.ns, refs)
             /\ DOMAIN recs' = all \cup {Len(recs')} /\ Len(recs') \notin all
             /\ recs'[Len(recs')] =
                  [ns |-> in.ns, class |-> "memory_snapshot_reference",
                   text |-> snaps'[Len(snaps')].stamp, status |-> "open", resolvedAt |-> FALSE]

\* A snapshot refers to what it is given, or to all of its scope.
Snapshot(in) ==
  /\ Chained(in.ns, IF in.refs # {} THEN in.refs
                    ELSE {i \in DOMAIN recs : in.ns.cycle # "" => recs[i].ns.cycle = in.ns.cycle})
  /\ UNCHANGED recs

\* A change of status that the table does not allow changes nothing.
Status(i, target) ==
  /\ IsActionable(recs[i].class)
  /\ IsAllowedStatusTransition(recs[i].status, target)
  /\ recs' = [recs EXCEPT ![i].status = target,
                          ![i].resolvedAt = IF target = "resolved" THEN TRUE
                                            ELSE IF target = "open" THEN FALSE ELSE @]
  /\ UNCHANGED snaps

Close == recs' = <<>> /\ snaps' = <<>> /\ ~open'

Next ==
  \/ /\ open /\ UNCHANGED open
     /\ \/ \E in \in NotesInputs : Notes(in)
        \/ \E in \in SnapshotInputs : Snapshot(in)
        \/ \E i \in DOMAIN recs : \E target \in Targets : Status(i, target)
  \/ Close

Spec == Init /\ [][Next]_vars

=============================================================================
