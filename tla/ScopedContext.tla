--------------------------- MODULE ScopedContext ----------------------------
(***************************************************************************)
(* The compact context (the pure functions of                              *)
(* internal/services/scopedmemory/service.go): from copies of records, as  *)
(* listings returned them, to the texts that a context shows.              *)
(***************************************************************************)
EXTENDS ScopedRules, Functions

StatusPriority(status) ==
  CASE status = "open" -> 0 [] status = "resolved" -> 1 [] status = "superseded" -> 2
    [] status = "archived" -> 3

\* Records of the asking cycle and agent come first, then those of the cycle,
\* those of the run, those of other cycles.
ScopePriority(own, ns) ==
  IF ns.cycle # "" /\ own.cycle = ns.cycle
  THEN IF ns.agent # "" /\ own.agent = ns.agent THEN 0 ELSE 1
  ELSE IF own.cycle = "" THEN 2 ELSE 3

\* Mutant of Precedes: whatever their scopes.
PrecedesAnywhere(a, b, ns) ==
  LET x == <<StatusPriority(a.status), - a.updated, - a.id>>
      y == <<StatusPriority(b.status), - b.updated, - b.id>>
  IN \E k \in 1 .. 3 : x[k] < y[k] /\ \A l \in 1 .. (k - 1) : x[l] = y[l]

\* Identifiers are numbers in the order of creation.
Precedes(a, b, ns) ==
  LET x == <<ScopePriority(a.ns, ns), StatusPriority(a.status), - a.updated, - a.id>>
      y == <<ScopePriority(b.ns, ns), StatusPriority(b.status), - b.updated, - b.id>>
  IN \E k \in 1 .. 4 : x[k] < y[k] /\ \A l \in 1 .. (k - 1) : x[l] = y[l]

\* Mutant of IsShown: archived records are shown.
IsShownArchived(copy, ns, excludeCurrent) ==
  excludeCurrent /\ ns.cycle # "" => copy.ns.cycle # ns.cycle

IsShown(copy, ns, excludeCurrent) ==
  /\ copy.status # "archived"
  /\ excludeCurrent /\ ns.cycle # "" => copy.ns.cycle # ns.cycle

Least(a, b) == IF a < b THEN a ELSE b

\* Each text once, at the place of its first record, and no more than max.
CompactTexts(copies, ns, max, excludeCurrent) ==
  LET shown    == {c \in copies : IsShown(c, ns, excludeCurrent)}
      first(t) == CHOOSE c \in shown :
                    c.text = t /\ \A d \in shown : d.text = t => ~Precedes(d, c, ns)
      firsts   == {first(t) : t \in {c.text : c \in shown}}
      place(c) == Cardinality({d \in firsts : Precedes(d, c, ns)})
  IN [k \in 1 .. Least(Cardinality(firsts), max) |-> (CHOOSE c \in firsts : place(c) = k - 1).text]

=============================================================================
