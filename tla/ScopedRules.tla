----------------------------- MODULE ScopedRules ----------------------------
(***************************************************************************)
(* The rules of scoped memory (internal/domain/scopedmemory and the pure   *)
(* functions of internal/services/scopedmemory): classes, statuses and     *)
(* their transitions.                                                      *)
(*                                                                         *)
(* One repository and one run; a namespace is a cycle and an agent, either *)
(* of which may be left out.                                               *)
(***************************************************************************)
EXTENDS Integers, Sequences, FiniteSets

CONSTANTS Cycles, Agents  \* names of cycles and agents; "" is left out

Namespaces == [cycle : Cycles \cup {""}, agent : Agents \cup {""}]

ClassOrder == <<"working_context", "prior_cycle_summaries", "carry_forward_risks",
                "unresolved_gaps", "backlog_items", "reviewer_notes", "policy_exceptions">>

Classes  == {ClassOrder[k] : k \in 1 .. 7} \cup {"memory_snapshot_reference"}
Statuses == {"open", "resolved", "superseded", "archived"}

IsActionable(class) ==
  class \in {"unresolved_gaps", "carry_forward_risks", "backlog_items",
             "reviewer_notes", "policy_exceptions"}

IsAllowedStatusTransition(current, next) ==
  \/ current = next
  \/ current = "open"       /\ next \in {"resolved", "superseded", "archived"}
  \/ current = "resolved"   /\ next \in {"superseded", "archived"}
  \/ current = "superseded" /\ next = "archived"

=============================================================================
