------------------------------ MODULE MCReads -------------------------------
(* Reading scoped memory on small sets for TLC: what is written and asked. *)
EXTENDS ScopedReads

Ns(cycle) == [cycle |-> cycle, agent |-> ""]

\* A gap of the cycle, one of the run, and a summary of the cycle before.
Note(class, cycle, text) ==
  [ns |-> Ns(cycle), class |-> class, text |-> text, status |-> "open"]

FewNotes == {Note("unresolved_gaps", "day-1", "t1"), Note("unresolved_gaps", "", "t2"),
             Note("prior_cycle_summaries", "day-0", "t1")}

\* The cycle before does not see its own summary as one of a prior cycle.
AllRequests == {[kind |-> kind, ns |-> Ns("day-1")] : kind \in ReadKinds}
                 \cup {[kind |-> "context", ns |-> Ns("day-0")]}
=============================================================================
