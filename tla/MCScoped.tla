------------------------------ MODULE MCScoped -------------------------------
EXTENDS ScopedMemory, TLC

CONSTANTS t1, c1, c2

NoTexts == [class \in Classes |-> {}]
Run     == [cycle |-> "", agent |-> ""]
Day(n)  == [cycle |-> n, agent |-> ""]

\* A cycle reports a context, already resolved, and a gap; the run reports the
\* gap again and resolves it by text; a later cycle resolves by identifier.
Report  == [ns |-> Day("day-1"), status |-> "resolved",
            texts |-> [NoTexts EXCEPT !["working_context"] = {t1}, !["unresolved_gaps"] = {t1}],
            resolveIds |-> {}, resolveTexts |-> {}]
Again   == [Report EXCEPT !.ns = Run, !.texts["working_context"] = {}, !.resolveTexts = {t1}]
Resolve == [Report EXCEPT !.ns = Day("day-2"), !.texts = NoTexts, !.resolveIds = {2}]

AllNotes    == {Report, Again, Resolve}
NoNotes     == {}
NoSnapshots == {}
RunSnapshot == {[ns |-> Run, refs |-> {}]}

\* The clients are interchangeable: all properties here are safety properties.
Symmetry == Permutations(Clients)
=============================================================================
