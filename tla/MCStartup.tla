----------------------------- MODULE MCStartup ------------------------------
(* The life of the process on small sets for TLC. *)
EXTENDS Startup

CONSTANTS c1, c2

\* Records 1 and 2 are of the seed file, 3 and 4 of clients.
Seed(id)  == [id |-> id, valid |-> TRUE]
Call1(op, id) == [op |-> op, id |-> id]

\* A good seed file, one with a bad record, one that repeats a record.
AllSeedFiles == {<<Seed(1), Seed(2)>>, <<Seed(1), [id |-> 2, valid |-> FALSE]>>,
                 <<Seed(1), Seed(1)>>, Unreadable}

\* A batch whose first record has a key, a recall, and the deletions of a job,
\* of a seed record and of a new one.
AllRequests == {<<Call1("list", 3), Call1("create", 3), Call1("create", 4)>>,
                <<Call1("read", 3), Call1("update", 3)>>,
                <<Call1("list", 1), Call1("delete", 1)>>,
                <<Call1("list", 3), Call1("delete", 3)>>}
=============================================================================
