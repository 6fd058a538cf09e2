---------------------------- MODULE MCFileStore -----------------------------
(* The file store on small sets for TLC. *)
EXTENDS FileStore

CONSTANTS c1, c2, v1, v2, bad

TwoClients   == {c1, c2}

=============================================================================
