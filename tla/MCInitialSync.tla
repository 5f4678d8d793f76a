--------------------------- MODULE MCInitialSync ---------------------------
(* Small instances of InitialSync.                                         *)
EXTENDS InitialSync

\* An empty content and two of the same size.
MCContents == {"e", "a", "b"}
MCSize     == [c \in MCContents |-> IF c = "e" THEN 0 ELSE 1]

\* No exclude list, or a file on each of them.
MCExcludeLists == {[up |-> {}, down |-> {}], [up |-> {"f"}, down |-> {"g"}]}
=============================================================================
