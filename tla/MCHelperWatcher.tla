-------------------------- MODULE MCHelperWatcher --------------------------
(* Instances of HelperWatcher for TLC.                                     *)
EXTENDS HelperWatcher

\* A directory with a file, and a file beside it.
MCPaths == {"d", "d/f", "g"}
MCAbove == [p \in MCPaths |-> IF p = "d/f" THEN {"d"} ELSE {}]

\* Few edits of everything.
Wide == [paths |-> MCPaths, hidden |-> {}, fullScan |-> FALSE, maxEdits |-> 2]

\* Many edits of the directory.
Deep == [Wide EXCEPT !.paths = {"d", "d/f"}, !.maxEdits = 4]

\* Exclude lists that name the directory, or the file in it with a negated pattern.
HiddenDirectory == [Deep EXCEPT !.hidden = {"d", "d/f"}, !.maxEdits = 3]
HiddenFile      == [Deep EXCEPT !.hidden = {"d/f"}, !.fullScan = TRUE, !.maxEdits = 3]
HalfHidden      == [Deep EXCEPT !.hidden = {"d"}, !.fullScan = TRUE, !.maxEdits = 3]

MCEnvironments == {Wide, Deep, HiddenDirectory, HiddenFile, HalfHidden}

=============================================================================
