---------------------------- MODULE MCSyncEngine ----------------------------
(* Instances of SyncEngine for TLC.                                        *)
EXTENDS SyncEngine

\* Two contents of one size, which only a checksum tells apart, and a longer one.
FullContents == {"a", "b", "cc"}
FullSize == [c \in FullContents |-> IF c = "cc" THEN 2 ELSE 1]

\* Users who leave a file alone until it is the same on both sides, and no failures.
Quiet(contents) ==
    [uploadExcluded |-> {}, downloadExcluded |-> {}, folder |-> {}, concurrent |-> FALSE, repeated |-> FALSE,
     epoch |-> FALSE, contents |-> contents, maxClock |-> 4, maxUploadErrors |-> 0, maxDownloadErrors |-> 0]

\* Everything at once, with a file on each exclude list, both in a directory that may be deleted.
Excluding ==
    [uploadExcluded |-> {"f"}, downloadExcluded |-> {"g"}, folder |-> {"f", "g"}, concurrent |-> TRUE, repeated |-> TRUE,
     epoch |-> TRUE, contents |-> {"a", "cc"}, maxClock |-> 3, maxUploadErrors |-> 2, maxDownloadErrors |-> 1]

MCEnvironments == {Quiet({"a", "b"}), Quiet({"a", "cc"}), Excluding}

\* An empty and a full file.
EmptyContents == {"empty", "a"}
EmptySize == [c \in EmptyContents |-> IF c = "a" THEN 1 ELSE 0]
=============================================================================
