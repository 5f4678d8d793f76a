-------------------------- MODULE MCDevPodManager --------------------------
(* Small pipelines: the main job and a background job, two dev pods.       *)
EXTENDS DevPodManager

start(names) == [op |-> "start", names |-> names]
stop(names)  == [op |-> "stop", names |-> names]

\* One of two dev pods is stopped while both start; one is restarted, or started
\* twice, or stopped with one that was never started.
MCScripts ==
    {[main |-> <<start({"a", "b"})>>, background |-> <<stop({"a"})>>],
     [main |-> <<start({"a"})>>, background |-> <<stop({"a"}), start({"a"})>>],
     [main |-> <<start({"a"}), stop({"a"})>>, background |-> <<start({"a"})>>],
     [main |-> <<start({"b"})>>, background |-> <<stop({"a", "b"})>>]}
=============================================================================
