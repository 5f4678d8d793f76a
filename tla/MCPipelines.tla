----------------------------- MODULE MCPipelines -----------------------------
(* Small namespaces: two projects that depend on the same things, two runs. *)
EXTENDS Pipelines, TLC

MCRank == ("A" :> 1) @@ ("D" :> 2) @@ ("E" :> 3) @@ ("F" :> 4)

Nothing == [n \in Names |-> {}]

Projects(first, second, declared) ==
    [project |-> (1 :> first) @@ (2 :> second), declared |-> declared @@ Nothing,
     ignore |-> {}, skip |-> {}, sequential |-> FALSE, tolerant |-> FALSE, dev |-> {second}]

\* The same project twice.
Same == Projects("A", "A", "A" :> {"D"})

\* Two dependencies need the same third one; the second run is one of them.
Diamond == Projects("A", "E", ("A" :> {"E", "F"}) @@ ("E" :> {"D"}) @@ ("F" :> {"D"}))

\* Two dependencies need each other, one of them the project itself.
Circle == Projects("A", "D", ("A" :> {"D", "E"}) @@ ("D" :> {"E", "A"}) @@ ("E" :> {"D"}))

\* One after the other, the first one needs the second one.
InOrder == [Projects("A", "D", ("A" :> {"D", "E"}) @@ ("D" :> {"E"})) EXCEPT !.sequential = TRUE]

\* A longer circle through a dependency whose own dependencies are ignored, and one skipped.
Partial == [Projects("A", "F", ("A" :> {"D", "F"}) @@ ("D" :> {"E"}) @@ ("E" :> {"F", "A"}) @@ ("F" :> {"D"}))
                EXCEPT !.ignore = {"F"}, !.skip = {"F"}]

MCScenarios == {Same, Diamond, Circle, InOrder, Partial}

\* The script of the pipelines goes on after an error.
MCTolerant == {[Same EXCEPT !.tolerant = TRUE]}
=============================================================================
