----------------------------- MODULE Dependencies -----------------------------
(***************************************************************************)
(* The graph of dependencies and its resolver: which dependencies a        *)
(* DevSpace project may run, and which edges would close a circle. Names   *)
(* are unique keys: a dependency two projects declare is one dependency.   *)
(***************************************************************************)
EXTENDS Naturals, Sequences

CONSTANTS
    Names,      \* the names of projects and dependencies
    Rank        \* the place of each name in their order

ASSUME NamesAssumption ==
    /\ Rank \in [Names -> Nat]
    /\ \A m, n \in Names : Rank[m] = Rank[n] => m = n

\* The dependencies of a configuration are looked at in the order of their
\* names (transformMap), whatever is done with them.
First(names) == CHOOSE n \in names : \A m \in names : Rank[n] <= Rank[m]

-----------------------------------------------------------------------------
\* graph.Graph: its nodes and its edges <<parent, child>>.
Graph == [nodes : SUBSET Names, edges : SUBSET (Names \X Names)]

NewGraph(root) == [nodes |-> {root}, edges |-> {}]

\* With a name the set has its children.
Closed(g, names) == \A n, m \in g.nodes : n \in names /\ <<n, m>> \in g.edges => m \in names

\* findFirstPath: every set of names with the first one that has the children
\* of its names has the last one.
HasPath(g, from, to) == \A names \in SUBSET g.nodes : from \in names /\ Closed(g, names) => to \in names

\* AddEdge fails with a CyclicError when the parent is reachable from the child.
Cyclic(g, parent, child) == child \in g.nodes /\ HasPath(g, child, parent)

\* InsertNodeAt, and AddEdge when the node exists: a cyclic edge is not added.
\* The edges of one call leave the same node, so none of them is on a path that
\* another one closes, and their order does not matter.
Insert(g, parent, children) ==
    [nodes |-> g.nodes \cup children,
     edges |-> g.edges \cup {<<parent, n>> : n \in {m \in children : ~Cyclic(g, parent, m)}}]

(***************************************************************************)
(* resolveRecursive walks the declared dependencies of a project in their  *)
(* order, skips the ones the options exclude and the disabled ones, and    *)
(* descends once into each. A cyclic edge is only logged, the dependency   *)
(* is a child all the same.                                                *)
(***************************************************************************)
Resolver ==
    [graph    : Graph,
     children : [Names -> SUBSET Names],    \* the dependencies found below each name
     todo     : [Names -> SUBSET Names],    \* the ones still to be looked at
     path     : Seq(Names)]                 \* the dependencies it has descended into

NewResolver(root, wanted) ==
    [graph    |-> NewGraph(root),
     children |-> [n \in Names |-> {}],
     todo     |-> [n \in Names |-> IF n = root THEN wanted ELSE {}],
     path     |-> <<root>>]

\* The call of resolveRecursive in progress, its loop at the next dependency.
At(w) == w.path[Len(w.path)]
More(w) == w.todo[At(w)] # {}

\* A dependency that is new in the graph is loaded and descended into, unless
\* its own dependencies are ignored. (The code appends it to the children on the
\* way back.)
ResolveChild(w, wanted, ignore) ==
    LET parent == At(w)
        child == First(w.todo[parent])
        descend == child \notin w.graph.nodes \cup ignore
    IN [graph    |-> Insert(w.graph, parent, {child}),
        children |-> [w.children EXCEPT ![parent] = @ \cup {child}],
        todo     |-> [n \in Names |-> IF n = parent THEN w.todo[n] \ {child}
                                      ELSE IF n = child /\ descend THEN wanted[n] ELSE w.todo[n]],
        path     |-> IF descend THEN Append(w.path, child) ELSE w.path]

\* The loop is over.
ResolveReturns(w) == [w EXCEPT !.path = SubSeq(@, 1, Len(@) - 1)]

\* Of the root, Resolve returns the children of its node.
ChildrenOf(w, root, n) == IF n = root THEN {m \in w.children[n] : <<n, m>> \in w.graph.edges} ELSE w.children[n]
=============================================================================
