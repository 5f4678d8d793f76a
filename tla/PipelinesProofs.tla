--------------------------- MODULE PipelinesProofs ---------------------------
(***************************************************************************)
(* Proofs about Pipelines for any number of processes, any dependencies,   *)
(* retries and faults: its type invariant, the lock between processes      *)
(* (LockHeld, TakeoverStops), the order of the pipelines of a process      *)
(* (DependenciesInOrder) and that they do not wait in a circle.            *)
(*                                                                         *)
(* The inductive invariant IInv has two parts. Local says of each process  *)
(* that its pipelines form a tree whose parents wait for their children,   *)
(* that they wait along the edges of the registry only, and what the call  *)
(* of its registry may return. Owned relates the processes to the config   *)
(* map: what a process occupies (has locked, is about to run, runs, or     *)
(* still has dev pods of) it owns, and a call that has read the config map *)
(* either knows so of every name it has looked at or will find the config  *)
(* map changed.                                                            *)
(***************************************************************************)
EXTENDS Pipelines, TLAPS, WellFoundedInduction

\* What a process that is not running has left: nothing but its entries.
Quiet(p) ==
    /\ reg[p] = NewRegistry(Root(p)) /\ excluded[p] = "no"
    /\ pipe[p] = [n \in Names |-> NoPipeline] /\ handler[p] = [n \in Names |-> "none"]

\* A graph: every name can be reached from the root.
Rooted(g, root) ==
    /\ root \in g.nodes
    /\ g.edges \subseteq g.nodes \X g.nodes
    /\ \A n \in Names : <<n, root>> \notin g.edges
    /\ \A S \in SUBSET g.nodes : root \in S /\ Closed(g, S) => S = g.nodes

\* A resolver: the children of a name it has done with are the declared ones.
Resolved(w, root, wanted, ignore) ==
    /\ Rooted(w.graph, root)
    /\ \A i \in 1 .. Len(w.path) : w.path[i] \in w.graph.nodes
    /\ \A n \in Names : w.todo[n] # {} => \E i \in 1 .. Len(w.path) : w.path[i] = n
    /\ \A n \in Names : w.children[n] \subseteq w.graph.nodes
    /\ \A n \in Names \ w.graph.nodes : w.children[n] = {}
    /\ \A n \in w.graph.nodes \ (ignore \ {root}) : w.children[n] \cup w.todo[n] = wanted[n]
    /\ \A d \in w.children[root] \ {root} : <<root, d>> \in w.graph.edges

Alive == {"queued", "registered", "running"}

\* One pipeline.
PipeOK(r) ==
    /\ r.st = "none" => r = NoPipeline
    /\ r.st = "running" <=> r.pc \notin {"none", "end"}
    /\ r.st = "dead" <=> r.pc = "end"
    /\ r.waits # {} => r.pc = "waiting"
    /\ r.launch # {} => r.pc \in {"waiting", "joining"}
    /\ r.joining # {} => r.pc = "joining"
    /\ r.group => r.pc = "joining"
    /\ r.st = "unstarted" => r.failed
    /\ r.dev = "active" => r.st \in {"running", "dead"}
    /\ r.starts <= 1
    /\ r.st \in {"none", "queued"} => r.starts = 0

\* The pipelines of a process: a tree, whose parents wait for their children.
Tree(P, root) ==
    /\ P[root].parent = None /\ ~P[root].killed
    /\ \A n \in Names \ {root} : P[n].st \in Alive => P[n].parent \in Names /\ n \in P[P[n].parent].joining
    /\ \A m \in Names : \A d \in P[m].joining : d # root /\ P[d].st # "none" /\ P[d].parent = m
    /\ \A m \in Names : \A d \in P[m].launch : d # root /\ P[d].st = "none"
    /\ \A m, k \in Names : P[m].launch \cap P[k].launch # {} => m = k

\* The registry is called by one at a time.
Calls(call, x, P, root) ==
    /\ call.pc = "free" <=> call.by = None
    /\ call.by = "exclude" <=> x = "pending"
    /\ x = "pending" => P[root].pc = "run_dependencies"
    /\ \A n \in Names : P[n].pc = "locking" <=> call.by = n
    /\ call.pc \in {"names", "excluding"} => call.left \subseteq Wanted(call.locks)

\* The root locks itself before anything is started.
Early(x, known, P, root) ==
    /\ x \in {"no", "pending", "error"} =>
          /\ \A n \in Names \ {root} : P[n].st = "none"
          /\ P[root].pc \notin {"locking", "waiting", "joining"}
          /\ known = NoLocks
    /\ x \in {"yes", "refused"} => known[root] # Absent

\* What is launched is known as in use.
KnownOK(known, P, root) ==
    /\ \A n \in Names \ {root} : P[n].st # "none" => known[n] = "InUse"
    /\ \A m \in Names : \A n \in P[m].launch : known[n] = "InUse"

\* A call gives the lock types of its names that are known.
CallKnown(call, known, root) ==
    /\ call.by = "exclude" => \A n \in Names : call.locks[n] # Absent <=> n = root
    /\ call.by \in Names => \A n \in Names :
          /\ call.locks[n] = "Locked" => known[n] = Absent
          /\ call.locks[n] = "InUseByOtherInstance" => known[n] # "InUse"
          /\ known[n] = "InUseByOtherInstance" => n = root \/ call.locks[n] \in {Absent, "InUseByOtherInstance"}

\* The edges of the registry: of what is locked or in use, and nothing else.
Edges(g, P, root) ==
    /\ Rooted(g, root) /\ ~Circular(g.edges)
    /\ \A n \in Names : P[n].st # "none" => n \in g.nodes
    /\ \A n, d \in Names : <<n, d>> \in g.edges => P[n].st \in {"running", "dead"} /\ P[n].pc # "run_dependencies"
    /\ \A n \in Names : \A d \in P[n].waits \cup P[n].launch \cup P[n].joining : <<n, d>> \in g.edges

Asked(call, g, deps) == call.by \in Names => \A d \in Names :
    /\ call.locks[d] = Absent <=> d \notin deps[call.by]
    /\ call.locks[d] \notin {Absent, "InUseCyclic"} => <<call.by, d>> \in g.edges
    /\ call.locks[d] = "InUseCyclic" => <<call.by, d>> \notin g.edges

\* CtxDone, of the pipelines P.
Ctx(P, n) == P[n].killed \/ \E m \in Above(P, n) : P[m].killed \/ P[m].group

\* A job is not run on a cancelled context only.
Lost(P) == \A m \in Names : \A d \in P[m].joining : P[d].st = "lost" => P[m].group \/ Ctx(P, m)

\* The dependencies of a pipeline that goes on: done, or on their way.
GoesOn(P, n) ==
    /\ P[n].pc \in {"waiting", "joining", "create_deployments", "start_dev"}
    /\ ~Ctx(P, n) /\ ~P[n].gaveUp /\ ~P[n].group

InTurn(known, g, P, deps) == \A n \in Names : GoesOn(P, n) => \A d \in deps[n] :
    \/ P[d].st = "dead"
    \/ known[d] = "InUseByOtherInstance"
    \/ <<n, d>> \notin g.edges
    \/ d \in P[n].waits \cup P[n].launch \cup P[n].joining

\* excludeDependency.
Handled(H, P, root) == \A n \in Names :
    /\ H[n] # "none" => n # root
    /\ H[n] \in {"dev", "replied"} => P[n].st = "dead"
    /\ H[n] = "replied" => P[n].failed \/ P[n].dev # "active"

DepsOf(p) == [n \in Names |-> Deps(p, n)]

\* The resolver of a process.
ResolverOK(p) ==
    /\ proc[p] = "idle" => resolver[p] = NewResolver(Root(p), WantedBelow[Root(p)])
    /\ Resolved(resolver[p], Root(p), WantedBelow, scenario.ignore)
    /\ Running(p) => resolver[p].path = <<>>

\* The pipelines and the registry of a process.
Inside(R, x, P, H, root, deps, tolerant) ==
    /\ \A n \in Names : PipeOK(P[n])
    /\ Tree(P, root)
    /\ Calls(R.call, x, P, root)
    /\ Early(x, R.known, P, root)
    /\ KnownOK(R.known, P, root)
    /\ CallKnown(R.call, R.known, root)
    /\ Edges(R.graph, P, root)
    /\ Asked(R.call, R.graph, deps)
    /\ Lost(P)
    /\ tolerant \/ InTurn(R.known, R.graph, P, deps)
    /\ Handled(H, P, root)

Local(p) ==
    /\ ~Running(p) => Quiet(p)
    /\ ResolverOK(p)
    /\ Inside(reg[p], excluded[p], pipe[p], handler[p], Root(p), DepsOf(p), scenario.tolerant)

\* A process has locked n and is about to run it, runs it, or still has its dev pods.
Holding(call, x, P, root, n) ==
    \/ call.pc = "return" /\ call.locks[n] = "Locked"
    \/ n = root /\ x = "yes"
    \/ n # root /\ \/ P[n].st \in Alive
                   \/ \E m \in Names : n \in P[m].launch
                   \/ P[n].dev = "active" /\ ~P[n].failed

Occupies(p, n) == Running(p) /\ Holding(reg[p].call, excluded[p], pipe[p], Root(p), n)

Late(p, n) == <<p, n>> \in faults.late

Asks(p) == reg[p].call.pc \in {"names", "excluding"}

\* The call of p with the copy of the config map it has read: every name it has
\* looked at is taken from a process that does not run it, or nothing is known
\* of it because the config map has changed since.
CallOK(p) ==
    LET call == reg[p].call IN
    /\ Asks(p) => configMap.exists /\ call.copy.exists /\ call.copy.version <= configMap.version
    /\ Asks(p) => \A n \in Wanted(call.locks) \ call.left : call.changed /\ call.copy.owner[n] = p
    /\ Asks(p) /\ ~faults.pingLost /\ call.copy.version = configMap.version => \A n \in Names :
          \/ call.copy.owner[n] = configMap.owner[n]
          \/ /\ n \in Wanted(call.locks) \ call.left /\ call.copy.owner[n] = p
             /\ \A q \in Procs \ {p} : Occupies(q, n) => Late(q, n)
    /\ call.pc = "excluding" => /\ call.by = "exclude"
                                /\ \A n \in call.left : call.copy.owner[n] \in Procs /\ Root(call.copy.owner[n]) # n
    /\ ~faults.pingLost => \A q \in call.failed : proc[q] \in {"ended", "crashed"}
    /\ \A n \in Names : call.copy.owner[n] # None => proc[call.copy.owner[n]] \notin {"idle", "resolving"}

\* The config map: what is occupied is owned.
Owned ==
    /\ ~configMap.exists => configMap = NoConfigMap
    /\ \A n \in Names : configMap.owner[n] # None => proc[configMap.owner[n]] \notin {"idle", "resolving"}
    /\ \A p \in Procs, n \in Names : Late(p, n) => Root(p) # n
    /\ ~faults.pingLost => \A p \in Procs, n \in Names : Occupies(p, n) => configMap.owner[n] = p \/ Late(p, n)
    /\ \A p \in Procs : CallOK(p)

IInv == (\A p \in Procs : Local(p)) /\ Owned

-----------------------------------------------------------------------------
\* A set of numbers that is not empty has a least one.
LEMMA LeastNumber == ASSUME NEW T, T \subseteq Nat, T # {} PROVE \E x \in T : \A y \in T : x <= y
<1> DEFINE R == {ss \in Nat \X Nat : ss[1] < ss[2]}
<1>1. IsWellFoundedOn(R, Nat) BY NatLessThanWellFounded DEF OpToRel
<1> HIDE DEF R
<1>2. PICK x \in T : \A y \in T : ~(<<y, x>> \in R) BY <1>1, WFMin
<1>3. ASSUME NEW y \in T PROVE x <= y
  <2>1. x \in Nat /\ y \in Nat OBVIOUS
  <2>2. ~(y < x) BY <1>2, <2>1 DEF R
  <2>3. QED BY <2>1, <2>2
<1>4. QED BY <1>3

\* The first of a set of names is one of them.
LEMMA FirstIn == ASSUME NEW names, names \subseteq Names, names # {} PROVE First(names) \in names
<1> DEFINE S == {Rank[n] : n \in names}
<1>1. S \subseteq Nat /\ S # {} BY NamesAssumption
<1>2. PICK x \in S : \A y \in S : x <= y BY <1>1, LeastNumber
<1>3. PICK n \in names : x = Rank[n] BY <1>2
<1>4. \A m \in names : Rank[n] <= Rank[m] BY <1>2, <1>3
<1>5. QED BY <1>4 DEF First

-----------------------------------------------------------------------------
(* Types of the graph and of the resolver.                                 *)

\* Children are inserted.
LEMMA GraphType ==
  ASSUME NEW g \in Graph, NEW parent \in Names, NEW children \in SUBSET Names
  PROVE  Insert(g, parent, children) \in Graph
BY DEF Graph, Insert

\* A new graph.
LEMMA NewGraphType == ASSUME NEW n \in Names PROVE NewGraph(n) \in Graph
BY DEF NewGraph, Graph

\* A new resolver.
LEMMA NewResolverType ==
  ASSUME NEW root \in Names, NEW wanted \in SUBSET Names PROVE NewResolver(root, wanted) \in Resolver
BY NewGraphType DEF NewResolver, Resolver

\* The place of a resolver that is not done.
LEMMA AtType == ASSUME NEW w \in Resolver, w.path # <<>> PROVE At(w) \in Names
BY DEF At, Resolver

\* A resolver that has looked at one dependency more.
LEMMA ResolveChildType ==
  ASSUME NEW w \in Resolver, w.path # <<>>, More(w), NEW wanted \in [Names -> SUBSET Names], NEW ignore
  PROVE  ResolveChild(w, wanted, ignore) \in Resolver
<1> DEFINE parent == At(w) 
           child == First(w.todo[parent])
<1>1. parent \in Names BY AtType
<1>2. w.todo[parent] \subseteq Names /\ w.todo[parent] # {} BY <1>1 DEF More, Resolver
<1>3. child \in Names BY <1>2, FirstIn
<1>4. w.graph \in Graph /\ w.children \in [Names -> SUBSET Names] /\ w.todo \in [Names -> SUBSET Names] /\ w.path \in Seq(Names)
  BY DEF Resolver
<1>5. Insert(w.graph, parent, {child}) \in Graph BY <1>1, <1>3, <1>4, GraphType
<1>6. Append(w.path, child) \in Seq(Names) BY <1>3, <1>4
<1> HIDE DEF parent, child
<1>7. QED BY <1>1, <1>3, <1>4, <1>5, <1>6 DEF ResolveChild, Resolver, parent, child

\* A resolver that is done with a name.
LEMMA ResolveReturnsType ==
  ASSUME NEW w \in Resolver, w.path # <<>> PROVE ResolveReturns(w) \in Resolver
<1>1. w.path \in Seq(Names) /\ Len(w.path) \in Nat \ {0} BY DEF Resolver
<1>2. SubSeq(w.path, 1, Len(w.path) - 1) \in Seq(Names) BY <1>1
<1>3. QED BY <1>2 DEF ResolveReturns, Resolver

-----------------------------------------------------------------------------
\* The resolver.
LEMMA ResolvedNew ==
  ASSUME NEW root \in Names, NEW wanted \in [Names -> SUBSET Names], NEW ignore
  PROVE  Resolved(NewResolver(root, wanted[root]), root, wanted, ignore)
<1> DEFINE w == NewResolver(root, wanted[root])
<1>1. /\ w.graph.nodes = {root} /\ w.graph.edges = {} /\ w.path = <<root>>
      /\ w.children = [n \in Names |-> {}]
      /\ w.todo = [n \in Names |-> IF n = root THEN wanted[root] ELSE {}]
  BY DEF NewResolver, NewGraph
<1>2. Len(w.path) = 1 /\ w.path[1] = root BY <1>1
<1>3. \A n \in Names : w.todo[n] # {} => \E i \in 1 .. Len(w.path) : w.path[i] = n BY <1>1, <1>2
<1>4. \A S \in SUBSET w.graph.nodes : root \in S /\ Closed(w.graph, S) => S = w.graph.nodes BY <1>1
<1>5. \A n \in w.graph.nodes \ (ignore \ {root}) : w.children[n] \cup w.todo[n] = wanted[n] BY <1>1
<1>6. /\ w.graph.edges \subseteq w.graph.nodes \X w.graph.nodes /\ root \in w.graph.nodes
      /\ \A i \in 1 .. Len(w.path) : w.path[i] \in w.graph.nodes
      /\ \A n \in Names : <<n, root>> \notin w.graph.edges /\ w.children[n] = {}
  BY <1>1, <1>2
<1> HIDE DEF w
<1>7. Rooted(w.graph, root) BY <1>4, <1>6 DEF Rooted
<1>8. Resolved(w, root, wanted, ignore) BY <1>1, <1>3, <1>5, <1>6, <1>7 DEF Resolved
<1>9. QED BY <1>8 DEF w

\* Children are inserted below a node: they can be reached too, no edge leads
\* back to the root, and an edge from the root is never left out.
LEMMA RootedInsert ==
  ASSUME NEW g \in Graph, NEW root \in Names, Rooted(g, root), NEW parent \in g.nodes, NEW children \in SUBSET Names
  PROVE  /\ Rooted(Insert(g, parent, children), root)
         /\ parent = root => \A n \in children \ {root} : <<root, n>> \in Insert(g, parent, children).edges
<1> DEFINE h == Insert(g, parent, children)
<1>1. /\ g.edges \subseteq g.nodes \X g.nodes /\ root \in g.nodes
      /\ \A n \in Names : <<n, root>> \notin g.edges
      /\ \A S \in SUBSET g.nodes : root \in S /\ Closed(g, S) => S = g.nodes
  BY DEF Rooted
<1>2. /\ h.nodes = g.nodes \cup children
      /\ h.edges = g.edges \cup {<<parent, n>> : n \in {m \in children : ~Cyclic(g, parent, m)}}
  BY DEF Insert
<1> HIDE DEF h
<1>3. Cyclic(g, parent, root)
  <2> SUFFICES ASSUME NEW S \in SUBSET g.nodes, root \in S, Closed(g, S) PROVE parent \in S
    BY <1>1 DEF Cyclic, HasPath
  <2> QED BY <1>1
<1>4. ASSUME NEW child \in children \ {root} PROVE ~Cyclic(g, root, child)
  <2> SUFFICES ASSUME child \in g.nodes, HasPath(g, child, root) PROVE FALSE BY DEF Cyclic
  <2> DEFINE S == g.nodes \ {root}
  <2>1. g.nodes \subseteq Names BY DEF Graph
  <2>2. Closed(g, S) BY <1>1, <2>1 DEF Closed
  <2>3. root \in S BY <1>4, <2>2 DEF HasPath
  <2>4. QED BY <2>3
<1>5. \A n \in Names : <<n, root>> \notin h.edges BY <1>1, <1>2, <1>3
<1>6. parent = root => \A n \in children \ {root} : <<root, n>> \in h.edges BY <1>2, <1>4
<1>7. h.edges \subseteq h.nodes \X h.nodes /\ root \in h.nodes BY <1>1, <1>2
<1>8. ASSUME NEW T \in SUBSET h.nodes, root \in T, Closed(h, T) PROVE T = h.nodes
  <2>1. Closed(g, T \cap g.nodes) BY <1>2, <1>8 DEF Closed
  <2>2. T \cap g.nodes = g.nodes BY <1>1, <1>8, <2>1
  <2>3. ASSUME NEW child \in children, child \notin g.nodes PROVE child \in T
    <3>1. ~Cyclic(g, parent, child) BY <2>3 DEF Cyclic
    <3>2. <<parent, child>> \in h.edges BY <3>1, <1>2
    <3>3. QED BY <3>2, <1>2, <1>8, <2>2 DEF Closed
  <2>4. QED BY <2>2, <2>3, <1>2, <1>8
<1>9. Rooted(h, root) BY <1>5, <1>7, <1>8 DEF Rooted
<1>10. QED BY <1>6, <1>9 DEF h

\* Looking at a dependency, and descending into it, keeps what is said of the resolver.
LEMMA ResolvedChild ==
  ASSUME NEW w \in Resolver, w.path # <<>>, More(w), NEW root \in Names, NEW wanted \in [Names -> SUBSET Names],
         NEW ignore, Resolved(w, root, wanted, ignore)
  PROVE  Resolved(ResolveChild(w, wanted, ignore), root, wanted, ignore)
<1> DEFINE parent == At(w)
           child == First(w.todo[parent])
           descend == child \notin w.graph.nodes \cup ignore
           v == ResolveChild(w, wanted, ignore)
<1>1. w.graph \in Graph /\ w.children \in [Names -> SUBSET Names] /\ w.todo \in [Names -> SUBSET Names] /\ w.path \in Seq(Names)
  BY DEF Resolver
<1>2. Len(w.path) \in Nat \ {0} /\ parent = w.path[Len(w.path)] BY <1>1 DEF At
<1>3. parent \in w.graph.nodes /\ parent \in Names
  <2>1. Len(w.path) \in 1 .. Len(w.path) BY <1>2
  <2>2. parent \in w.graph.nodes BY <2>1, <1>2 DEF Resolved
  <2>3. QED BY <2>2, <1>1 DEF Graph
<1>4. child \in w.todo[parent] /\ child \in Names BY <1>1, <1>3, FirstIn DEF More
<1>5. /\ v.graph = Insert(w.graph, parent, {child})
      /\ v.children = [w.children EXCEPT ![parent] = @ \cup {child}]
      /\ v.todo = [n \in Names |-> IF n = parent THEN w.todo[n] \ {child}
                                   ELSE IF n = child /\ descend THEN wanted[n] ELSE w.todo[n]]
      /\ v.path = IF descend THEN Append(w.path, child) ELSE w.path
  BY DEF ResolveChild
<1> HIDE DEF parent, child, v
<1>6. Rooted(w.graph, root) BY DEF Resolved
<1>7. /\ v.graph.nodes = w.graph.nodes \cup {child} /\ w.graph.edges \subseteq v.graph.edges
      /\ v.graph.edges \subseteq w.graph.edges \cup {<<parent, child>>}
  BY <1>5 DEF Insert
<1>8. Rooted(v.graph, root) /\ (parent = root /\ child # root => <<root, child>> \in v.graph.edges)
  BY <1>1, <1>3, <1>4, <1>5, <1>6, RootedInsert
<1>9. \A i \in 1 .. Len(w.path) : w.path[i] \in w.graph.nodes BY DEF Resolved
<1>10. /\ Len(v.path) \in Nat /\ Len(v.path) >= Len(w.path)
       /\ \A i \in 1 .. Len(w.path) : v.path[i] = w.path[i]
       /\ descend => Len(v.path) = Len(w.path) + 1 /\ v.path[Len(v.path)] = child
       /\ ~descend => v.path = w.path
  BY <1>1, <1>2, <1>4, <1>5
<1>11. \A i \in 1 .. Len(v.path) : v.path[i] \in v.graph.nodes
  <2> SUFFICES ASSUME NEW i \in 1 .. Len(v.path) PROVE v.path[i] \in v.graph.nodes OBVIOUS
  <2>1. CASE i \in 1 .. Len(w.path) BY <2>1, <1>7, <1>9, <1>10
  <2>2. CASE i \notin 1 .. Len(w.path)
    <3>1. descend /\ i = Len(v.path) BY <2>2, <1>2, <1>10
    <3>2. QED BY <3>1, <1>7, <1>10
  <2>3. QED BY <2>1, <2>2
<1>12. \A n \in Names : v.todo[n] # {} => \E i \in 1 .. Len(v.path) : v.path[i] = n
  <2> SUFFICES ASSUME NEW n \in Names, v.todo[n] # {} PROVE \E i \in 1 .. Len(v.path) : v.path[i] = n OBVIOUS
  <2>1. CASE n = child /\ descend /\ n # parent
    <3>1. Len(v.path) \in 1 .. Len(v.path) BY <2>1, <1>2, <1>10
    <3>2. QED BY <2>1, <3>1, <1>10
  <2>2. CASE ~(n = child /\ descend /\ n # parent)
    <3>1. w.todo[n] # {} BY <2>2, <1>5
    <3>2. PICK i \in 1 .. Len(w.path) : w.path[i] = n BY <3>1 DEF Resolved
    <3>3. i \in 1 .. Len(v.path) BY <1>2, <1>10
    <3>4. QED BY <3>2, <3>3, <1>10
  <2>3. QED BY <2>1, <2>2
<1>13. \A n \in Names : v.children[n] \subseteq v.graph.nodes
  <2>1. \A n \in Names : w.children[n] \subseteq w.graph.nodes BY DEF Resolved
  <2>2. \A n \in Names : n # parent => v.children[n] = w.children[n] BY <1>1, <1>5
  <2>3. v.children[parent] = w.children[parent] \cup {child} BY <1>1, <1>3, <1>5
  <2>4. QED BY <2>1, <2>2, <2>3, <1>7
<1>14. \A n \in Names \ v.graph.nodes : v.children[n] = {}
  <2>1. \A n \in Names \ w.graph.nodes : w.children[n] = {} BY DEF Resolved
  <2>2. \A n \in Names \ {parent} : v.children[n] = w.children[n] BY <1>1, <1>5
  <2>3. QED BY <2>1, <2>2, <1>3, <1>7
<1>15. \A n \in v.graph.nodes \ (ignore \ {root}) : v.children[n] \cup v.todo[n] = wanted[n]
  <2> SUFFICES ASSUME NEW n \in v.graph.nodes \ (ignore \ {root}) PROVE v.children[n] \cup v.todo[n] = wanted[n] OBVIOUS
  <2>1. n \in Names BY <1>1, <1>4, <1>7 DEF Graph
  <2>2. CASE n \in w.graph.nodes
    <3>1. w.children[n] \cup w.todo[n] = wanted[n] BY <2>2 DEF Resolved
    <3>2. CASE n = parent BY <3>1, <3>2, <2>1, <1>1, <1>4, <1>5
    <3>3. CASE n # parent BY <3>1, <3>3, <2>1, <2>2, <1>1, <1>4, <1>5
    <3>4. QED BY <3>2, <3>3
  <2>3. CASE n \notin w.graph.nodes
    <3>1. n = child /\ n # parent /\ n # root BY <2>3, <1>3, <1>6, <1>7 DEF Rooted
    <3>2. descend BY <3>1, <2>3
    <3>3. v.todo[n] = wanted[n] BY <3>1, <3>2, <2>1, <1>5
    <3>4. v.children[n] = w.children[n] BY <3>1, <2>1, <1>1, <1>5
    <3>5. w.children[n] = {} BY <2>1, <2>3 DEF Resolved
    <3>6. QED BY <3>3, <3>4, <3>5
  <2>4. QED BY <2>2, <2>3
<1>16. \A d \in v.children[root] \ {root} : <<root, d>> \in v.graph.edges
  <2>1. \A d \in w.children[root] \ {root} : <<root, d>> \in w.graph.edges BY DEF Resolved
  <2>2. parent # root => v.children[root] = w.children[root] BY <1>1, <1>3, <1>5
  <2>3. parent = root => v.children[root] = w.children[root] \cup {child} BY <1>1, <1>3, <1>5
  <2>4. QED BY <2>1, <2>2, <2>3, <1>7, <1>8
<1>17. Resolved(v, root, wanted, ignore)
  BY <1>8, <1>11, <1>12, <1>13, <1>15, <1>16, <1>14 DEF Resolved
<1>18. QED BY <1>17 DEF v

\* The loop of a name is over when none of its dependencies is left.
LEMMA ResolvedReturns ==
  ASSUME NEW w \in Resolver, w.path # <<>>, ~More(w), NEW root \in Names, NEW wanted \in [Names -> SUBSET Names],
         NEW ignore, Resolved(w, root, wanted, ignore)
  PROVE  Resolved(ResolveReturns(w), root, wanted, ignore)
<1> DEFINE v == ResolveReturns(w)
<1>1. w.path \in Seq(Names) /\ Len(w.path) \in Nat \ {0} BY DEF Resolver
<1>2. v.path = SubSeq(w.path, 1, Len(w.path) - 1) BY DEF ResolveReturns, Resolver
<1>3. v.graph = w.graph /\ v.children = w.children /\ v.todo = w.todo BY DEF ResolveReturns, Resolver
<1> HIDE DEF v
<1>4. Len(v.path) = Len(w.path) - 1 /\ \A i \in 1 .. Len(w.path) - 1 : v.path[i] = w.path[i] BY <1>1, <1>2
<1>5. ASSUME NEW i \in 1 .. Len(v.path) PROVE v.path[i] \in v.graph.nodes
  <2>1. i \in 1 .. Len(w.path) /\ v.path[i] = w.path[i] BY <1>1, <1>4
  <2>2. w.path[i] \in w.graph.nodes BY <2>1 DEF Resolved
  <2>3. QED BY <2>1, <2>2, <1>3
<1>6. ASSUME NEW n \in Names, v.todo[n] # {} PROVE \E i \in 1 .. Len(v.path) : v.path[i] = n
  <2>1. PICK i \in 1 .. Len(w.path) : w.path[i] = n BY <1>3, <1>6 DEF Resolved
  <2>2. i # Len(w.path) BY <1>3, <1>6, <2>1 DEF More, At
  <2>3. i \in 1 .. Len(v.path) BY <1>1, <1>4, <2>1, <2>2
  <2>4. QED BY <1>4, <2>1, <2>3
<1>7. Resolved(v, root, wanted, ignore) BY <1>3, <1>5, <1>6 DEF Resolved
<1>8. QED BY <1>7 DEF v

\* With every name done with, the children are the declared dependencies.
LEMMA ResolvedAll ==
  ASSUME NEW w \in Resolver, w.path = <<>>, NEW root \in Names, NEW wanted, NEW ignore,
         Resolved(w, root, wanted, ignore), NEW n \in w.graph.nodes \ (ignore \ {root})
  PROVE  ChildrenOf(w, root, n) = wanted[n] \ {d \in {n} : n = root}
<1>1. n \in Names BY DEF Resolver, Graph
<1>2. w.todo[n] = {}
  <2>1. Len(w.path) = 0 BY DEF Resolver
  <2>2. QED BY <1>1, <2>1 DEF Resolved
<1>3. w.children[n] \cup w.todo[n] = wanted[n] BY DEF Resolved
<1>4. CASE n # root BY <1>2, <1>3, <1>4 DEF ChildrenOf
<1>5. CASE n = root
  <2>1. \A d \in w.children[n] \ {n} : <<n, d>> \in w.graph.edges BY <1>5 DEF Resolved
  <2>2. <<n, n>> \notin w.graph.edges BY <1>1, <1>5 DEF Resolved, Rooted
  <2>3. QED BY <1>2, <1>3, <1>5, <2>1, <2>2 DEF ChildrenOf
<1>6. QED BY <1>4, <1>5

\* An edge that closes a circle is left out.
LEMMA InsertNotCircular ==
  ASSUME NEW g \in Graph, g.edges \subseteq g.nodes \X g.nodes, NEW parent \in g.nodes, NEW children \in SUBSET Names,
         ~Circular(g.edges)
  PROVE  ~Circular(Insert(g, parent, children).edges)
<1> DEFINE new == {n \in children : ~Cyclic(g, parent, n)}
           edges == g.edges \cup {<<parent, n>> : n \in new}
<1>1. Insert(g, parent, children).edges = edges BY DEF Insert
<1>2. g.nodes \subseteq Names BY DEF Graph
<1>3. SUFFICES ASSUME NEW names \in SUBSET Names, names # {}, \A n \in names : \E m \in names : <<n, m>> \in edges
      PROVE FALSE
  BY <1>1 DEF Circular
<1>4. \A n \in names \ {parent} : \E m \in names : <<n, m>> \in g.edges BY <1>3
<1>5. PICK c \in names : parent \in names /\ c \in new
  <2>1. ~(\A n \in names : \E m \in names : <<n, m>> \in g.edges) BY <1>3 DEF Circular
  <2>2. parent \in names /\ ~(\E m \in names : <<parent, m>> \in g.edges) BY <1>4, <2>1
  <2>3. PICK m \in names : <<parent, m>> \in edges BY <1>3, <2>2
  <2>4. m \in new BY <2>2, <2>3
  <2>5. QED BY <2>2, <2>4
<1>6. CASE c \notin g.nodes
  <2>1. c # parent BY <1>6
  <2>2. PICK m \in names : <<c, m>> \in g.edges BY <1>4, <2>1
  <2>3. QED BY <1>6, <2>2
<1>7. CASE c \in g.nodes
  <2>1. PICK S \in SUBSET g.nodes : c \in S /\ Closed(g, S) /\ parent \notin S
    BY <1>5, <1>7 DEF Cyclic, HasPath
  <2>2. ASSUME NEW n \in names \cap S PROVE \E m \in names \cap S : <<n, m>> \in g.edges
    <3>1. PICK m \in names : <<n, m>> \in g.edges BY <1>4, <2>1
    <3>2. m \in S BY <2>1, <3>1 DEF Closed
    <3>3. QED BY <3>1, <3>2
  <2>3. names \cap S \in SUBSET Names /\ names \cap S # {} BY <1>5, <2>1
  <2>4. QED BY <1>3, <2>2, <2>3 DEF Circular
<1>8. QED BY <1>6, <1>7

-----------------------------------------------------------------------------
\* Types of the steps.
RegistryType == [graph : Graph, known : [Names -> (Locks \ {"Locked", "InUseCyclic"}) \cup {Absent}], call : RegistryCall]

\* The project of a process is a name.
LEMMA RootType == ASSUME TypeOK, NEW p \in Procs
  PROVE /\ Root(p) \in Names /\ WantedBelow \in [Names -> SUBSET Names]
        /\ scenario.tolerant \in BOOLEAN /\ scenario.sequential \in BOOLEAN
<1>1. scenario \in Scenario BY PipelinesAssumption DEF TypeOK
<1>2. QED BY <1>1 DEF Scenario, Root, WantedBelow

\* What a process is set back to when it is gone.
LEMMA FreeTypes == ASSUME TypeOK, NEW p \in Procs
  PROVE /\ NoConfigMap \in ConfigMap /\ FreeCall \in RegistryCall /\ NewRegistry(Root(p)) \in RegistryType
        /\ NoPipeline \in Pipeline /\ NoLocks \in [Names -> {Absent}]
<1>1. NoConfigMap \in ConfigMap BY DEF NoConfigMap, ConfigMap
<1>2. NoLocks \in [Names -> {Absent}] BY DEF NoLocks
<1>3. FreeCall \in RegistryCall BY <1>1, <1>2 DEF FreeCall, RegistryCall
<1>4. NewRegistry(Root(p)) \in RegistryType
  <2>1. NewGraph(Root(p)) \in Graph BY RootType, NewGraphType
  <2>2. QED BY <1>2, <1>3, <2>1 DEF NewRegistry, RegistryType
<1>5. NoPipeline \in Pipeline BY DEF NoPipeline, Pipeline
<1>6. QED BY <1>1, <1>2, <1>3, <1>4, <1>5

\* The state of one process.
LEMMA ProcTypes == ASSUME TypeOK, NEW p \in Procs
  PROVE /\ reg[p] \in RegistryType /\ reg[p].call \in RegistryCall /\ reg[p].graph \in Graph
        /\ resolver[p] \in Resolver /\ pipe[p] \in [Names -> Pipeline]
        /\ DepsOf(p) \in [Names -> SUBSET Names]
<1>1. resolver[p] \in Resolver BY DEF TypeOK
<1>2. reg[p] \in RegistryType BY DEF TypeOK, RegistryType
<1>3. pipe[p] \in [Names -> Pipeline] BY DEF TypeOK
<1>4. \A n \in Names : Deps(p, n) \in SUBSET Names BY <1>1 DEF Deps, ChildrenOf, Resolver
<1>5. DepsOf(p) \in [Names -> SUBSET Names] BY <1>4 DEF DepsOf
<1>6. QED BY <1>1, <1>2, <1>3, <1>5 DEF RegistryType

\* A step of one pipeline.
LEMMA UpdateType == ASSUME TypeOK, NEW p \in Procs, NEW n \in Names, NEW r \in Pipeline, Update(p, n, r)
  PROVE pipe' \in [Procs -> [Names -> Pipeline]]
BY DEF TypeOK, Update

\* A step of a call.
LEMMA SetCallType == ASSUME TypeOK, NEW p \in Procs, NEW call \in RegistryCall, SetCall(p, call)
  PROVE reg' \in [Procs -> RegistryType]
<1>1. reg \in [Procs -> RegistryType] BY DEF TypeOK, RegistryType
<1>2. [reg[p] EXCEPT !.call = call] \in RegistryType BY <1>1 DEF RegistryType
<1>3. reg' = [reg EXCEPT ![p] = [reg[p] EXCEPT !.call = call]] BY <1>1 DEF SetCall, RegistryType
<1>4. QED BY <1>1, <1>2, <1>3

\* A step of a registry.
LEMMA SetRegType == ASSUME TypeOK, NEW p \in Procs, NEW R \in RegistryType, reg' = [reg EXCEPT ![p] = R]
  PROVE reg' \in [Procs -> RegistryType]
BY DEF TypeOK, RegistryType

\* A job that ends.
LEMMA EndedType == ASSUME NEW r \in Pipeline, NEW err \in BOOLEAN PROVE Ended(r, err) \in Pipeline
BY DEF Ended, Pipeline

\* A command that succeeds.
LEMMA SucceededType == ASSUME NEW r \in Pipeline, r.pc \notin {"none", "end"} PROVE Succeeded(r) \in Pipeline
<1>1. Command(r.pc) \in {"run_dependencies", "create_deployments", "start_dev"} BY DEF Command, Pipeline
<1>2. NextCommand(Command(r.pc)) \in {"create_deployments", "start_dev", "end"} BY <1>1 DEF NextCommand
<1>3. CASE NextCommand(Command(r.pc)) = "end"
  <2>1. Succeeded(r) = Ended(r, FALSE) BY <1>3 DEF Succeeded
  <2>2. QED BY <2>1, EndedType
<1>4. CASE NextCommand(Command(r.pc)) # "end"
  <2> DEFINE next == NextCommand(Command(r.pc))
  <2>1. Succeeded(r) = [r EXCEPT !.pc = next, !.waits = {}, !.launch = {}, !.joining = {}]
    BY <1>4 DEF Succeeded
  <2> HIDE DEF next
  <2>2. next \in {"create_deployments", "start_dev"} BY <1>2, <1>4 DEF next
  <2>3. QED BY <2>1, <2>2 DEF Pipeline
<1>5. QED BY <1>3, <1>4

\* A command that fails.
LEMMA FailedType == ASSUME NEW r \in Pipeline, r.pc \notin {"none", "end"} PROVE Failed(r) \in Pipeline
BY EndedType, SucceededType DEF Failed

\* The lock types of a call.
LEMMA LocksOfType == ASSUME TypeOK, NEW p \in Procs, NEW by, NEW from \in Names, NEW names \in SUBSET Names
  PROVE LocksOf(p, by, from, names) \in [Names -> Locks \cup {Absent}]
<1>1. reg[p].known \in [Names -> (Locks \ {"Locked", "InUseCyclic"}) \cup {Absent}] BY ProcTypes DEF RegistryType
<1>2. \A n \in Names : LockKnown(p, n) \in Locks BY <1>1 DEF LockKnown, Locks
<1>3. \A n \in Names : LockType(p, from, n) \in Locks BY <1>2 DEF LockType, Locks
<1>4. NoLocks \in [Names -> Locks \cup {Absent}] BY DEF NoLocks
<1>5. QED BY <1>2, <1>3, <1>4 DEF LocksOf

\* What the registry remembers of a call.
LEMMA RememberType == ASSUME TypeOK, NEW p \in Procs, NEW locks \in [Names -> Locks \cup {Absent}]
  PROVE Remember(p, locks) \in [Names -> (Locks \ {"Locked", "InUseCyclic"}) \cup {Absent}]
<1>1. reg[p].known \in [Names -> (Locks \ {"Locked", "InUseCyclic"}) \cup {Absent}] BY ProcTypes DEF RegistryType
<1>2. QED BY <1>1 DEF Remember, Locks, Absent

\* A call that begins.
LEMMA BeginType == ASSUME TypeOK, NEW p \in Procs, NEW by \in Names \cup {"exclude"}, NEW from \in Names,
                          NEW names \in SUBSET Names, Begin(p, by, from, names)
  PROVE reg' \in [Procs -> RegistryType]
<1> DEFINE locks == LocksOf(p, by, from, names)
           pc == IF Wanted(locks) = {} THEN "return" ELSE "get"
           call == [[FreeCall EXCEPT !.by = by, !.locks = locks, !.retries = MaxRetries] EXCEPT !.pc = pc]
           graph == IF by = "exclude" THEN reg[p].graph ELSE Insert(reg[p].graph, from, names)
<1>1. locks \in [Names -> Locks \cup {Absent}] BY LocksOfType
<1>2. FreeCall \in RegistryCall BY FreeTypes
<1>3. pc \in {"return", "get"} OBVIOUS
<1> HIDE DEF locks, pc
<1>4. call \in RegistryCall BY <1>1, <1>2, <1>3, PipelinesAssumption DEF RegistryCall
<1>5. graph \in Graph BY ProcTypes, GraphType
<1> HIDE DEF call, graph
<1>6. reg' = [reg EXCEPT ![p] = [reg[p] EXCEPT !.graph = graph, !.call = call]]
  BY DEF Begin, locks, pc, call, graph, TypeOK
<1>7. [reg[p] EXCEPT !.graph = graph, !.call = call] \in RegistryType BY <1>4, <1>5, ProcTypes DEF RegistryType
<1>8. QED BY <1>6, <1>7, SetRegType

\* A call of the registry with some of its fields changed.
LEMMA CallTypes ==
  ASSUME TypeOK, NEW p \in Procs, NEW call \in RegistryCall, NEW n \in Names
  PROVE  /\ \A pc \in {"get", "create", "names", "excluding", "return", "error"} : [call EXCEPT !.pc = pc] \in RegistryCall
         /\ TakeOver(call, p, n) \in RegistryCall
         /\ \A q \in Procs : [TakeOver(call, p, n) EXCEPT !.failed = @ \cup {q}] \in RegistryCall
         /\ \A lock \in Locks : Refuse(call, n, lock) \in RegistryCall
         /\ Retry(call) \in RegistryCall
<1>1. call.copy \in ConfigMap /\ call.copy.owner \in [Names -> Procs \cup {None}] BY DEF RegistryCall, ConfigMap
<1>2. [call.copy EXCEPT !.owner[n] = p] \in ConfigMap BY <1>1 DEF ConfigMap
<1>3. TakeOver(call, p, n)
        = [call EXCEPT !.left = call.left \ {n}, !.copy = [call.copy EXCEPT !.owner[n] = p], !.changed = TRUE, !.pc = "names"]
  BY <1>1 DEF TakeOver, RegistryCall
<1>4. TakeOver(call, p, n) \in RegistryCall BY <1>2, <1>3 DEF RegistryCall
<1>5. ASSUME NEW q \in Procs PROVE [TakeOver(call, p, n) EXCEPT !.failed = @ \cup {q}] \in RegistryCall
  BY <1>4 DEF RegistryCall
<1>6. ASSUME NEW lock \in Locks PROVE Refuse(call, n, lock) \in RegistryCall
  <2>1. [call.locks EXCEPT ![n] = lock] \in [Names -> Locks \cup {Absent}] BY DEF RegistryCall
  <2>2. Refuse(call, n, lock)
          = [call EXCEPT !.left = call.left \ {n}, !.locks = [call.locks EXCEPT ![n] = lock], !.pc = "names"]
    BY DEF Refuse, RegistryCall
  <2>3. QED BY <2>1, <2>2 DEF RegistryCall
<1>7. \A pc \in {"get", "create", "names", "excluding", "return", "error"} : [call EXCEPT !.pc = pc] \in RegistryCall
  BY DEF RegistryCall
<1>8. Retry(call) \in RegistryCall
  <2>1. call.retries \in Nat BY DEF RegistryCall
  <2>2. CASE call.retries = 0 BY <1>7, <2>2 DEF Retry
  <2>3. CASE call.retries # 0
    <3>1. call.retries - 1 \in Nat BY <2>1, <2>3
    <3>2. Retry(call) = [call EXCEPT !.pc = "get", !.retries = call.retries - 1] BY <2>3 DEF Retry, RegistryCall
    <3>3. QED BY <3>1, <3>2 DEF RegistryCall
  <2>4. QED BY <2>2, <2>3
<1>9. QED BY <1>4, <1>5, <1>6, <1>7, <1>8

FaultsType == [count : Nat, pingLost : BOOLEAN, late : SUBSET (Procs \X Names)]

\* What a step adds to the history of faults.
LEMMA FaultTypes ==
  ASSUME TypeOK, NEW q \in Procs, NEW n \in Names
  PROVE  /\ [faults EXCEPT !.count = @ + 1] \in FaultsType
         /\ [faults EXCEPT !.count = @ + 1, !.pingLost = TRUE] \in FaultsType
         /\ [faults EXCEPT !.late = @ \cup {<<q, n>>}] \in FaultsType
         /\ [faults EXCEPT !.count = @ + 1, !.late = @ \cup {<<q, n>>}] \in FaultsType
<1>1. faults \in FaultsType BY DEF TypeOK, FaultsType
<1>2. faults.count + 1 \in Nat /\ faults.late \cup {<<q, n>>} \in SUBSET (Procs \X Names) BY <1>1 DEF FaultsType
<1>3. QED BY <1>1, <1>2 DEF FaultsType

\* A record of a pipeline with some of its fields changed.
LEMMA PipelineTypes ==
  ASSUME NEW r \in Pipeline
  PROVE  /\ [r EXCEPT !.devClosed = TRUE] \in Pipeline /\ [r EXCEPT !.killed = TRUE] \in Pipeline
         /\ [r EXCEPT !.dev = "active"] \in Pipeline /\ [r EXCEPT !.dev = "ended"] \in Pipeline
         /\ [r EXCEPT !.st = "registered", !.starts = @ + 1] \in Pipeline
         /\ [r EXCEPT !.st = "unstarted", !.failed = TRUE] \in Pipeline
         /\ [r EXCEPT !.st = "lost"] \in Pipeline
         /\ [r EXCEPT !.st = "running", !.pc = "run_dependencies"] \in Pipeline
         /\ [r EXCEPT !.pc = "locking"] \in Pipeline /\ [r EXCEPT !.pc = "waiting"] \in Pipeline
         /\ [r EXCEPT !.group = FALSE] \in Pipeline
<1>1. [r EXCEPT !.devClosed = TRUE] \in Pipeline /\ [r EXCEPT !.killed = TRUE] \in Pipeline BY DEF Pipeline
<1>2. [r EXCEPT !.dev = "active"] \in Pipeline /\ [r EXCEPT !.dev = "ended"] \in Pipeline BY DEF Pipeline
<1>3. [r EXCEPT !.st = "registered", !.starts = @ + 1] \in Pipeline
  <2>1. r.starts + 1 \in Nat BY DEF Pipeline
  <2>2. QED BY <2>1 DEF Pipeline
<1>4. [r EXCEPT !.st = "unstarted", !.failed = TRUE] \in Pipeline BY DEF Pipeline
<1>5. [r EXCEPT !.st = "lost"] \in Pipeline BY DEF Pipeline
<1>6. [r EXCEPT !.st = "running", !.pc = "run_dependencies"] \in Pipeline BY DEF Pipeline
<1>7. [r EXCEPT !.pc = "locking"] \in Pipeline /\ [r EXCEPT !.pc = "waiting"] \in Pipeline BY DEF Pipeline
<1>8. [r EXCEPT !.group = FALSE] \in Pipeline BY DEF Pipeline
<1>9. QED BY <1>1, <1>2, <1>3, <1>4, <1>5, <1>6, <1>7, <1>8

\* What a step of the registry leaves alone.
LEMMA RegistryTypeFrame ==
  ASSUME TypeOK, reg' \in [Procs -> RegistryType], configMap' \in ConfigMap,
         UNCHANGED <<scenario, proc, resolver, excluded, pipe, handler, faults>>
  PROVE  TypeOK'
BY DEF TypeOK, RegistryType

\* What a step of a pipeline leaves alone.
LEMMA PipeTypeFrame ==
  ASSUME TypeOK, pipe' \in [Procs -> [Names -> Pipeline]], 
         UNCHANGED <<scenario, configMap, proc, resolver, reg, excluded, handler, faults>>
  PROVE  TypeOK'
BY DEF TypeOK

\* The steps of a process keep the types.
LEMMA ProcessTypes ==
  ASSUME TypeOK, NEW p \in Procs,
         Start(p) \/ Resolve(p) \/ ResolveFails(p) \/ Run(p) \/ Crash(p) \/ CloseRoot(p) \/ Exit(p)
  PROVE  TypeOK'
<1>1. CASE Start(p) BY <1>1 DEF TypeOK, Start
<1>2. CASE Resolve(p)
  <2>1. resolver[p] \in Resolver /\ resolver[p].path # <<>> BY <1>2 DEF TypeOK, Resolve, Resolving
  <2>2. WantedBelow \in [Names -> SUBSET Names] BY RootType
  <2> DEFINE w == IF More(resolver[p]) THEN ResolveChild(resolver[p], WantedBelow, scenario.ignore) ELSE ResolveReturns(resolver[p])
  <2>3. w \in Resolver BY <2>1, <2>2, ResolveChildType, ResolveReturnsType
  <2>4. resolver' = [resolver EXCEPT ![p] = w] BY <1>2 DEF Resolve, TypeOK
  <2> HIDE DEF w
  <2>5. resolver' \in [Procs -> Resolver] BY <2>3, <2>4 DEF TypeOK
  <2>6. QED BY <1>2, <2>5 DEF TypeOK, Resolve
<1>3. CASE ResolveFails(p)
  <2>1. faults' \in FaultsType BY <1>3, RootType, FaultTypes DEF ResolveFails
  <2>2. QED BY <1>3, <2>1 DEF TypeOK, FaultsType, ResolveFails
<1>4. CASE Run(p)
  <2>1. [NoPipeline EXCEPT !.st = "running", !.pc = "run_dependencies", !.starts = 1] \in Pipeline
    BY FreeTypes DEF Pipeline
  <2>2. pipe' \in [Procs -> [Names -> Pipeline]] BY <1>4, <2>1, RootType, UpdateType DEF Run
  <2>3. QED BY <1>4, <2>2 DEF TypeOK, Run
<1>5. ASSUME NEW how \in {"ended", "crashed"}, Gone(p, how)
      PROVE /\ proc' \in [Procs -> {"idle", "resolving", "running", "ended", "crashed"}]
            /\ reg' \in [Procs -> RegistryType] /\ pipe' \in [Procs -> [Names -> Pipeline]]
            /\ handler' \in [Procs -> [Names -> {"none", "main", "dev", "replied"}]]
            /\ excluded' \in [Procs -> {"no", "pending", "yes", "refused", "error"}]
  <2>1. NewRegistry(Root(p)) \in RegistryType /\ NoPipeline \in Pipeline BY FreeTypes
  <2>2. reg' \in [Procs -> RegistryType] BY <1>5, <2>1, SetRegType DEF Gone
  <2>3. pipe' \in [Procs -> [Names -> Pipeline]] BY <1>5, <2>1 DEF Gone, TypeOK
  <2>4. handler' \in [Procs -> [Names -> {"none", "main", "dev", "replied"}]] BY <1>5 DEF Gone, TypeOK
  <2>5. QED BY <1>5, <2>2, <2>3, <2>4 DEF Gone, TypeOK
<1>6. CASE Crash(p)
  <2>1. faults' \in FaultsType BY <1>6, RootType, FaultTypes DEF Crash
  <2>2. Gone(p, "crashed") BY <1>6 DEF Crash
  <2>3. QED BY <1>5, <1>6, <2>1, <2>2 DEF TypeOK, FaultsType, Crash, RegistryType
<1>7. CASE Exit(p)
  <2>1. Gone(p, "ended") BY <1>7 DEF Exit
  <2>2. QED BY <1>5, <1>7, <2>1 DEF TypeOK, Exit, RegistryType
<1>8. CASE CloseRoot(p)
  <2>1. [pipe[p][Root(p)] EXCEPT !.devClosed = TRUE] \in Pipeline BY RootType, ProcTypes, PipelineTypes
  <2>2. pipe' \in [Procs -> [Names -> Pipeline]] BY <1>8, <2>1, RootType, UpdateType DEF CloseRoot
  <2>3. QED BY <1>8, <2>2, PipeTypeFrame DEF CloseRoot
<1>9. QED BY <1>1, <1>2, <1>3, <1>4, <1>6, <1>7, <1>8

\* The steps of a call keep the types.
LEMMA RegistryTypes == ASSUME TypeOK, NEW p \in Procs, CallOK(p), Registry(p) PROVE TypeOK'
<1> DEFINE call == reg[p].call
<1>1. call \in RegistryCall BY ProcTypes
<1>2. call.copy \in ConfigMap /\ call.locks \in [Names -> Locks \cup {Absent}] /\ call.left \subseteq Names
  BY <1>1 DEF RegistryCall
<1>3. CASE RegistryGet(p)
  <2> DEFINE asked == [call EXCEPT !.pc = "names", !.left = Wanted(call.locks), !.copy = configMap, !.changed = FALSE, !.failed = {}]
             create == [call EXCEPT !.pc = "create"]
             next == IF configMap.exists THEN asked ELSE create
  <2>1. Wanted(call.locks) \subseteq Names /\ configMap \in ConfigMap BY DEF Wanted, TypeOK
  <2>2. asked \in RegistryCall BY <1>1, <2>1 DEF RegistryCall
  <2>3. create \in RegistryCall BY <1>1 DEF RegistryCall
  <2>4. SetCall(p, next) BY <1>3 DEF RegistryGet
  <2>5. next \in RegistryCall BY <2>2, <2>3
  <2> HIDE DEF next
  <2>6. reg' \in [Procs -> RegistryType] BY <2>4, <2>5, SetCallType
  <2>7. QED BY <1>3, <2>1, <2>6, RegistryTypeFrame DEF RegistryGet
<1>4. CASE RegistryCreate(p)
  <2>1. CASE configMap.exists
    <3>1. Retry(call) \in RegistryCall BY <1>1, RootType, CallTypes
    <3>2. SetCall(p, Retry(call)) BY <1>4, <2>1 DEF RegistryCreate
    <3>3. reg' \in [Procs -> RegistryType] BY <3>1, <3>2, SetCallType
    <3>4. configMap' \in ConfigMap BY <1>4, <2>1 DEF RegistryCreate, TypeOK
    <3>5. QED BY <1>4, <3>3, <3>4, RegistryTypeFrame DEF RegistryCreate
  <2>2. CASE ~configMap.exists
    <3>1. [call EXCEPT !.pc = "return"] \in RegistryCall BY <1>1 DEF RegistryCall
    <3>2. SetCall(p, [call EXCEPT !.pc = "return"]) BY <1>4, <2>2 DEF RegistryCreate
    <3>3. reg' \in [Procs -> RegistryType] BY <3>1, <3>2, SetCallType
    <3>4. configMap' \in ConfigMap
      <4>1. configMap.owner \in [Names -> Procs \cup {None}] BY DEF TypeOK, ConfigMap
      <4>2. Taken(p, configMap.owner, Wanted(call.locks)) \in [Names -> Procs \cup {None}] BY <4>1 DEF Taken
      <4>3. configMap' = [exists |-> TRUE, version |-> 1, owner |-> Taken(p, configMap.owner, Wanted(call.locks))]
        BY <1>4, <2>2 DEF RegistryCreate
      <4>4. QED BY <4>2, <4>3 DEF ConfigMap
    <3>5. QED BY <1>4, <3>3, <3>4, RegistryTypeFrame DEF RegistryCreate
  <2>3. QED BY <2>1, <2>2
<1>5. CASE RegistryUpdate(p)
  <2> DEFINE ret == [call EXCEPT !.pc = "return"]
             map == [call.copy EXCEPT !.version = @ + 1]
  <2>1. ret \in RegistryCall BY <1>1 DEF RegistryCall
  <2>2. Retry(call) \in RegistryCall BY <1>1, RootType, CallTypes
  <2>3. map \in ConfigMap BY <1>2 DEF ConfigMap
  <2>4. \/ SetCall(p, ret) /\ configMap' = configMap
        \/ SetCall(p, Retry(call)) /\ configMap' = configMap
        \/ SetCall(p, ret) /\ configMap' = map
    BY <1>5 DEF RegistryUpdate
  <2> HIDE DEF ret, map
  <2>5. reg' \in [Procs -> RegistryType] BY <2>1, <2>2, <2>4, SetCallType
  <2>6. configMap' \in ConfigMap BY <2>3, <2>4 DEF TypeOK
  <2>7. QED BY <1>5, <2>5, <2>6, RegistryTypeFrame DEF RegistryUpdate
<1>6. CASE RegistryFails(p)
  <2>1. [call EXCEPT !.pc = "error"] \in RegistryCall BY <1>1 DEF RegistryCall
  <2>2. SetCall(p, [call EXCEPT !.pc = "error"]) BY <1>6 DEF RegistryFails
  <2>3. reg' \in [Procs -> RegistryType] BY <2>1, <2>2, SetCallType
  <2>4. faults' \in FaultsType 
    <3>1. faults \in FaultsType BY DEF TypeOK, FaultsType
    <3>2. faults' = faults \/ faults' = [faults EXCEPT !.count = @ + 1] BY <1>6 DEF RegistryFails
    <3>3. QED BY <3>1, <3>2, RootType, FaultTypes
  <2>5. QED BY <1>6, <2>3, <2>4 DEF TypeOK, FaultsType, RegistryType, RegistryFails
<1>7. ASSUME NEW n \in Names, RegistryName(p, n) PROVE TypeOK'
  <2>1. TakeOver(call, p, n) \in RegistryCall /\ Refuse(call, n, "InUse") \in RegistryCall BY <1>1, CallTypes DEF Locks
  <2>2. SetCall(p, TakeOver(call, p, n)) \/ SetCall(p, Refuse(call, n, "InUse")) BY <1>7 DEF RegistryName
  <2>3. reg' \in [Procs -> RegistryType] BY <2>1, <2>2, SetCallType
  <2>4. QED BY <1>7, <2>3 DEF TypeOK, RegistryType, RegistryName
<1>8. ASSUME NEW n \in Names, n \in call.left, call.copy.owner[n] # None PROVE call.copy.owner[n] \in Procs
  BY <1>2, <1>8 DEF ConfigMap
<1>9. ASSUME NEW n \in Names, RegistryPingFails(p, n) PROVE TypeOK'
  <2> DEFINE owner == call.copy.owner[n]
             over == [TakeOver(call, p, n) EXCEPT !.failed = @ \cup {owner}]
  <2>1. owner \in Procs BY <1>8, <1>9 DEF RegistryPingFails
  <2>2. over \in RegistryCall BY <1>1, <2>1, CallTypes
  <2>3. SetCall(p, over) BY <1>9 DEF RegistryPingFails
  <2>4. faults' \in FaultsType
    <3>1. faults \in FaultsType BY DEF TypeOK, FaultsType
    <3>2. faults' = faults \/ faults' = [faults EXCEPT !.count = @ + 1, !.pingLost = TRUE] BY <1>9 DEF RegistryPingFails
    <3>3. QED BY <3>1, <3>2, FaultTypes
  <2> HIDE DEF over
  <2>5. reg' \in [Procs -> RegistryType] BY <2>2, <2>3, SetCallType
  <2>6. QED BY <1>9, <2>4, <2>5 DEF TypeOK, FaultsType, RegistryType, RegistryPingFails
<1>10. ASSUME NEW n \in Names, RegistryInUse(p, n) PROVE TypeOK'
  <2>1. Refuse(call, n, "InUseByOtherInstance") \in RegistryCall BY <1>1, CallTypes DEF Locks
  <2>2. SetCall(p, Refuse(call, n, "InUseByOtherInstance")) BY <1>10 DEF RegistryInUse
  <2>3. reg' \in [Procs -> RegistryType] BY <2>1, <2>2, SetCallType
  <2>4. QED BY <1>10, <2>3 DEF TypeOK, RegistryType, RegistryInUse
<1>11. ASSUME NEW n \in Names, RegistryExclude(p, n) PROVE TypeOK'
  <2> DEFINE owner == call.copy.owner[n]
  <2>1. owner \in Procs BY <1>8, <1>11 DEF RegistryExclude
  <2>2. /\ TakeOver(call, p, n) \in RegistryCall /\ Refuse(call, n, "InUseByOtherInstance") \in RegistryCall
        /\ [call EXCEPT !.pc = "excluding"] \in RegistryCall
    BY <1>1, CallTypes DEF Locks
  <2>3. \/ SetCall(p, TakeOver(call, p, n)) \/ SetCall(p, Refuse(call, n, "InUseByOtherInstance"))
        \/ SetCall(p, [call EXCEPT !.pc = "excluding"])
    BY <1>11 DEF RegistryExclude
  <2>4. reg' \in [Procs -> RegistryType] BY <2>2, <2>3, SetCallType
  <2>5. faults' \in FaultsType
    <3>1. faults \in FaultsType BY DEF TypeOK, FaultsType
    <3>2. faults' = faults \/ faults' = [faults EXCEPT !.late = @ \cup {<<owner, n>>}] BY <1>11 DEF RegistryExclude
    <3>3. QED BY <2>1, <3>1, <3>2, FaultTypes
  <2>6. pipe' \in [Procs -> [Names -> Pipeline]]
    <3>1. [pipe[owner][n] EXCEPT !.killed = TRUE] \in Pipeline BY <2>1, ProcTypes, PipelineTypes
    <3>2. pipe' = pipe \/ Update(owner, n, [pipe[owner][n] EXCEPT !.killed = TRUE]) BY <1>11 DEF RegistryExclude
    <3>3. pipe \in [Procs -> [Names -> Pipeline]] BY DEF TypeOK
    <3>4. QED BY <2>1, <3>1, <3>2, <3>3, UpdateType
  <2>7. handler' \in [Procs -> [Names -> {"none", "main", "dev", "replied"}]]
    <3>1. handler' = handler \/ handler' = [handler EXCEPT ![owner][n] = "main"] BY <1>11 DEF RegistryExclude
    <3>2. handler \in [Procs -> [Names -> {"none", "main", "dev", "replied"}]] BY DEF TypeOK
    <3>3. QED BY <2>1, <3>1, <3>2
  <2>8. QED BY <1>11, <2>4, <2>5, <2>6, <2>7 DEF TypeOK, FaultsType, RegistryType, RegistryExclude
<1>12. ASSUME NEW n \in Names, RegistryExcluded(p, n) PROVE TypeOK'
  <2> DEFINE owner == call.copy.owner[n]
  <2>1. TakeOver(call, p, n) \in RegistryCall BY <1>1, CallTypes
  <2>2. SetCall(p, TakeOver(call, p, n)) BY <1>12 DEF RegistryExcluded
  <2>3. reg' \in [Procs -> RegistryType] BY <2>1, <2>2, SetCallType
  <2>4. faults' \in FaultsType
    <3>1. faults \in FaultsType BY DEF TypeOK, FaultsType
    <3>2. owner \in Procs BY <1>12 DEF CallOK, RegistryExcluded, Call
    <3>3. \/ faults' = faults
          \/ faults' = [faults EXCEPT !.late = @ \cup {<<owner, n>>}]
          \/ faults' = [faults EXCEPT !.count = @ + 1, !.late = @ \cup {<<owner, n>>}]
      BY <1>12 DEF RegistryExcluded
    <3>4. QED BY <3>1, <3>2, <3>3, FaultTypes
  <2>5. QED BY <1>12, <2>3, <2>4 DEF TypeOK, FaultsType, RegistryType, RegistryExcluded
<1>13. QED BY <1>3, <1>4, <1>5, <1>6, <1>7, <1>9, <1>10, <1>11, <1>12 DEF Registry

\* Exclude keeps the types.
LEMMA ExcludeTypes ==
  ASSUME TypeOK, NEW p \in Procs, Calls(reg[p].call, excluded[p], pipe[p], Root(p)), Exclude(p) \/ ExcludeReturns(p)
  PROVE  TypeOK'
<1>1. Root(p) \in Names /\ pipe[p][Root(p)] \in Pipeline BY RootType, ProcTypes
<1>2. CASE Exclude(p)
  <2>1. Begin(p, "exclude", Root(p), {}) BY <1>2 DEF Exclude
  <2>2. reg' \in [Procs -> RegistryType] BY <1>1, <2>1, BeginType
  <2>3. QED BY <1>2, <2>2 DEF TypeOK, RegistryType, Exclude
<1>3. CASE ExcludeReturns(p)
  <2> DEFINE call == reg[p].call
             r == pipe[p][Root(p)]
             refused == call.pc = "return" /\ ~Admitted(call.locks[Root(p)])
             known == IF call.pc = "error" THEN reg[p].known ELSE Remember(p, call.locks)
             R == [reg[p] EXCEPT !.call = FreeCall, !.known = known]
             next == IF refused THEN Failed(r) ELSE r
  <2>1. r.pc = "run_dependencies" BY <1>3 DEF ExcludeReturns, Calls
  <2>2. next \in Pipeline BY <1>1, <2>1, FailedType
  <2>3. Update(p, Root(p), next) BY <1>3 DEF ExcludeReturns
  <2>4. known \in [Names -> (Locks \ {"Locked", "InUseCyclic"}) \cup {Absent}]
    BY ProcTypes, RememberType DEF RegistryType, RegistryCall
  <2>5. reg' = [reg EXCEPT ![p] = R]
    <3>1. reg \in [Procs -> RegistryType] BY DEF TypeOK, RegistryType
    <3>2. reg' = [reg EXCEPT ![p] = [reg[p] EXCEPT !.call = FreeCall, !.known = known]]
      BY <1>3, <3>1 DEF ExcludeReturns, RegistryType
    <3>3. QED BY <3>2
  <2> HIDE DEF next, known
  <2>6. R \in RegistryType BY <2>4, ProcTypes, FreeTypes DEF RegistryType
  <2> HIDE DEF R
  <2>7. reg' \in [Procs -> RegistryType] BY <2>5, <2>6, SetRegType
  <2>8. pipe' \in [Procs -> [Names -> Pipeline]] BY <1>1, <2>2, <2>3, UpdateType
  <2>9. excluded' \in [Procs -> {"no", "pending", "yes", "refused", "error"}] BY <1>3 DEF ExcludeReturns, TypeOK
  <2>10. QED BY <1>3, <2>7, <2>8, <2>9 DEF TypeOK, RegistryType, ExcludeReturns
<1>4. QED BY <1>2, <1>3

\* The server, and the end of dev pods, keep the types.
LEMMA ServerTypes ==
  ASSUME TypeOK, NEW p \in Procs, NEW n \in Names, Server(p, n) \/ DevEnds(p, n)
  PROVE  TypeOK'
<1>1. pipe[p][n] \in Pipeline BY ProcTypes
<1>2. CASE DevEnds(p, n)
  <2>1. pipe' \in [Procs -> [Names -> Pipeline]] BY <1>1, <1>2, UpdateType, PipelineTypes DEF DevEnds
  <2>2. QED BY <1>2, <2>1, PipeTypeFrame DEF DevEnds
<1>3. CASE HandlerReply(p, n) BY <1>3 DEF HandlerReply, TypeOK
<1>4. CASE HandlerClose(p, n)
  <2>1. pipe' = pipe \/ Update(p, n, [pipe[p][n] EXCEPT !.devClosed = TRUE]) BY <1>4 DEF HandlerClose
  <2>2. pipe \in [Procs -> [Names -> Pipeline]] BY DEF TypeOK
  <2>3. pipe' \in [Procs -> [Names -> Pipeline]] BY <1>1, <2>1, <2>2, UpdateType, PipelineTypes
  <2>4. handler' \in [Procs -> [Names -> {"none", "main", "dev", "replied"}]] 
    <3>1. handler \in [Procs -> [Names -> {"none", "main", "dev", "replied"}]] BY DEF TypeOK
    <3>2. handler' = [handler EXCEPT ![p][n] = "replied"] \/ handler' = [handler EXCEPT ![p][n] = "dev"]
      BY <1>4 DEF HandlerClose
    <3>3. QED BY <3>1, <3>2
  <2>5. QED BY <1>4, <2>3, <2>4 DEF HandlerClose, TypeOK
<1>5. QED BY <1>2, <1>3, <1>4 DEF Server

\* The steps of a job keep the types.
LEMMA JobTypes == ASSUME TypeOK, NEW p \in Procs, NEW n \in Names, Job(p, n) PROVE TypeOK'
<1> DEFINE r == pipe[p][n]
<1>1. r \in Pipeline /\ pipe \in [Procs -> [Names -> Pipeline]] BY ProcTypes DEF TypeOK
<1>2. faults \in FaultsType BY DEF TypeOK, FaultsType
<1>3. CASE Cancelled(p, n)
  <2>1. pipe' \in [Procs -> [Names -> Pipeline]] BY <1>1, <1>3, EndedType, UpdateType DEF Cancelled
  <2>2. QED BY <1>3, <2>1, PipeTypeFrame DEF Cancelled
<1>4. CASE ExcludedBefore(p, n)
  <2>1. r.pc \notin {"none", "end"} BY <1>4 DEF ExcludedBefore
  <2>2. pipe' \in [Procs -> [Names -> Pipeline]] BY <1>1, <1>4, <2>1, FailedType, UpdateType DEF ExcludedBefore
  <2>3. QED BY <1>4, <2>2, PipeTypeFrame DEF ExcludedBefore
<1>5. CASE RunDependencies(p, n)
  <2>1. r.pc \notin {"none", "end"} BY <1>5 DEF RunDependencies, AtCommand
  <2>2. CASE Deps(p, n) = {}
    <3>1. pipe' \in [Procs -> [Names -> Pipeline]] BY <1>1, <1>5, <2>1, <2>2, SucceededType, UpdateType DEF RunDependencies
    <3>2. QED BY <1>5, <2>2, <3>1, PipeTypeFrame DEF RunDependencies
  <2>3. CASE Deps(p, n) # {}
    <3>1. Begin(p, n, n, Deps(p, n)) /\ Update(p, n, [r EXCEPT !.pc = "locking"]) BY <1>5, <2>3 DEF RunDependencies
    <3>2. pipe' \in [Procs -> [Names -> Pipeline]] BY <1>1, <3>1, PipelineTypes, UpdateType
    <3>3. Deps(p, n) \in SUBSET Names BY ProcTypes DEF DepsOf
    <3>4. reg' \in [Procs -> RegistryType] BY <3>1, <3>3, BeginType
    <3>5. QED BY <1>5, <3>2, <3>4 DEF TypeOK, RegistryType, RunDependencies
  <2>4. QED BY <2>2, <2>3
<1>6. CASE DependenciesLocked(p, n)
  <2> DEFINE call == reg[p].call
             known == IF call.pc = "error" THEN reg[p].known ELSE Remember(p, call.locks)
             R == [reg[p] EXCEPT !.call = FreeCall, !.known = known]
             waiting == [r EXCEPT !.pc = "waiting", !.waits = {d \in Names : call.locks[d] = "InUse"},
                                  !.launch = Wanted(call.locks)]
             next == IF call.pc = "error" THEN Failed(r) ELSE waiting
  <2>1. r.pc = "locking" BY <1>6 DEF DependenciesLocked, AtCommand
  <2>2. Wanted(call.locks) \in SUBSET Names BY DEF Wanted
  <2>3. waiting \in Pipeline BY <1>1, <2>2 DEF Pipeline
  <2>4. next \in Pipeline BY <1>1, <2>1, <2>3, FailedType
  <2>5. Update(p, n, next) BY <1>6 DEF DependenciesLocked
  <2>6. known \in [Names -> (Locks \ {"Locked", "InUseCyclic"}) \cup {Absent}]
    BY ProcTypes, RememberType DEF RegistryType, RegistryCall
  <2>7. reg' = [reg EXCEPT ![p] = R]
    <3>1. reg \in [Procs -> RegistryType] BY DEF TypeOK, RegistryType
    <3>2. reg' = [reg EXCEPT ![p] = [reg[p] EXCEPT !.call = FreeCall, !.known = known]]
      BY <1>6, <3>1 DEF DependenciesLocked, RegistryType
    <3>3. QED BY <3>2
  <2> HIDE DEF next, known
  <2>8. R \in RegistryType BY <2>6, ProcTypes, FreeTypes DEF RegistryType
  <2> HIDE DEF R
  <2>9. reg' \in [Procs -> RegistryType] BY <2>7, <2>8, SetRegType
  <2>10. pipe' \in [Procs -> [Names -> Pipeline]] BY <2>4, <2>5, UpdateType
  <2>11. QED BY <1>6, <2>9, <2>10 DEF TypeOK, RegistryType, DependenciesLocked
<1>7. CASE WaitForDependency(p, n)
  <2> DEFINE d == First(r.waits)
  <2>1. [r EXCEPT !.waits = @ \ {d}] \in Pipeline /\ [r EXCEPT !.waits = @ \ {d}, !.gaveUp = TRUE] \in Pipeline
    BY <1>1 DEF Pipeline
  <2>2. Update(p, n, [r EXCEPT !.waits = @ \ {d}]) \/ Update(p, n, [r EXCEPT !.waits = @ \ {d}, !.gaveUp = TRUE])
    BY <1>7 DEF WaitForDependency
  <2>3. pipe' \in [Procs -> [Names -> Pipeline]] BY <2>1, <2>2, UpdateType
  <2>4. QED BY <1>7, <2>3, PipeTypeFrame DEF WaitForDependency
<1>8. CASE Launch(p, n)
  <2> DEFINE now == IF scenario.sequential /\ r.launch # {} THEN {First(r.launch)} ELSE r.launch
             next == [m \in Names |-> IF m = n THEN [r EXCEPT !.pc = "joining", !.joining = now, !.launch = r.launch \ now]
                        ELSE IF m \in now
                        THEN [NoPipeline EXCEPT !.st = "queued", !.parent = n, !.starts = pipe[p][m].starts]
                        ELSE pipe[p][m]]
  <2>1. r.launch \subseteq Names BY <1>1 DEF Pipeline
  <2>2. now \subseteq Names BY <2>1, FirstIn
  <2>3. pipe' = [pipe EXCEPT ![p] = next] BY <1>8 DEF Launch
  <2> HIDE DEF now
  <2>4. [r EXCEPT !.pc = "joining", !.joining = now, !.launch = r.launch \ now] \in Pipeline BY <1>1, <2>1, <2>2 DEF Pipeline
  <2>5. ASSUME NEW m \in Names
        PROVE  [NoPipeline EXCEPT !.st = "queued", !.parent = n, !.starts = pipe[p][m].starts] \in Pipeline
    <3>1. pipe[p][m].starts \in Nat BY <1>1 DEF Pipeline
    <3>2. NoPipeline \in Pipeline BY FreeTypes
    <3>3. QED BY <3>1, <3>2 DEF Pipeline
  <2>6. next \in [Names -> Pipeline] BY <1>1, <2>4, <2>5
  <2> HIDE DEF next
  <2>7. pipe' \in [Procs -> [Names -> Pipeline]] BY <1>1, <2>3, <2>6
  <2>8. QED BY <1>8, <2>7, PipeTypeFrame DEF Launch
<1>9. CASE Register(p, n)
  <2>1. \/ Update(p, n, [r EXCEPT !.st = "registered", !.starts = @ + 1])
        \/ Update(p, n, [r EXCEPT !.st = "unstarted", !.failed = TRUE])
    BY <1>9 DEF Register
  <2>2. pipe' \in [Procs -> [Names -> Pipeline]] BY <1>1, <2>1, UpdateType, PipelineTypes
  <2>3. faults' = faults \/ faults' = [faults EXCEPT !.count = @ + 1] BY <1>9 DEF Register
  <2>4. faults' \in FaultsType BY <1>2, <2>3, FaultTypes
  <2>5. QED BY <1>9, <2>2, <2>4 DEF TypeOK, FaultsType, Register
<1>10. CASE RunJob(p, n)
  <2>1. \/ Update(p, n, [r EXCEPT !.st = "lost"])
        \/ Update(p, n, [r EXCEPT !.st = "running", !.pc = "run_dependencies"])
    BY <1>10 DEF RunJob
  <2>2. pipe' \in [Procs -> [Names -> Pipeline]] BY <1>1, <2>1, UpdateType, PipelineTypes
  <2>3. QED BY <1>10, <2>2, PipeTypeFrame DEF RunJob
<1>11. ASSUME NEW d \in Names, Returned(p, n, d) PROVE TypeOK'
  <2>1. pipe[p][d].failed \in BOOLEAN BY <1>1 DEF Pipeline
  <2>2. [r EXCEPT !.joining = @ \ {d}, !.group = @ \/ pipe[p][d].failed] \in Pipeline BY <1>1, <2>1 DEF Pipeline
  <2>3. pipe' \in [Procs -> [Names -> Pipeline]] BY <1>11, <2>2, UpdateType DEF Returned
  <2>4. QED BY <1>11, <2>3, PipeTypeFrame DEF Returned
<1>12. CASE Joined(p, n)
  <2>1. r.pc \notin {"none", "end"} BY <1>12 DEF Joined, AtCommand
  <2>2. Failed(r) \in Pipeline /\ Succeeded(r) \in Pipeline BY <1>1, <2>1, FailedType, SucceededType
  <2>3. Update(p, n, [Failed(r) EXCEPT !.group = FALSE]) \/ Update(p, n, [r EXCEPT !.pc = "waiting"]) \/ Update(p, n, Succeeded(r))
    BY <1>12 DEF Joined
  <2>4. pipe' \in [Procs -> [Names -> Pipeline]] BY <1>1, <2>2, <2>3, UpdateType, PipelineTypes
  <2>5. QED BY <1>12, <2>4, PipeTypeFrame DEF Joined
<1>13. CASE CreateDeployments(p, n)
  <2>1. r.pc \notin {"none", "end"} BY <1>13 DEF CreateDeployments, AtCommand
  <2>2. Failed(r) \in Pipeline /\ Succeeded(r) \in Pipeline BY <1>1, <2>1, FailedType, SucceededType
  <2>3. Update(p, n, Failed(r)) \/ Update(p, n, Succeeded(r)) BY <1>13 DEF CreateDeployments
  <2>4. pipe' \in [Procs -> [Names -> Pipeline]] BY <2>2, <2>3, UpdateType
  <2>5. faults' = faults \/ faults' = [faults EXCEPT !.count = @ + 1] BY <1>13 DEF CreateDeployments
  <2>6. faults' \in FaultsType BY <1>2, <2>5, FaultTypes
  <2>7. QED BY <1>13, <2>4, <2>6 DEF TypeOK, FaultsType, CreateDeployments
<1>14. CASE StartDev(p, n)
  <2>1. r.pc \notin {"none", "end"} BY <1>14 DEF StartDev, AtCommand
  <2>2. Failed(r) \in Pipeline /\ Succeeded(r) \in Pipeline BY <1>1, <2>1, FailedType, SucceededType
  <2>3. Update(p, n, Failed(r)) \/ Update(p, n, Succeeded(r)) \/ Update(p, n, [Succeeded(r) EXCEPT !.dev = "active"])
    BY <1>14 DEF StartDev
  <2>4. pipe' \in [Procs -> [Names -> Pipeline]] BY <2>2, <2>3, UpdateType, PipelineTypes
  <2>5. QED BY <1>14, <2>4, PipeTypeFrame DEF StartDev
<1>15. QED BY <1>3, <1>4, <1>5, <1>6, <1>7, <1>8, <1>9, <1>10, <1>11, <1>12, <1>13, <1>14 DEF Job

\* Every step keeps the types.
LEMMA TypeStep ==
  ASSUME TypeOK, \A p \in Procs : CallOK(p) /\ Calls(reg[p].call, excluded[p], pipe[p], Root(p)), [Next]_vars
  PROVE  TypeOK'
<1>1. CASE UNCHANGED vars BY <1>1 DEF vars, TypeOK
<1>2. ASSUME NEW p \in Procs,
             Start(p) \/ Resolve(p) \/ ResolveFails(p) \/ Run(p) \/ Crash(p) \/ CloseRoot(p) \/ Exit(p)
      PROVE TypeOK' BY <1>2, ProcessTypes
<1>3. ASSUME NEW p \in Procs, Exclude(p) \/ ExcludeReturns(p) PROVE TypeOK' BY <1>3, ExcludeTypes
<1>4. ASSUME NEW p \in Procs, Registry(p) PROVE TypeOK' BY <1>4, RegistryTypes
<1>5. ASSUME NEW p \in Procs, NEW n \in Names, Job(p, n) PROVE TypeOK' BY <1>5, JobTypes
<1>6. ASSUME NEW p \in Procs, NEW n \in Names, Server(p, n) \/ DevEnds(p, n) PROVE TypeOK' BY <1>6, ServerTypes
<1>7. QED BY <1>1, <1>2, <1>3, <1>4, <1>5, <1>6 DEF Next

\* The initial states have the types.
LEMMA InitTypes == ASSUME Init PROVE TypeOK
<1>1. scenario \in Scenario BY PipelinesAssumption DEF Init
<1>2. \A p \in Procs : Root(p) \in Names /\ WantedBelow[Root(p)] \in SUBSET Names BY <1>1 DEF Scenario, Root, WantedBelow
<1>3. resolver \in [Procs -> Resolver] BY <1>2, NewResolverType DEF Init
<1>4. NoConfigMap \in ConfigMap BY DEF NoConfigMap, ConfigMap
<1>5. NoLocks \in [Names -> {Absent}] BY DEF NoLocks
<1>6. FreeCall \in RegistryCall BY <1>4, <1>5 DEF FreeCall, RegistryCall
<1>7. \A p \in Procs : NewRegistry(Root(p)) \in RegistryType BY <1>2, <1>5, <1>6, NewGraphType DEF NewRegistry, RegistryType
<1>8. NoPipeline \in Pipeline BY DEF NoPipeline, Pipeline
<1>9. reg \in [Procs -> RegistryType] BY <1>7 DEF Init
<1>10. pipe \in [Procs -> [Names -> Pipeline]] BY <1>8 DEF Init
<1>11. QED BY <1>3, <1>4, <1>9, <1>10 DEF Init, TypeOK, RegistryType

-----------------------------------------------------------------------------
\* The pipelines of a process: P, and Q after a step.
Tended(P, root) == P \in [Names -> Pipeline] /\ (\A n \in Names : PipeOK(P[n])) /\ Tree(P, root)

\* Contexts that are done stay done.
Follows(P, Q) == \A k \in Names :
    /\ P[k].parent \in {None, Q[k].parent}
    /\ P[k].killed => Q[k].killed
    /\ P[k].joining # {} /\ P[k].group => Q[k].group \/ Q[k].killed

\* A step of one pipeline: it does not come back to life, and what it no longer
\* waits for has ended.
JobStep(P, root, n, r) ==
    /\ r \in Pipeline /\ PipeOK(r)
    /\ P[n].st # "none" /\ r.st # "none"
    /\ r.parent = P[n].parent
    /\ P[n].killed => r.killed
    /\ n = root => ~r.killed
    /\ r.st \in Alive => P[n].st \in Alive
    /\ P[n].st \in {"running", "dead"} => r.st \in {"running", "dead"}
    /\ P[n].st = "dead" => r.st = "dead" /\ r.failed = P[n].failed /\ (r.dev = "active" => P[n].dev = "active")
    /\ r.joining \subseteq P[n].joining
    /\ \A d \in P[n].joining \ r.joining : P[d].st \notin Alive
    /\ \A d \in r.launch \ P[n].launch : d # root /\ P[d].st = "none" /\ \A m \in Names : d \notin P[m].launch
    /\ r.pc = "run_dependencies" => P[n].pc = "run_dependencies" \/ P[n].st \notin {"running", "dead"}
    /\ P[n].group /\ P[n].joining # {} => r.group \/ r.killed
    /\ r.st = "lost" => P[n].st = "lost" \/ \E m \in Above(P, n) : P[m].killed \/ P[m].group

\* A parent waits.
LEMMA AboveJoins ==
  ASSUME NEW root \in Names, NEW P, Tended(P, root), NEW m \in Names, P[m].st \in Alive
  PROVE  \A k \in Above(P, m) : P[k].joining # {}
<1> DEFINE J == {k \in Names : P[k].joining # {}}
<1>1. ASSUME NEW k \in J \cup {m} PROVE P[k].parent \in J \cup {None}
  <2>1. k \in Names /\ P[k].st \in Alive BY <1>1 DEF Tended, PipeOK, Alive, Pipeline
  <2>2. CASE k = root BY <2>2 DEF Tended, Tree
  <2>3. CASE k # root BY <2>1, <2>3 DEF Tended, Tree
  <2>4. QED BY <2>2, <2>3
<1>2. Above(P, m) \subseteq J BY <1>1 DEF Above
<1>3. QED BY <1>2

\* The context of a pipeline stays done.
LEMMA CtxKept ==
  ASSUME NEW root \in Names, NEW P, Tended(P, root), NEW Q, Follows(P, Q),
         NEW m \in Names, P[m].st \in Alive, Ctx(P, m)
  PROVE  Ctx(Q, m)
<1>1. CASE P[m].killed BY <1>1 DEF Follows, Ctx
<1>2. CASE \E k \in Above(P, m) : P[k].killed \/ P[k].group
  <2>1. PICK k \in Above(P, m) : P[k].killed \/ P[k].group BY <1>2
  <2>2. k \in Names BY DEF Above
  <2>3. P[k].joining # {} BY <2>1, AboveJoins
  <2>4. Q[k].killed \/ Q[k].group BY <2>1, <2>2, <2>3 DEF Follows
  <2>5. k \in Above(Q, m)
    <3>1. SUFFICES ASSUME NEW names \in SUBSET Names, \A l \in names \cup {m} : Q[l].parent \in names \cup {None}
          PROVE  k \in names
      BY <2>2 DEF Above
    <3>2. \A l \in names \cup {m} : P[l].parent \in names \cup {None} BY <3>1 DEF Follows
    <3>3. QED BY <2>1, <3>2 DEF Above
  <2>6. QED BY <2>4, <2>5 DEF Ctx
<1>3. QED BY <1>1, <1>2 DEF Ctx

\* What is above a pipeline: its parent and what is above that one.
LEMMA AboveParent ==
  ASSUME NEW P \in [Names -> Pipeline], NEW n \in Names, P[n].parent \in Names
  PROVE  Above(P, n) \subseteq {P[n].parent} \cup Above(P, P[n].parent)
<1> DEFINE parent == P[n].parent
           names == {parent} \cup Above(P, parent)
<1>1. Above(P, parent) \subseteq Names BY DEF Above
<1>2. P[parent].parent \in Above(P, parent) \cup {None}
  <2>1. SUFFICES ASSUME P[parent].parent # None PROVE P[parent].parent \in Above(P, parent) OBVIOUS
  <2>2. ASSUME NEW S \in SUBSET Names, \A k \in S \cup {parent} : P[k].parent \in S \cup {None}
        PROVE  P[parent].parent \in S
    BY <2>1, <2>2
  <2>3. P[parent].parent \in Names BY <2>1 DEF Pipeline
  <2>4. QED BY <2>2, <2>3 DEF Above
<1>3. ASSUME NEW k \in Above(P, parent) PROVE P[k].parent \in Above(P, parent) \cup {None}
  <2>1. SUFFICES ASSUME P[k].parent # None PROVE P[k].parent \in Above(P, parent) OBVIOUS
  <2>2. ASSUME NEW S \in SUBSET Names, \A l \in S \cup {parent} : P[l].parent \in S \cup {None}
        PROVE  P[k].parent \in S
    <3>1. k \in S BY <1>3, <2>2 DEF Above
    <3>2. QED BY <2>1, <2>2, <3>1
  <2>3. P[k].parent \in Names BY <1>1, <1>3, <2>1 DEF Pipeline
  <2>4. QED BY <2>2, <2>3 DEF Above
<1>4. names \in SUBSET Names BY <1>1
<1>5. \A k \in names \cup {n} : P[k].parent \in names \cup {None} BY <1>2, <1>3
<1>6. QED BY <1>4, <1>5 DEF Above

\* A job is lost when the context it would have been started with is done.
LEMMA LostKept ==
  ASSUME NEW root \in Names, NEW P, Tended(P, root), NEW Q, Follows(P, Q), Lost(P),
         \A m \in Names : \A d \in Q[m].joining : Q[d].st = "lost" =>
            d \in P[m].joining /\ (P[d].st = "lost" \/ P[m].group \/ Ctx(P, m))
  PROVE  Lost(Q)
<1> SUFFICES ASSUME NEW m \in Names, NEW d \in Q[m].joining, Q[d].st = "lost" PROVE Q[m].group \/ Ctx(Q, m)
  BY DEF Lost
<1>1. d \in P[m].joining /\ (P[m].group \/ Ctx(P, m)) BY DEF Lost
<1>2. P[m].st \in Alive BY <1>1 DEF Tended, PipeOK, Alive, Pipeline
<1>3. CASE P[m].group
  <2>1. Q[m].group \/ Q[m].killed BY <1>1, <1>3 DEF Follows
  <2>2. QED BY <2>1 DEF Ctx
<1>4. CASE Ctx(P, m) BY <1>2, <1>4, CtxKept
<1>5. QED BY <1>1, <1>3, <1>4

\* The tree is kept by a step of one pipeline.
LEMMA TreeStep ==
  ASSUME NEW root \in Names, NEW P, Tended(P, root), NEW n \in Names, NEW r, JobStep(P, root, n, r),
         NEW Q, Q = [P EXCEPT ![n] = r]
  PROVE  Tended(Q, root) /\ Follows(P, Q)
<1>1. P \in [Names -> Pipeline] /\ Tree(P, root) /\ \A k \in Names : PipeOK(P[k]) BY DEF Tended
<1>2. r \in Pipeline /\ PipeOK(r) BY DEF JobStep
<1>3. Q[n] = r /\ \A k \in Names \ {n} : Q[k] = P[k] BY <1>1
<1>4. Q \in [Names -> Pipeline] BY <1>1, <1>2
<1>5. \A k \in Names : PipeOK(Q[k]) BY <1>1, <1>2, <1>3
<1>6. Follows(P, Q) 
  <2>1. \A k \in Names : Q[k].parent = P[k].parent BY <1>3 DEF JobStep
  <2>2. \A k \in Names : P[k].killed => Q[k].killed BY <1>3 DEF JobStep
  <2>3. \A k \in Names : P[k].joining # {} /\ P[k].group => Q[k].group \/ Q[k].killed BY <1>3 DEF JobStep
  <2>4. QED BY <2>1, <2>2, <2>3 DEF Follows
<1>7. Q[root].parent = None /\ ~Q[root].killed BY <1>1, <1>3 DEF JobStep, Tree
<1>8. ASSUME NEW k \in Names \ {root}, Q[k].st \in Alive PROVE Q[k].parent \in Names /\ k \in Q[Q[k].parent].joining
  <2>1. P[k].st \in Alive /\ Q[k].parent = P[k].parent BY <1>3, <1>8 DEF JobStep
  <2>2. P[k].parent \in Names /\ k \in P[P[k].parent].joining BY <1>1, <2>1 DEF Tree
  <2>3. CASE P[k].parent = n
    <3>1. k \in r.joining BY <2>1, <2>2, <2>3 DEF JobStep
    <3>2. QED BY <1>3, <2>1, <2>2, <2>3, <3>1
  <2>4. CASE P[k].parent # n BY <1>3, <2>1, <2>2, <2>4
  <2>5. QED BY <2>3, <2>4
<1>9. ASSUME NEW m \in Names, NEW d \in Q[m].joining PROVE d # root /\ Q[d].st # "none" /\ Q[d].parent = m
  <2>1. d \in P[m].joining BY <1>3, <1>9 DEF JobStep
  <2>2. d \in Names BY <1>1, <2>1 DEF Pipeline
  <2>3. d # root /\ P[d].st # "none" /\ P[d].parent = m BY <1>1, <2>1 DEF Tree
  <2>4. QED BY <1>3, <2>2, <2>3 DEF JobStep
<1>10. ASSUME NEW m \in Names, NEW d \in Q[m].launch
       PROVE  /\ d # root /\ P[d].st = "none" /\ d \in Names
              /\ d \in P[m].launch \/ (m = n /\ \A k \in Names : d \notin P[k].launch)
  <2>1. d \in Names BY <1>4, <1>10 DEF Pipeline
  <2>2. CASE d \in P[m].launch BY <1>1, <2>1, <2>2 DEF Tree
  <2>3. CASE d \notin P[m].launch
    <3>1. m = n /\ d \in r.launch \ P[n].launch BY <1>3, <1>10, <2>3
    <3>2. QED BY <2>1, <3>1 DEF JobStep
  <2>4. QED BY <2>2, <2>3
<1>11. ASSUME NEW m \in Names, NEW d \in Q[m].launch PROVE d # root /\ Q[d].st = "none"
  <2>1. d \in Names /\ d # root /\ P[d].st = "none" BY <1>10
  <2>2. d # n BY <2>1 DEF JobStep
  <2>3. QED BY <1>3, <2>1, <2>2
<1>12. ASSUME NEW m \in Names, NEW k \in Names, Q[m].launch \cap Q[k].launch # {} PROVE m = k
  <2>1. PICK d \in Q[m].launch : d \in Q[k].launch BY <1>12
  <2>2. d \in P[m].launch \/ (m = n /\ \A l \in Names : d \notin P[l].launch) BY <1>10
  <2>3. d \in P[k].launch \/ (k = n /\ \A l \in Names : d \notin P[l].launch) BY <1>10, <2>1
  <2>4. CASE d \in P[m].launch /\ d \in P[k].launch BY <1>1, <2>4 DEF Tree
  <2>5. QED BY <2>2, <2>3, <2>4
<1>13. Tree(Q, root) BY <1>7, <1>8, <1>9, <1>11, <1>12 DEF Tree
<1>14. QED BY <1>4, <1>5, <1>6, <1>13 DEF Tended

\* So are the jobs that are lost,
LEMMA LostStep ==
  ASSUME NEW root \in Names, NEW P, Tended(P, root), NEW n \in Names, NEW r, JobStep(P, root, n, r), Lost(P),
         NEW Q, Q = [P EXCEPT ![n] = r]
  PROVE  Lost(Q)
<1>1. Follows(P, Q) BY TreeStep
<1>2. P \in [Names -> Pipeline] /\ Tree(P, root) BY DEF Tended
<1>3. Q[n] = r /\ \A k \in Names \ {n} : Q[k] = P[k] BY <1>2
<1>4. ASSUME NEW m \in Names, NEW d \in Q[m].joining, Q[d].st = "lost"
      PROVE  d \in P[m].joining /\ (P[d].st = "lost" \/ P[m].group \/ Ctx(P, m))
  <2>1. d \in P[m].joining BY <1>3, <1>4 DEF JobStep
  <2>2. d \in Names /\ P[d].parent = m BY <1>2, <2>1 DEF Pipeline, Tree
  <2>3. CASE d # n BY <1>3, <1>4, <2>1, <2>2, <2>3
  <2>4. CASE d = n
    <3>1. P[d].st = "lost" \/ \E k \in Above(P, d) : P[k].killed \/ P[k].group BY <1>3, <1>4, <2>4 DEF JobStep
    <3>2. CASE \E k \in Above(P, d) : P[k].killed \/ P[k].group
      <4>1. PICK k \in Above(P, d) : P[k].killed \/ P[k].group BY <3>2
      <4>2. k = m \/ k \in Above(P, m) BY <1>2, <2>2, <4>1, AboveParent
      <4>3. QED BY <2>1, <4>1, <4>2 DEF Ctx
    <3>3. QED BY <2>1, <3>1, <3>2
  <2>5. QED BY <2>3, <2>4
<1>5. QED BY <1>1, <1>4, LostKept

\* the edges,
LEMMA EdgesStep ==
  ASSUME NEW root \in Names, NEW P, Tended(P, root), NEW n \in Names, NEW r, JobStep(P, root, n, r),
         NEW g, Edges(g, P, root), \A d \in r.waits \cup r.launch \cup r.joining : <<n, d>> \in g.edges,
         NEW Q, Q = [P EXCEPT ![n] = r]
  PROVE  Edges(g, Q, root)
<1>1. P \in [Names -> Pipeline] BY DEF Tended
<1>2. Q[n] = r /\ \A k \in Names \ {n} : Q[k] = P[k] BY <1>1
<1>3. \A k \in Names : Q[k].st # "none" => k \in g.nodes
  <2>1. \A k \in Names : P[k].st # "none" => k \in g.nodes BY DEF Edges
  <2>2. QED BY <1>2, <2>1 DEF JobStep
<1>4. ASSUME NEW k \in Names, NEW d \in Names, <<k, d>> \in g.edges
      PROVE  Q[k].st \in {"running", "dead"} /\ Q[k].pc # "run_dependencies"
  <2>1. P[k].st \in {"running", "dead"} /\ P[k].pc # "run_dependencies" BY <1>4 DEF Edges
  <2>2. QED BY <1>2, <2>1 DEF JobStep
<1>5. \A k \in Names : \A d \in Q[k].waits \cup Q[k].launch \cup Q[k].joining : <<k, d>> \in g.edges
  <2>1. \A k \in Names : \A d \in P[k].waits \cup P[k].launch \cup P[k].joining : <<k, d>> \in g.edges BY DEF Edges
  <2>2. QED BY <1>2, <2>1
<1>6. QED BY <1>3, <1>4, <1>5 DEF Edges

\* what is known,
LEMMA KnownStep ==
  ASSUME NEW root \in Names, NEW P, Tended(P, root), NEW n \in Names, NEW r, JobStep(P, root, n, r),
         NEW known, KnownOK(known, P, root), NEW now,
         \A d \in Names : known[d] = "InUse" => now[d] = "InUse",
         \A d \in r.launch \ P[n].launch : now[d] = "InUse",
         NEW Q, Q = [P EXCEPT ![n] = r]
  PROVE  KnownOK(now, Q, root)
<1>1. P \in [Names -> Pipeline] /\ r \in Pipeline BY DEF Tended, JobStep
<1>2. Q[n] = r /\ \A k \in Names \ {n} : Q[k] = P[k] BY <1>1
<1>3. ASSUME NEW k \in Names \ {root}, Q[k].st # "none" PROVE now[k] = "InUse"
  <2>1. P[k].st # "none" BY <1>2, <1>3 DEF JobStep
  <2>2. QED BY <2>1 DEF KnownOK
<1>4. ASSUME NEW m \in Names, NEW d \in Q[m].launch PROVE now[d] = "InUse"
  <2>1. CASE d \in P[m].launch 
    <3>1. d \in Names BY <1>1, <2>1 DEF Pipeline
    <3>2. QED BY <2>1, <3>1 DEF KnownOK
  <2>2. CASE d \notin P[m].launch
    <3>1. m = n /\ d \in r.launch \ P[n].launch BY <1>2, <1>4, <2>2
    <3>2. QED BY <3>1
  <2>3. QED BY <2>1, <2>2
<1>5. QED BY <1>3, <1>4 DEF KnownOK

\* the order,
LEMMA InTurnStep ==
  ASSUME NEW root \in Names, NEW P, Tended(P, root), NEW n \in Names, NEW r, JobStep(P, root, n, r),
         NEW known, NEW now, NEW g, NEW deps \in [Names -> SUBSET Names], Rooted(g, root), InTurn(known, g, P, deps),
         \A d \in Names \ {root} : known[d] = "InUseByOtherInstance" => now[d] = "InUseByOtherInstance",
         NEW Q, Q = [P EXCEPT ![n] = r],
         GoesOn(Q, n) => \A d \in deps[n] : 
            \/ P[d].st = "dead"
            \/ now[d] = "InUseByOtherInstance"
            \/ <<n, d>> \notin g.edges
            \/ d \in r.waits \cup r.launch \cup r.joining
  PROVE  InTurn(now, g, Q, deps)
<1>1. P \in [Names -> Pipeline] /\ r \in Pipeline BY DEF Tended, JobStep
<1>2. Q[n] = r /\ \A k \in Names \ {n} : Q[k] = P[k] BY <1>1
<1>3. \A d \in Names : P[d].st = "dead" => Q[d].st = "dead" BY <1>2 DEF JobStep
<1> SUFFICES ASSUME NEW k \in Names, GoesOn(Q, k), NEW d \in deps[k]
             PROVE  \/ Q[d].st = "dead"
                    \/ now[d] = "InUseByOtherInstance"
                    \/ <<k, d>> \notin g.edges
                    \/ d \in Q[k].waits \cup Q[k].launch \cup Q[k].joining
  BY DEF InTurn
<1>4. d \in Names OBVIOUS
<1>5. CASE k = n BY <1>2, <1>3, <1>4, <1>5
<1>6. CASE k # n
  <2>1. Q[k] = P[k] BY <1>2, <1>6
  <2>2. P[k].st \in Alive BY <1>1, <2>1 DEF GoesOn, Tended, PipeOK, Alive, Pipeline
  <2>3. Follows(P, Q) BY TreeStep
  <2>4. GoesOn(P, k) BY <2>1, <2>2, <2>3, CtxKept DEF GoesOn
  <2>5. \/ P[d].st = "dead"
        \/ known[d] = "InUseByOtherInstance"
        \/ <<k, d>> \notin g.edges
        \/ d \in P[k].waits \cup P[k].launch \cup P[k].joining
    BY <2>4 DEF InTurn
  <2>6. <<k, root>> \notin g.edges BY DEF Rooted
  <2>7. QED BY <1>3, <1>4, <2>1, <2>5, <2>6
<1>7. QED BY <1>5, <1>6

\* and what excludeDependency has seen.
LEMMA HandledStep ==
  ASSUME NEW root \in Names, NEW P, Tended(P, root), NEW n \in Names, NEW r, JobStep(P, root, n, r),
         NEW H, Handled(H, P, root), NEW Q, Q = [P EXCEPT ![n] = r]
  PROVE  Handled(H, Q, root)
<1>1. P \in [Names -> Pipeline] /\ r \in Pipeline BY DEF Tended, JobStep
<1>2. Q[n] = r /\ \A k \in Names \ {n} : Q[k] = P[k] BY <1>1
<1> SUFFICES ASSUME NEW k \in Names
             PROVE  /\ H[k] # "none" => k # root
                    /\ H[k] \in {"dev", "replied"} => Q[k].st = "dead"
                    /\ H[k] = "replied" => Q[k].failed \/ Q[k].dev # "active"
  BY DEF Handled
<1>3. /\ H[k] # "none" => k # root
      /\ H[k] \in {"dev", "replied"} => P[k].st = "dead"
      /\ H[k] = "replied" => P[k].failed \/ P[k].dev # "active"
  BY DEF Handled
<1>4. CASE k = n
  <2>1. P[n].st = "dead" => r.st = "dead" /\ r.failed = P[n].failed /\ (r.dev = "active" => P[n].dev = "active")
    BY DEF JobStep
  <2>2. QED BY <1>2, <1>3, <1>4, <2>1
<1>5. CASE k # n BY <1>2, <1>3, <1>5
<1>6. QED BY <1>4, <1>5

-----------------------------------------------------------------------------
\* A step of one pipeline that is not about the registry.

\* The dependencies of a pipeline after its step.
NextInTurn(known, g, P, n, r, deps) ==
    GoesOn([P EXCEPT ![n] = r], n) => \A d \in deps[n] :
        \/ P[d].st = "dead"
        \/ known[d] = "InUseByOtherInstance"
        \/ <<n, d>> \notin g.edges
        \/ d \in r.waits \cup r.launch \cup r.joining

Plain(R, x, P, root, n, r, deps, tolerant) ==
    /\ P[n].pc = "locking" <=> r.pc = "locking"
    /\ x = "pending" /\ n = root => r.pc = "run_dependencies"
    /\ x \in {"no", "pending", "error"} => r.pc \notin {"waiting", "joining"}
    /\ r.waits \subseteq P[n].waits /\ r.launch \subseteq P[n].launch
    /\ tolerant \/ NextInTurn(R.known, R.graph, P, n, r, deps)

\* Such a step keeps what is said of the pipelines.
LEMMA InsideStep ==
  ASSUME NEW root \in Names, NEW R \in RegistryType, NEW x, NEW P \in [Names -> Pipeline], NEW H,
         NEW deps \in [Names -> SUBSET Names], NEW tolerant \in BOOLEAN,
         Inside(R, x, P, H, root, deps, tolerant),
         NEW n \in Names, NEW r, JobStep(P, root, n, r), Plain(R, x, P, root, n, r, deps, tolerant)
  PROVE  Inside(R, x, [P EXCEPT ![n] = r], H, root, deps, tolerant)
<1> DEFINE Q == [P EXCEPT ![n] = r]
<1>1. Tended(P, root) BY DEF Inside, Tended
<1>2. Q[n] = r /\ \A k \in Names \ {n} : Q[k] = P[k] OBVIOUS
<1>3. /\ Calls(R.call, x, P, root) /\ Early(x, R.known, P, root) /\ KnownOK(R.known, P, root)
      /\ CallKnown(R.call, R.known, root) /\ Edges(R.graph, P, root) /\ Asked(R.call, R.graph, deps)
      /\ Lost(P) /\ (tolerant \/ InTurn(R.known, R.graph, P, deps)) /\ Handled(H, P, root)
  BY DEF Inside
<1>4. tolerant \/ NextInTurn(R.known, R.graph, P, n, r, deps) BY DEF Plain
<1>5. /\ P[n].pc = "locking" <=> r.pc = "locking"
      /\ x = "pending" /\ n = root => r.pc = "run_dependencies"
      /\ x \in {"no", "pending", "error"} => r.pc \notin {"waiting", "joining"}
      /\ r.waits \subseteq P[n].waits /\ r.launch \subseteq P[n].launch
  BY DEF Plain
<1>6. r.joining \subseteq P[n].joining /\ P[n].st # "none" BY DEF JobStep
<1> HIDE DEF Q
<1>7. Tended(Q, root) BY <1>1, TreeStep DEF Q
<1>8. Calls(R.call, x, Q, root)
  <2>1. /\ R.call.pc = "free" <=> R.call.by = None
        /\ R.call.by = "exclude" <=> x = "pending"
        /\ x = "pending" => P[root].pc = "run_dependencies"
        /\ \A k \in Names : P[k].pc = "locking" <=> R.call.by = k
        /\ R.call.pc \in {"names", "excluding"} => R.call.left \subseteq Wanted(R.call.locks)
    BY <1>3 DEF Calls
  <2>2. x = "pending" => Q[root].pc = "run_dependencies" BY <1>2, <1>5, <2>1
  <2>3. \A k \in Names : Q[k].pc = "locking" <=> R.call.by = k BY <1>2, <1>5, <2>1
  <2>4. QED BY <2>1, <2>2, <2>3 DEF Calls
<1>9. Early(x, R.known, Q, root)
  <2>1. CASE x \in {"no", "pending", "error"}
    <3>1. /\ \A k \in Names \ {root} : P[k].st = "none"
          /\ P[root].pc \notin {"locking", "waiting", "joining"} /\ R.known = NoLocks
      BY <1>3, <2>1 DEF Early
    <3>2. n = root BY <1>6, <3>1
    <3>3. QED BY <1>2, <1>5, <2>1, <3>1, <3>2 DEF Early
  <2>2. CASE x \notin {"no", "pending", "error"} BY <1>3, <2>2 DEF Early
  <2>3. QED BY <2>1, <2>2
<1>10. KnownOK(R.known, Q, root) BY <1>1, <1>3, <1>5, KnownStep DEF Q
<1>11. Edges(R.graph, Q, root)
  <2>1. \A d \in P[n].waits \cup P[n].launch \cup P[n].joining : <<n, d>> \in R.graph.edges BY <1>3 DEF Edges
  <2>2. \A d \in r.waits \cup r.launch \cup r.joining : <<n, d>> \in R.graph.edges BY <1>5, <1>6, <2>1
  <2>3. QED BY <1>1, <1>3, <2>2, EdgesStep DEF Q
<1>12. Lost(Q) BY <1>1, <1>3, LostStep DEF Q
<1>13. tolerant \/ InTurn(R.known, R.graph, Q, deps)
  <2>1. SUFFICES ASSUME ~tolerant PROVE InTurn(R.known, R.graph, Q, deps) OBVIOUS
  <2>2. Rooted(R.graph, root) BY <1>3 DEF Edges
  <2>3. InTurn(R.known, R.graph, P, deps) BY <1>3, <2>1
  <2>4. GoesOn(Q, n) => \A d \in deps[n] :
            \/ P[d].st = "dead"
            \/ R.known[d] = "InUseByOtherInstance"
            \/ <<n, d>> \notin R.graph.edges
            \/ d \in r.waits \cup r.launch \cup r.joining
    BY <1>4, <2>1 DEF NextInTurn, Q
  <2>5. QED BY <1>1, <2>2, <2>3, <2>4, InTurnStep DEF Q
<1>14. Handled(H, Q, root) BY <1>1, <1>3, HandledStep DEF Q
<1>15. Inside(R, x, Q, H, root, deps, tolerant)
  BY <1>3, <1>7, <1>8, <1>9, <1>10, <1>11, <1>12, <1>13, <1>14 DEF Inside, Tended
<1>16. QED BY <1>15 DEF Q

\* A command ends.
Advances(o, r) ==
    /\ r \in Pipeline
    /\ r.pc \in {"create_deployments", "start_dev", "end"}
    /\ r.st = (IF r.pc = "end" THEN "dead" ELSE "running")
    /\ r.waits = {} /\ r.launch = {} /\ r.joining = {}
    /\ ~r.group
    /\ r.parent = o.parent /\ r.killed = o.killed /\ r.gaveUp = o.gaveUp /\ r.starts = o.starts

\* A command that succeeds or fails ends the dependencies it had to wait for.
LEMMA CommandEnds ==
  ASSUME NEW o \in Pipeline, PipeOK(o), o.st = "running", scenario.tolerant \in BOOLEAN
  PROVE  /\ \A err \in BOOLEAN : ~o.group => Advances(o, Ended(o, err))
         /\ ~o.group => Advances(o, Succeeded(o)) /\ Advances(o, Failed(o)) /\ Advances(o, [Succeeded(o) EXCEPT !.dev = "active"])
         /\ Advances(o, [Failed(o) EXCEPT !.group = FALSE])
         /\ ~scenario.tolerant => Failed(o).pc = "end"
<1>1. o.pc \notin {"none", "end"} BY DEF PipeOK
<1>2. Succeeded(o) \in Pipeline /\ Failed(o) \in Pipeline BY <1>1, SucceededType, FailedType
<1>3. ASSUME NEW err \in BOOLEAN PROVE Ended(o, err) \in Pipeline BY EndedType
<1>4. ASSUME NEW err \in BOOLEAN
      PROVE  /\ Ended(o, err).pc = "end" /\ Ended(o, err).st = "dead" /\ Ended(o, err).waits = {}
             /\ Ended(o, err).launch = {} /\ Ended(o, err).joining = {} /\ Ended(o, err).group = o.group
             /\ Ended(o, err).parent = o.parent /\ Ended(o, err).killed = o.killed
             /\ Ended(o, err).gaveUp = o.gaveUp /\ Ended(o, err).starts = o.starts
  BY DEF Ended, Pipeline
<1>5. /\ Succeeded(o).pc \in {"create_deployments", "start_dev", "end"}
      /\ Succeeded(o).st = (IF Succeeded(o).pc = "end" THEN "dead" ELSE "running")
      /\ Succeeded(o).waits = {} /\ Succeeded(o).launch = {} /\ Succeeded(o).joining = {} /\ Succeeded(o).group = o.group
      /\ Succeeded(o).parent = o.parent /\ Succeeded(o).killed = o.killed
      /\ Succeeded(o).gaveUp = o.gaveUp /\ Succeeded(o).starts = o.starts
  <2> DEFINE next == NextCommand(Command(o.pc))
  <2>1. Command(o.pc) \in {"run_dependencies", "create_deployments", "start_dev"} BY <1>1 DEF Command, Pipeline
  <2>2. next \in {"create_deployments", "start_dev", "end"} BY <2>1 DEF NextCommand
  <2>3. CASE next = "end"
    <3>1. Succeeded(o) = Ended(o, FALSE) BY <2>3 DEF Succeeded
    <3>2. QED BY <1>4, <3>1
  <2>4. CASE next # "end"
    <3>1. Succeeded(o) = [o EXCEPT !.pc = next, !.waits = {}, !.launch = {}, !.joining = {}] BY <2>4 DEF Succeeded
    <3> HIDE DEF next
    <3>2. QED BY <2>2, <2>4, <3>1 DEF Pipeline
  <2>5. QED BY <2>3, <2>4
<1>6. ASSUME NEW err \in BOOLEAN, ~o.group PROVE Advances(o, Ended(o, err)) BY <1>3, <1>4, <1>6 DEF Advances
<1>7. ~o.group => Advances(o, Succeeded(o)) BY <1>2, <1>5 DEF Advances
<1>8. Failed(o) = Ended(o, TRUE) \/ Failed(o) = Succeeded(o) BY DEF Failed
<1>9. ~o.group => Advances(o, Failed(o)) BY <1>6, <1>7, <1>8
<1>10. ~o.group => Advances(o, [Succeeded(o) EXCEPT !.dev = "active"])
  <2> DEFINE s == Succeeded(o)
  <2>1. [s EXCEPT !.dev = "active"] \in Pipeline BY <1>2, PipelineTypes
  <2>2. s \in Pipeline BY <1>2
  <2> HIDE DEF s
  <2>3. Advances(o, s) => Advances(o, [s EXCEPT !.dev = "active"]) BY <2>1, <2>2 DEF Advances, Pipeline
  <2>4. QED BY <1>7, <2>3 DEF s
<1>11. Advances(o, [Failed(o) EXCEPT !.group = FALSE])
  <2> DEFINE s == Failed(o)
             t == [s EXCEPT !.group = FALSE]
  <2>1. t \in Pipeline BY <1>2, PipelineTypes
  <2>2. s \in Pipeline BY <1>2
  <2>3. /\ s.pc \in {"create_deployments", "start_dev", "end"}
        /\ s.st = (IF s.pc = "end" THEN "dead" ELSE "running")
        /\ s.waits = {} /\ s.launch = {} /\ s.joining = {}
        /\ s.parent = o.parent /\ s.killed = o.killed /\ s.gaveUp = o.gaveUp /\ s.starts = o.starts
    BY <1>4, <1>5, <1>8
  <2> HIDE DEF s
  <2>4. /\ t.pc = s.pc /\ t.st = s.st /\ t.waits = s.waits /\ t.launch = s.launch /\ t.joining = s.joining
        /\ t.parent = s.parent /\ t.killed = s.killed /\ t.gaveUp = s.gaveUp /\ t.starts = s.starts /\ ~t.group
    BY <2>2 DEF Pipeline
  <2> HIDE DEF t
  <2>5. Advances(o, t) BY <2>1, <2>3, <2>4 DEF Advances
  <2>6. QED BY <2>5 DEF s, t
<1>12. ~scenario.tolerant => Failed(o).pc = "end" BY <1>4 DEF Failed
<1>13. QED BY <1>6, <1>7, <1>9, <1>10, <1>11, <1>12

\* A job that goes on, or ends, takes such a step.
LEMMA AdvanceStep ==
  ASSUME NEW root \in Names, NEW P, Tended(P, root), NEW n \in Names, P[n].st = "running", P[n].joining = {},
         NEW r, Advances(P[n], r)
  PROVE  JobStep(P, root, n, r)
<1>1. PipeOK(P[n]) /\ P[n] \in Pipeline BY DEF Tended
<1>2. PipeOK(r)
  <2>1. r.starts <= 1 BY <1>1 DEF Advances, PipeOK
  <2>2. QED BY <2>1 DEF Advances, PipeOK
<1>3. n = root => ~r.killed BY DEF Advances, Tended, Tree
<1>4. QED BY <1>2, <1>3 DEF Advances, JobStep, Alive

-----------------------------------------------------------------------------
\* Steps of a process.

\* A process that a step leaves alone.
LEMMA LocalFrame ==
  ASSUME NEW q \in Procs, Local(q), scenario' = scenario, proc'[q] = proc[q], resolver'[q] = resolver[q],
         reg'[q] = reg[q], excluded'[q] = excluded[q], pipe'[q] = pipe[q], handler'[q] = handler[q]
  PROVE  Local(q)'
<1>1. Root(q)' = Root(q) /\ DepsOf(q)' = DepsOf(q) /\ WantedBelow' = WantedBelow
  BY DEF Root, DepsOf, Deps, WantedBelow
<1>2. Running(q)' <=> Running(q) BY DEF Running
<1>3. ~Running(q)' => Quiet(q)' BY <1>1, <1>2 DEF Local, Quiet
<1>4. ResolverOK(q)' BY <1>1, <1>2 DEF Local, ResolverOK
<1>5. Inside(reg'[q], excluded'[q], pipe'[q], handler'[q], Root(q)', DepsOf(q)', scenario'.tolerant)
  BY <1>1 DEF Local
<1>6. QED BY <1>3, <1>4, <1>5 DEF Local

\* A process that goes on.
LEMMA LocalNext ==
  ASSUME NEW p \in Procs, Local(p), Running(p), UNCHANGED <<scenario, resolver>>, proc'[p] = proc[p],
         Inside(reg'[p], excluded'[p], pipe'[p], handler'[p], Root(p), DepsOf(p), scenario.tolerant)
  PROVE  Local(p)'
<1>1. Root(p)' = Root(p) /\ DepsOf(p)' = DepsOf(p) /\ WantedBelow' = WantedBelow
  BY DEF Root, DepsOf, Deps, WantedBelow
<1>2. Running(p)' BY DEF Running
<1>3. ResolverOK(p)' BY <1>1, <1>2 DEF Local, ResolverOK, Running
<1>4. QED BY <1>1, <1>2, <1>3 DEF Local

\* A step of one pipeline.
LEMMA InsideUpdate ==
  ASSUME TypeOK, NEW p \in Procs, Local(p), NEW n \in Names, NEW r, JobStep(pipe[p], Root(p), n, r),
         Plain(reg[p], excluded[p], pipe[p], Root(p), n, r, DepsOf(p), scenario.tolerant)
  PROVE  Inside(reg[p], excluded[p], [pipe[p] EXCEPT ![n] = r], handler[p], Root(p), DepsOf(p), scenario.tolerant)
<1>1. Inside(reg[p], excluded[p], pipe[p], handler[p], Root(p), DepsOf(p), scenario.tolerant) BY DEF Local
<1>2. QED BY <1>1, RootType, ProcTypes, InsideStep

\* A step of one pipeline, when its process keeps what is said of it.
LEMMA LocalUpdate ==
  ASSUME TypeOK, \A q \in Procs : Local(q), NEW p \in Procs, Running(p), NEW n \in Names, NEW r,
         JobStep(pipe[p], Root(p), n, r),
         Plain(reg[p], excluded[p], pipe[p], Root(p), n, r, DepsOf(p), scenario.tolerant),
         Update(p, n, r), UNCHANGED <<scenario, proc, resolver, reg, excluded, handler>>
  PROVE  \A q \in Procs : Local(q)'
<1>1. r \in Pipeline BY DEF JobStep
<1>2. pipe \in [Procs -> [Names -> Pipeline]] BY DEF TypeOK
<1>3. pipe'[p] = [pipe[p] EXCEPT ![n] = r] /\ \A q \in Procs \ {p} : pipe'[q] = pipe[q] BY <1>2 DEF Update
<1>4. Inside(reg[p], excluded[p], pipe'[p], handler[p], Root(p), DepsOf(p), scenario.tolerant)
  BY <1>3, InsideUpdate
<1>5. Local(p)' BY <1>4, LocalNext
<1>6. ASSUME NEW q \in Procs \ {p} PROVE Local(q)' BY <1>3, LocalFrame
<1>7. QED BY <1>5, <1>6

\* What Local says of a pipeline.
LEMMA LocalTended ==
  ASSUME TypeOK, NEW p \in Procs, Local(p)
  PROVE  Tended(pipe[p], Root(p)) /\ \A n \in Names : pipe[p][n] \in Pipeline /\ PipeOK(pipe[p][n])
BY ProcTypes DEF Local, Inside, Tended

\* The root has no context above it.
LEMMA RootCtx == ASSUME TypeOK, NEW p \in Procs, Local(p) PROVE ~CtxDone(p, Root(p)) /\ ~StartDone(p, Root(p))
<1>1. pipe[p][Root(p)].parent = None /\ ~pipe[p][Root(p)].killed BY DEF Local, Inside, Tree
<1>2. Above(pipe[p], Root(p)) = {}
  <2>1. {} \in SUBSET Names /\ \A k \in {} \cup {Root(p)} : pipe[p][k].parent \in {} \cup {None} BY <1>1
  <2>2. QED BY <2>1 DEF Above
<1>3. QED BY <1>1, <1>2 DEF CtxDone, StartDone

\* A pipeline at a command of its own, or with every dependency joined, goes on.
LEMMA AdvancePlain ==
  ASSUME TypeOK, NEW p \in Procs, Local(p), NEW n \in Names, pipe[p][n].st = "running", pipe[p][n].pc # "locking",
         pipe[p][n].joining = {}, NEW r, Advances(pipe[p][n], r),
         excluded[p] = "pending" => n # Root(p),
         \/ scenario.tolerant
         \/ r.pc = "end"
         \/ DepsOf(p)[n] = {}
         \/ /\ pipe[p][n].pc \in {"waiting", "joining", "create_deployments", "start_dev"} /\ ~pipe[p][n].group
            /\ pipe[p][n].waits = {} /\ pipe[p][n].launch = {}
  PROVE  /\ JobStep(pipe[p], Root(p), n, r)
         /\ Plain(reg[p], excluded[p], pipe[p], Root(p), n, r, DepsOf(p), scenario.tolerant)
<1> DEFINE P == pipe[p]
           Q == [P EXCEPT ![n] = r]
           deps == DepsOf(p)
<1>1. Tended(P, Root(p)) /\ Root(p) \in Names BY LocalTended, RootType
<1>2. JobStep(P, Root(p), n, r) BY <1>1, AdvanceStep
<1>3. P \in [Names -> Pipeline] /\ Q[n] = r BY ProcTypes
<1>4. Follows(P, Q) BY <1>1, <1>2, TreeStep
<1> HIDE DEF P, Q, deps
<1>5. ASSUME ~scenario.tolerant, GoesOn(Q, n), NEW d \in deps[n]
      PROVE  \/ P[d].st = "dead"
             \/ reg[p].known[d] = "InUseByOtherInstance"
             \/ <<n, d>> \notin reg[p].graph.edges
             \/ d \in r.waits \cup r.launch \cup r.joining
  <2>1. r.pc # "end" BY <1>3, <1>5 DEF GoesOn
  <2>2. /\ P[n].pc \in {"waiting", "joining", "create_deployments", "start_dev"} /\ ~P[n].group
        /\ P[n].waits = {} /\ P[n].launch = {} /\ P[n].joining = {}
    BY <1>5, <2>1 DEF P, deps
  <2>3. ~P[n].gaveUp BY <1>3, <1>5 DEF GoesOn, Advances, P
  <2>4. ~Ctx(P, n)
    <3>1. P[n].st \in Alive BY DEF P, Alive
    <3>2. QED BY <1>1, <1>4, <1>5, <3>1, CtxKept DEF GoesOn, P
  <2>5. GoesOn(P, n) BY <2>2, <2>3, <2>4 DEF GoesOn
  <2>6. InTurn(reg[p].known, reg[p].graph, P, deps) BY <1>5 DEF Local, Inside, P, deps
  <2>7. QED BY <2>2, <2>5, <2>6 DEF InTurn
<1>6. scenario.tolerant \/ NextInTurn(reg[p].known, reg[p].graph, P, n, r, deps) BY <1>5 DEF NextInTurn, Q
<1>7. QED BY <1>2, <1>6 DEF Plain, Advances, P, deps

\* The commands that come after run_dependencies has its locks.
Later == {"waiting", "joining", "create_deployments", "start_dev"}

\* What a pipeline no longer waits for is done.
LEMMA NextKept ==
  ASSUME TypeOK, NEW p \in Procs, Local(p), NEW n \in Names, NEW r, JobStep(pipe[p], Root(p), n, r),
         r.pc \in Later => pipe[p][n].pc \in Later,
         pipe[p][n].gaveUp => r.gaveUp, pipe[p][n].group => r.group,
         \A d \in (pipe[p][n].waits \cup pipe[p][n].launch \cup pipe[p][n].joining)
                    \ (r.waits \cup r.launch \cup r.joining) :
            pipe[p][d].st = "dead" \/ CtxDone(p, n) \/ r.gaveUp \/ r.group
  PROVE  scenario.tolerant \/ NextInTurn(reg[p].known, reg[p].graph, pipe[p], n, r, DepsOf(p))
<1> DEFINE P == pipe[p]
           Q == [P EXCEPT ![n] = r]
           deps == DepsOf(p)
<1>1. Tended(P, Root(p)) /\ Root(p) \in Names BY LocalTended, RootType
<1>2. P \in [Names -> Pipeline] /\ Q[n] = r BY ProcTypes
<1>3. Follows(P, Q) BY <1>1, TreeStep
<1>4. Ctx(P, n) <=> CtxDone(p, n) BY DEF Ctx, CtxDone, StartDone
<1> HIDE DEF P, Q, deps
<1>5. ASSUME ~scenario.tolerant, GoesOn(Q, n), NEW d \in deps[n]
      PROVE  \/ P[d].st = "dead"
             \/ reg[p].known[d] = "InUseByOtherInstance"
             \/ <<n, d>> \notin reg[p].graph.edges
             \/ d \in r.waits \cup r.launch \cup r.joining
  <2>1. r.pc \in Later /\ ~r.gaveUp /\ ~r.group BY <1>2, <1>5 DEF GoesOn, Later
  <2>2. P[n].pc \in Later /\ ~P[n].gaveUp /\ ~P[n].group BY <2>1 DEF P
  <2>3. P[n].st \in Alive BY <1>1, <2>2 DEF Tended, PipeOK, Later, Alive
  <2>4. ~Ctx(P, n) BY <1>1, <1>3, <1>5, <2>3, CtxKept DEF GoesOn
  <2>5. GoesOn(P, n) BY <2>2, <2>4 DEF GoesOn, Later
  <2>6. InTurn(reg[p].known, reg[p].graph, P, deps) BY <1>5 DEF Local, Inside, P, deps
  <2>7. \/ P[d].st = "dead"
        \/ reg[p].known[d] = "InUseByOtherInstance"
        \/ <<n, d>> \notin reg[p].graph.edges
        \/ d \in P[n].waits \cup P[n].launch \cup P[n].joining
    BY <2>5, <2>6 DEF InTurn
  <2>8. QED BY <1>4, <2>1, <2>4, <2>7 DEF P
<1>6. QED BY <1>5 DEF NextInTurn, P, Q, deps

\* A step that changes neither what a pipeline waits for nor where it is.
Aside(o, r) ==
    /\ r \in Pipeline /\ PipeOK(r)
    /\ r.pc = o.pc /\ r.st = o.st /\ r.parent = o.parent /\ r.group = o.group /\ r.gaveUp = o.gaveUp
    /\ r.waits = o.waits /\ r.launch = o.launch /\ r.joining = o.joining
    /\ o.killed => r.killed
    /\ r.failed = o.failed /\ (r.dev = "active" => o.dev = "active")

\* A step that leaves the dependencies of a pipeline alone.
LEMMA AsideStep ==
  ASSUME TypeOK, NEW p \in Procs, Local(p), NEW n \in Names, NEW r, Aside(pipe[p][n], r), pipe[p][n].st # "none",
         n = Root(p) => ~r.killed
  PROVE  /\ JobStep(pipe[p], Root(p), n, r)
         /\ Plain(reg[p], excluded[p], pipe[p], Root(p), n, r, DepsOf(p), scenario.tolerant)
<1>1. JobStep(pipe[p], Root(p), n, r) BY DEF Aside, JobStep
<1>2. scenario.tolerant \/ NextInTurn(reg[p].known, reg[p].graph, pipe[p], n, r, DepsOf(p))
  BY <1>1, NextKept DEF Aside
<1>3. /\ excluded[p] = "pending" => pipe[p][Root(p)].pc = "run_dependencies"
      /\ excluded[p] \in {"no", "pending", "error"} =>
          /\ \A k \in Names \ {Root(p)} : pipe[p][k].st = "none"
          /\ pipe[p][Root(p)].pc \notin {"locking", "waiting", "joining"}
  BY DEF Local, Inside, Calls, Early
<1>4. excluded[p] \in {"no", "pending", "error"} => n = Root(p) BY <1>3
<1>5. QED BY <1>1, <1>2, <1>3, <1>4 DEF Plain, Aside

\* A pipeline that runs is the root while the project is not locked.
LEMMA RootOnly ==
  ASSUME NEW p \in Procs, Local(p), NEW n \in Names, pipe[p][n].st # "none"
  PROVE  /\ excluded[p] \in {"no", "pending", "error"} =>
              n = Root(p) /\ pipe[p][n].pc \notin {"locking", "waiting", "joining"}
         /\ excluded[p] = "pending" => pipe[p][n].pc = "run_dependencies"
BY DEF Local, Inside, Calls, Early

\* A job is cancelled.
LEMMA CancelledLocal ==
  ASSUME TypeOK, \A q \in Procs : Local(q), NEW p \in Procs, NEW n \in Names, Cancelled(p, n)
  PROVE  \A q \in Procs : Local(q)'
<1> DEFINE o == pipe[p][n]
           r == Ended(o, TRUE)
<1>1. o \in Pipeline /\ PipeOK(o) /\ o.st = "running" /\ o.pc \in {"run_dependencies", "create_deployments", "start_dev"}
  BY LocalTended DEF Cancelled
<1>2. ~o.group /\ o.joining = {} BY <1>1 DEF PipeOK
<1>3. Advances(o, r) BY <1>1, <1>2, CommandEnds, RootType
<1>4. r.pc = "end" BY <1>1 DEF Ended, Pipeline
<1>5. n # Root(p) BY RootCtx DEF Cancelled
<1> HIDE DEF r
<1>6. /\ JobStep(pipe[p], Root(p), n, r)
      /\ Plain(reg[p], excluded[p], pipe[p], Root(p), n, r, DepsOf(p), scenario.tolerant)
  BY <1>1, <1>2, <1>3, <1>4, <1>5, AdvancePlain
<1>7. Update(p, n, r) /\ Running(p) /\ UNCHANGED <<scenario, proc, resolver, reg, excluded, handler>> BY DEF Cancelled, r
<1>8. QED BY <1>6, <1>7, LocalUpdate

\* A command fails because the process is not admitted.
LEMMA ExcludedBeforeLocal ==
  ASSUME TypeOK, \A q \in Procs : Local(q), NEW p \in Procs, NEW n \in Names, ExcludedBefore(p, n)
  PROVE  \A q \in Procs : Local(q)'
<1> DEFINE o == pipe[p][n]
           r == Failed(o)
<1>1. o \in Pipeline /\ PipeOK(o) /\ o.st = "running" /\ o.pc \in {"run_dependencies", "create_deployments", "start_dev"}
  BY LocalTended DEF ExcludedBefore
<1>2. ~o.group /\ o.joining = {} BY <1>1 DEF PipeOK
<1>3. Advances(o, r) /\ (scenario.tolerant \/ r.pc = "end") BY <1>1, <1>2, CommandEnds, RootType
<1>4. excluded[p] # "pending" BY DEF ExcludedBefore
<1> HIDE DEF r
<1>5. /\ JobStep(pipe[p], Root(p), n, r)
      /\ Plain(reg[p], excluded[p], pipe[p], Root(p), n, r, DepsOf(p), scenario.tolerant)
  BY <1>1, <1>2, <1>3, <1>4, AdvancePlain
<1>6. Update(p, n, r) /\ Running(p) /\ UNCHANGED <<scenario, proc, resolver, reg, excluded, handler>> BY DEF ExcludedBefore, r
<1>7. QED BY <1>5, <1>6, LocalUpdate

\* The work of a pipeline.
LEMMA CommandLocal ==
  ASSUME TypeOK, \A q \in Procs : Local(q), NEW p \in Procs, NEW n \in Names,
         CreateDeployments(p, n) \/ StartDev(p, n)
  PROVE  \A q \in Procs : Local(q)'
<1> DEFINE o == pipe[p][n]
<1>1. o \in Pipeline /\ PipeOK(o) /\ o.st = "running" /\ o.pc \in {"create_deployments", "start_dev"} /\ Running(p)
  BY LocalTended DEF CreateDeployments, StartDev, AtCommand
<1>2. ~o.group /\ o.joining = {} /\ o.waits = {} /\ o.launch = {} BY <1>1 DEF PipeOK
<1>3. excluded[p] # "pending" BY DEF CreateDeployments, StartDev, MayRun
<1>4. PICK r \in {Succeeded(o), Failed(o), [Succeeded(o) EXCEPT !.dev = "active"]} : Update(p, n, r)
  BY DEF CreateDeployments, StartDev
<1>5. Advances(o, r) BY <1>1, <1>2, <1>4, CommandEnds, RootType
<1>6. /\ JobStep(pipe[p], Root(p), n, r)
      /\ Plain(reg[p], excluded[p], pipe[p], Root(p), n, r, DepsOf(p), scenario.tolerant)
  BY <1>1, <1>2, <1>3, <1>5, AdvancePlain
<1>7. UNCHANGED <<scenario, proc, resolver, reg, excluded, handler>> BY DEF CreateDeployments, StartDev
<1>8. QED BY <1>1, <1>4, <1>6, <1>7, LocalUpdate

\* A dependency in use is waited for.
LEMMA WaitForDependencyLocal ==
  ASSUME TypeOK, \A q \in Procs : Local(q), NEW p \in Procs, NEW n \in Names, WaitForDependency(p, n)
  PROVE  \A q \in Procs : Local(q)'
<1> DEFINE o == pipe[p][n]
           d == First(o.waits)
<1>1. o \in Pipeline /\ PipeOK(o) /\ o.st = "running" /\ o.pc = "waiting" /\ Running(p)
  BY LocalTended DEF WaitForDependency, AtCommand
<1>2. PICK r \in {[o EXCEPT !.waits = @ \ {d}], [o EXCEPT !.waits = @ \ {d}, !.gaveUp = TRUE]} :
         Update(p, n, r) /\ (Done(p, d) \/ CtxDone(p, n) \/ r.gaveUp)
  BY <1>1 DEF WaitForDependency, Pipeline
<1>3. /\ r \in Pipeline /\ r.waits = o.waits \ {d} /\ (o.gaveUp => r.gaveUp)
      /\ r.pc = o.pc /\ r.st = o.st /\ r.parent = o.parent /\ r.group = o.group
      /\ r.launch = o.launch /\ r.joining = o.joining /\ r.killed = o.killed /\ r.failed = o.failed
      /\ r.dev = o.dev /\ r.starts = o.starts
  BY <1>1, <1>2 DEF Pipeline
<1>4. PipeOK(r) BY <1>1, <1>3 DEF PipeOK
<1>5. n = Root(p) => ~o.killed BY DEF Local, Inside, Tree
<1>6. JobStep(pipe[p], Root(p), n, r) BY <1>1, <1>3, <1>4, <1>5 DEF JobStep
<1>7. scenario.tolerant \/ NextInTurn(reg[p].known, reg[p].graph, pipe[p], n, r, DepsOf(p))
  <2>1. ASSUME NEW e \in (o.waits \cup o.launch \cup o.joining) \ (r.waits \cup r.launch \cup r.joining)
        PROVE  pipe[p][e].st = "dead" \/ CtxDone(p, n) \/ r.gaveUp \/ r.group
    <3>1. e = d BY <1>3, <2>1
    <3>2. QED BY <1>2, <3>1 DEF Done
  <2>2. QED BY <1>1, <1>3, <1>6, <2>1, NextKept
<1>8. excluded[p] \notin {"no", "pending", "error"} BY <1>1, RootOnly
<1>9. Plain(reg[p], excluded[p], pipe[p], Root(p), n, r, DepsOf(p), scenario.tolerant)
  BY <1>1, <1>3, <1>7, <1>8 DEF Plain
<1>10. UNCHANGED <<scenario, proc, resolver, reg, excluded, handler>> BY DEF WaitForDependency
<1>11. QED BY <1>1, <1>2, <1>6, <1>9, <1>10, LocalUpdate

\* A pipeline is registered with its parent, or cannot be.
LEMMA RegisterLocal ==
  ASSUME TypeOK, \A q \in Procs : Local(q), NEW p \in Procs, NEW n \in Names, Register(p, n)
  PROVE  \A q \in Procs : Local(q)'
<1> DEFINE o == pipe[p][n]
<1>1. o \in Pipeline /\ PipeOK(o) /\ o.st = "queued" /\ Running(p) BY LocalTended DEF Register
<1>2. PICK r \in {[o EXCEPT !.st = "registered", !.starts = @ + 1], [o EXCEPT !.st = "unstarted", !.failed = TRUE]} :
         Update(p, n, r)
  BY DEF Register
<1>3. /\ r \in Pipeline /\ r.st \in {"registered", "unstarted"} /\ (r.st = "unstarted" => r.failed)
      /\ r.pc = o.pc /\ r.parent = o.parent /\ r.group = o.group /\ r.gaveUp = o.gaveUp
      /\ r.waits = o.waits /\ r.launch = o.launch /\ r.joining = o.joining /\ r.killed = o.killed
      /\ r.dev = o.dev /\ r.starts <= 1
  <2>1. o.starts = 0 BY <1>1 DEF PipeOK
  <2>2. r \in Pipeline BY <1>1, <1>2, PipelineTypes
  <2>3. CASE r = [o EXCEPT !.st = "registered", !.starts = @ + 1] BY <1>1, <2>1, <2>2, <2>3 DEF Pipeline
  <2>4. CASE r = [o EXCEPT !.st = "unstarted", !.failed = TRUE] BY <1>1, <2>1, <2>2, <2>4 DEF Pipeline
  <2>5. QED BY <1>2, <2>3, <2>4
<1>4. o.pc = "none" BY <1>1 DEF PipeOK, Pipeline
<1>5. PipeOK(r) BY <1>1, <1>3, <1>4 DEF PipeOK
<1>6. n = Root(p) => ~o.killed BY DEF Local, Inside, Tree
<1>7. JobStep(pipe[p], Root(p), n, r) BY <1>1, <1>3, <1>4, <1>5, <1>6 DEF JobStep, Alive
<1>8. scenario.tolerant \/ NextInTurn(reg[p].known, reg[p].graph, pipe[p], n, r, DepsOf(p))
  BY <1>3, <1>7, NextKept
<1>9. excluded[p] # "pending" /\ ~(excluded[p] \in {"no", "error"} /\ r.pc \in {"waiting", "joining"})
  BY <1>1, <1>3, <1>4, RootOnly
<1>10. Plain(reg[p], excluded[p], pipe[p], Root(p), n, r, DepsOf(p), scenario.tolerant)
  BY <1>3, <1>4, <1>8, <1>9 DEF Plain
<1>11. UNCHANGED <<scenario, proc, resolver, reg, excluded, handler>> BY DEF Register
<1>12. QED BY <1>1, <1>2, <1>7, <1>10, <1>11, LocalUpdate

\* A job is run, or lost on a cancelled context.
LEMMA RunJobLocal ==
  ASSUME TypeOK, \A q \in Procs : Local(q), NEW p \in Procs, NEW n \in Names, RunJob(p, n)
  PROVE  \A q \in Procs : Local(q)'
<1> DEFINE o == pipe[p][n]
<1>1. o \in Pipeline /\ PipeOK(o) /\ o.st = "registered" /\ Running(p) BY LocalTended DEF RunJob
<1>2. PICK r \in {[o EXCEPT !.st = "lost"], [o EXCEPT !.st = "running", !.pc = "run_dependencies"]} :
         Update(p, n, r) /\ (r.st = "lost" => StartDone(p, n))
  BY <1>1 DEF RunJob, Pipeline
<1>3. /\ r \in Pipeline /\ ((r.st = "lost" /\ r.pc = o.pc) \/ (r.st = "running" /\ r.pc = "run_dependencies"))
      /\ r.parent = o.parent /\ r.group = o.group /\ r.gaveUp = o.gaveUp
      /\ r.waits = o.waits /\ r.launch = o.launch /\ r.joining = o.joining /\ r.killed = o.killed
      /\ r.dev = o.dev /\ r.starts = o.starts
  <2>1. r \in Pipeline BY <1>1, <1>2, PipelineTypes
  <2>2. QED BY <1>1, <1>2, <2>1 DEF Pipeline
<1>4. o.pc = "none" BY <1>1 DEF PipeOK, Pipeline
<1>5. PipeOK(r) BY <1>1, <1>3, <1>4 DEF PipeOK
<1>6. n = Root(p) => ~o.killed BY DEF Local, Inside, Tree
<1>7. JobStep(pipe[p], Root(p), n, r) BY <1>1, <1>2, <1>3, <1>4, <1>5, <1>6 DEF JobStep, Alive, StartDone
<1>8. scenario.tolerant \/ NextInTurn(reg[p].known, reg[p].graph, pipe[p], n, r, DepsOf(p))
  BY <1>3, <1>4, <1>7, NextKept DEF Later
<1>9. excluded[p] # "pending" BY <1>1, <1>4, RootOnly
<1>10. Plain(reg[p], excluded[p], pipe[p], Root(p), n, r, DepsOf(p), scenario.tolerant)
  BY <1>3, <1>4, <1>8, <1>9 DEF Plain
<1>11. UNCHANGED <<scenario, proc, resolver, reg, excluded, handler>> BY DEF RunJob
<1>12. QED BY <1>1, <1>2, <1>7, <1>10, <1>11, LocalUpdate

\* A started dependency returns.
LEMMA ReturnedLocal ==
  ASSUME TypeOK, \A q \in Procs : Local(q), NEW p \in Procs, NEW n \in Names, NEW d \in Names, Returned(p, n, d)
  PROVE  \A q \in Procs : Local(q)'
<1> DEFINE o == pipe[p][n]
           r == [o EXCEPT !.joining = @ \ {d}, !.group = @ \/ pipe[p][d].failed]
<1>1. /\ o \in Pipeline /\ PipeOK(o) /\ o.st = "running" /\ o.pc = "joining" /\ Running(p) /\ d \in o.joining
      /\ pipe[p][d] \in Pipeline /\ PipeOK(pipe[p][d]) /\ pipe[p][d].st \in {"dead", "lost", "unstarted"}
  BY LocalTended DEF Returned, AtCommand
<1>2. Update(p, n, r) BY DEF Returned
<1>3. /\ r \in Pipeline /\ r.joining = o.joining \ {d} /\ (r.group <=> o.group \/ pipe[p][d].failed)
      /\ r.pc = o.pc /\ r.st = o.st /\ r.parent = o.parent /\ r.gaveUp = o.gaveUp /\ r.failed = o.failed
      /\ r.waits = o.waits /\ r.launch = o.launch /\ r.killed = o.killed
      /\ r.dev = o.dev /\ r.starts = o.starts
  <2>1. pipe[p][d].failed \in BOOLEAN /\ o.group \in BOOLEAN BY <1>1 DEF Pipeline
  <2>2. QED BY <1>1, <2>1 DEF Pipeline
<1> HIDE DEF r
<1>4. PipeOK(r) BY <1>1, <1>3 DEF PipeOK
<1>5. n = Root(p) => ~o.killed BY DEF Local, Inside, Tree
<1>6. JobStep(pipe[p], Root(p), n, r) BY <1>1, <1>3, <1>4, <1>5 DEF JobStep, Alive
<1>7. scenario.tolerant \/ NextInTurn(reg[p].known, reg[p].graph, pipe[p], n, r, DepsOf(p))
  <2>1. ASSUME NEW e \in (o.waits \cup o.launch \cup o.joining) \ (r.waits \cup r.launch \cup r.joining)
        PROVE  pipe[p][e].st = "dead" \/ CtxDone(p, n) \/ r.gaveUp \/ r.group
    <3>1. e = d BY <1>3, <2>1
    <3>2. CASE pipe[p][d].st = "lost"
      <4>1. o.group \/ Ctx(pipe[p], n) BY <1>1, <3>2 DEF Local, Inside, Lost
      <4>2. QED BY <1>3, <4>1 DEF Ctx, CtxDone, StartDone
    <3>3. CASE pipe[p][d].st = "unstarted" BY <1>1, <1>3, <3>3 DEF PipeOK
    <3>4. QED BY <1>1, <3>1, <3>2, <3>3
  <2>2. QED BY <1>3, <1>6, <2>1, NextKept
<1>8. excluded[p] \notin {"no", "pending", "error"} BY <1>1, RootOnly
<1>9. Plain(reg[p], excluded[p], pipe[p], Root(p), n, r, DepsOf(p), scenario.tolerant)
  BY <1>3, <1>7, <1>8 DEF Plain
<1>10. UNCHANGED <<scenario, proc, resolver, reg, excluded, handler>> BY DEF Returned
<1>11. QED BY <1>1, <1>2, <1>6, <1>9, <1>10, LocalUpdate

\* All started dependencies have returned.
LEMMA JoinedLocal ==
  ASSUME TypeOK, \A q \in Procs : Local(q), NEW p \in Procs, NEW n \in Names, Joined(p, n)
  PROVE  \A q \in Procs : Local(q)'
<1> DEFINE o == pipe[p][n]
<1>1. /\ o \in Pipeline /\ PipeOK(o) /\ o.st = "running" /\ o.pc = "joining" /\ Running(p) /\ o.joining = {}
      /\ o.waits = {}
  BY LocalTended DEF Joined, AtCommand, PipeOK
<1>2. excluded[p] \notin {"no", "pending", "error"} BY <1>1, RootOnly
<1>3. UNCHANGED <<scenario, proc, resolver, reg, excluded, handler>> BY DEF Joined
<1>4. CASE Update(p, n, [Failed(o) EXCEPT !.group = FALSE])
  <2> DEFINE r == [Failed(o) EXCEPT !.group = FALSE]
  <2>1. Advances(o, r) BY <1>1, CommandEnds, RootType
  <2>2. scenario.tolerant \/ r.pc = "end"
    <3>1. scenario.tolerant \/ Failed(o).pc = "end" BY <1>1, CommandEnds, RootType
    <3>2. Failed(o) \in Pipeline BY <1>1, FailedType
    <3>3. QED BY <3>1, <3>2 DEF Pipeline
  <2> HIDE DEF r
  <2>3. /\ JobStep(pipe[p], Root(p), n, r)
        /\ Plain(reg[p], excluded[p], pipe[p], Root(p), n, r, DepsOf(p), scenario.tolerant)
    BY <1>1, <1>2, <2>1, <2>2, AdvancePlain
  <2>4. QED BY <1>1, <1>3, <1>4, <2>3, LocalUpdate DEF r
<1>5. CASE ~o.group /\ o.launch = {} /\ Update(p, n, Succeeded(o))
  <2> DEFINE r == Succeeded(o)
  <2>1. Advances(o, r) BY <1>1, <1>5, CommandEnds, RootType
  <2> HIDE DEF r
  <2>2. /\ JobStep(pipe[p], Root(p), n, r)
        /\ Plain(reg[p], excluded[p], pipe[p], Root(p), n, r, DepsOf(p), scenario.tolerant)
    BY <1>1, <1>2, <1>5, <2>1, AdvancePlain
  <2>3. QED BY <1>1, <1>3, <1>5, <2>2, LocalUpdate DEF r
<1>6. CASE ~o.group /\ Update(p, n, [o EXCEPT !.pc = "waiting"])
  <2> DEFINE r == [o EXCEPT !.pc = "waiting"]
  <2>1. /\ r \in Pipeline /\ r.pc = "waiting"
        /\ r.st = o.st /\ r.parent = o.parent /\ r.gaveUp = o.gaveUp /\ r.failed = o.failed /\ r.group = o.group
        /\ r.waits = o.waits /\ r.launch = o.launch /\ r.joining = o.joining /\ r.killed = o.killed
        /\ r.dev = o.dev /\ r.starts = o.starts
    BY <1>1 DEF Pipeline
  <2> HIDE DEF r
  <2>2. PipeOK(r) BY <1>1, <1>6, <2>1 DEF PipeOK
  <2>3. n = Root(p) => ~o.killed BY DEF Local, Inside, Tree
  <2>4. JobStep(pipe[p], Root(p), n, r) BY <1>1, <2>1, <2>2, <2>3 DEF JobStep, Alive
  <2>5. scenario.tolerant \/ NextInTurn(reg[p].known, reg[p].graph, pipe[p], n, r, DepsOf(p))
    BY <1>1, <2>1, <2>4, NextKept DEF Later
  <2>6. Plain(reg[p], excluded[p], pipe[p], Root(p), n, r, DepsOf(p), scenario.tolerant)
    BY <1>1, <1>2, <2>1, <2>5 DEF Plain
  <2>7. QED BY <1>1, <1>3, <1>6, <2>4, <2>6, LocalUpdate DEF r
<1>7. QED BY <1>4, <1>5, <1>6 DEF Joined

\* Dev pods end.
LEMMA DevEndsLocal ==
  ASSUME TypeOK, \A q \in Procs : Local(q), NEW p \in Procs, NEW n \in Names, DevEnds(p, n)
  PROVE  \A q \in Procs : Local(q)'
<1> DEFINE o == pipe[p][n]
           r == [o EXCEPT !.dev = "ended"]
<1>1. o \in Pipeline /\ PipeOK(o) /\ o.dev = "active" /\ Running(p) BY LocalTended DEF DevEnds
<1>2. r \in Pipeline BY <1>1, PipelineTypes
<1>3. PipeOK(r) BY <1>1, <1>2 DEF PipeOK, Pipeline, NoPipeline
<1>4. Aside(o, r) BY <1>1, <1>2, <1>3 DEF Aside, Pipeline
<1>5. o.st # "none" BY <1>1 DEF PipeOK
<1>6. n = Root(p) => ~r.killed BY <1>1 DEF Local, Inside, Tree, Pipeline
<1>7. Update(p, n, r) /\ UNCHANGED <<scenario, proc, resolver, reg, excluded, handler>> BY DEF DevEnds
<1> HIDE DEF r
<1>8. QED BY <1>1, <1>4, <1>5, <1>6, <1>7, AsideStep, LocalUpdate

\* A dev context is cancelled.
LEMMA DevClosed ==
  ASSUME TypeOK, NEW p \in Procs, Local(p), NEW n \in Names, pipe[p][n].st = "dead"
  PROVE  /\ JobStep(pipe[p], Root(p), n, [pipe[p][n] EXCEPT !.devClosed = TRUE])
         /\ Plain(reg[p], excluded[p], pipe[p], Root(p), n, [pipe[p][n] EXCEPT !.devClosed = TRUE], DepsOf(p),
                  scenario.tolerant)
<1> DEFINE o == pipe[p][n]
           r == [o EXCEPT !.devClosed = TRUE]
<1>1. o \in Pipeline /\ PipeOK(o) BY LocalTended
<1>2. r \in Pipeline BY <1>1, PipelineTypes
<1>3. PipeOK(r) BY <1>1, <1>2 DEF PipeOK, Pipeline
<1>4. Aside(o, r) BY <1>1, <1>2, <1>3 DEF Aside, Pipeline
<1>5. n = Root(p) => ~r.killed BY <1>1 DEF Local, Inside, Tree, Pipeline
<1> HIDE DEF r
<1>6. JobStep(pipe[p], Root(p), n, r) /\ Plain(reg[p], excluded[p], pipe[p], Root(p), n, r, DepsOf(p), scenario.tolerant)
  BY <1>4, <1>5, AsideStep
<1>7. QED BY <1>6 DEF r

\* The manager of the root is closed.
LEMMA CloseRootLocal ==
  ASSUME TypeOK, \A q \in Procs : Local(q), NEW p \in Procs, CloseRoot(p)
  PROVE  \A q \in Procs : Local(q)'
<1>1. Running(p) /\ Root(p) \in Names /\ pipe[p][Root(p)].st = "dead" BY RootType DEF CloseRoot, Done
<1>2. /\ Update(p, Root(p), [pipe[p][Root(p)] EXCEPT !.devClosed = TRUE])
      /\ UNCHANGED <<scenario, proc, resolver, reg, excluded, handler>>
  BY DEF CloseRoot
<1>3. QED BY <1>1, <1>2, DevClosed, LocalUpdate

\* excludeDependency closes a pipeline and answers.
LEMMA ServerLocal ==
  ASSUME TypeOK, \A q \in Procs : Local(q), NEW p \in Procs, NEW n \in Names, Server(p, n)
  PROVE  \A q \in Procs : Local(q)'
<1> DEFINE P == pipe[p]
           r == [P[n] EXCEPT !.devClosed = TRUE]
           H == handler[p]
<1>1. Running(p) /\ P[n].st = "dead" /\ H[n] # "none" /\ P[n] \in Pipeline /\ P \in [Names -> Pipeline]
  <2>1. H[n] \in {"main", "dev"} BY DEF Server, HandlerClose, HandlerReply
  <2>2. P[n].st = "dead" BY DEF Server, HandlerClose, HandlerReply, Done, Local, Inside, Handled
  <2>3. QED BY <2>1, <2>2, ProcTypes DEF Server, HandlerClose, HandlerReply
<1>2. Inside(reg[p], excluded[p], P, H, Root(p), DepsOf(p), scenario.tolerant) BY DEF Local
<1>3. handler \in [Procs -> [Names -> {"none", "main", "dev", "replied"}]] /\ pipe \in [Procs -> [Names -> Pipeline]]
  BY DEF TypeOK
<1>4. PICK s \in {"dev", "replied"} :
          /\ handler' = [handler EXCEPT ![p][n] = s]
          /\ \/ pipe' = pipe /\ s = "replied" /\ (P[n].failed \/ P[n].dev # "active")
             \/ Update(p, n, r) /\ s = "dev"
  BY DEF Server, HandlerClose, HandlerReply
<1>5. Inside(reg[p], excluded[p], pipe'[p], H, Root(p), DepsOf(p), scenario.tolerant)
  <2>1. CASE pipe' = pipe BY <1>2, <2>1
  <2>2. CASE Update(p, n, r)
    <3>1. /\ JobStep(P, Root(p), n, r)
          /\ Plain(reg[p], excluded[p], P, Root(p), n, r, DepsOf(p), scenario.tolerant)
      BY <1>1, DevClosed
    <3>2. pipe'[p] = [P EXCEPT ![n] = r] BY <1>3, <2>2 DEF Update
    <3>3. Inside(reg[p], excluded[p], [P EXCEPT ![n] = r], H, Root(p), DepsOf(p), scenario.tolerant)
      BY <3>1, InsideUpdate
    <3>4. QED BY <3>2, <3>3
  <2>3. QED BY <1>4, <2>1, <2>2
<1>6. pipe'[p][n].st = "dead" /\ (handler'[p][n] = "replied" => pipe'[p][n].failed \/ pipe'[p][n].dev # "active")
  <2>1. handler'[p][n] = s BY <1>3, <1>4
  <2>2. CASE pipe' = pipe BY <1>1, <1>4, <2>1, <2>2
  <2>3. CASE Update(p, n, r) /\ s = "dev"
    <3>1. pipe'[p][n] = r BY <1>3, <2>3 DEF Update
    <3>2. QED BY <1>1, <2>1, <2>3, <3>1 DEF Pipeline
  <2>4. QED BY <1>4, <2>2, <2>3
<1>7. Handled(handler'[p], pipe'[p], Root(p))
  <2>1. Handled(H, pipe'[p], Root(p)) BY <1>5 DEF Inside
  <2>2. \A k \in Names \ {n} : handler'[p][k] = H[k] BY <1>3, <1>4
  <2>3. n # Root(p) BY <1>1, <1>2 DEF Inside, Handled
  <2>4. QED BY <1>6, <2>1, <2>2, <2>3 DEF Handled
<1>8. UNCHANGED <<scenario, proc, resolver, reg, excluded>> BY DEF Server, HandlerClose, HandlerReply
<1>9. Inside(reg'[p], excluded'[p], pipe'[p], handler'[p], Root(p), DepsOf(p), scenario.tolerant)
  BY <1>5, <1>7, <1>8 DEF Inside
<1>10. Local(p)' BY <1>1, <1>8, <1>9, LocalNext
<1>11. ASSUME NEW q \in Procs \ {p} PROVE Local(q)'
  <2>1. handler'[q] = handler[q] /\ pipe'[q] = pipe[q] BY <1>3, <1>4 DEF Update
  <2>2. QED BY <1>8, <2>1, LocalFrame
<1>12. QED BY <1>10, <1>11

-----------------------------------------------------------------------------
\* Dependencies are started: Q, by n, of P.
Launches(P, Q, n, now) ==
    /\ P[n].st = "running" /\ P[n].pc = "waiting" /\ P[n].waits = {}
    /\ now \subseteq P[n].launch
    /\ Q = [m \in Names |->
              IF m = n THEN [P[n] EXCEPT !.pc = "joining", !.joining = now, !.launch = P[n].launch \ now]
              ELSE IF m \in now
              THEN [NoPipeline EXCEPT !.st = "queued", !.parent = n, !.starts = P[m].starts]
              ELSE P[m]]

\* What is started is queued, the rest stays as it was.
LEMMA Launched ==
  ASSUME NEW root \in Names, NEW P, Tended(P, root), NEW n \in Names, NEW now, NEW Q, Launches(P, Q, n, now)
  PROVE  /\ P \in [Names -> Pipeline] /\ now \subseteq Names /\ n \notin now /\ root \notin now
         /\ P[n].joining = {}
         /\ \A m \in now : P[m] = NoPipeline
         /\ /\ Q[n].st = "running" /\ Q[n].pc = "joining" /\ Q[n].waits = {} /\ Q[n].joining = now
            /\ Q[n].launch = P[n].launch \ now
            /\ Q[n].parent = P[n].parent /\ Q[n].killed = P[n].killed /\ Q[n].group = P[n].group
            /\ Q[n].gaveUp = P[n].gaveUp /\ Q[n].failed = P[n].failed /\ Q[n].dev = P[n].dev /\ Q[n].starts = P[n].starts
         /\ \A m \in now : /\ Q[m].st = "queued" /\ Q[m].pc = "none" /\ Q[m].parent = n /\ Q[m].starts = 0
                           /\ Q[m].waits = {} /\ Q[m].launch = {} /\ Q[m].joining = {}
                           /\ ~Q[m].killed /\ ~Q[m].group /\ Q[m].dev = "none"
         /\ \A m \in Names : m # n /\ m \notin now => Q[m] = P[m]
<1>1. P \in [Names -> Pipeline] /\ Tree(P, root) /\ \A m \in Names : PipeOK(P[m]) BY DEF Tended
<1>2. P[n] \in Pipeline /\ PipeOK(P[n]) BY <1>1
<1>3. now \subseteq Names BY <1>2 DEF Launches, Pipeline
<1>4. \A m \in now : m # root /\ P[m].st = "none" BY <1>1 DEF Launches, Tree
<1>5. \A m \in now : P[m] = NoPipeline BY <1>1, <1>3, <1>4 DEF PipeOK
<1>6. n \notin now /\ root \notin now BY <1>4 DEF Launches
<1>7. P[n].joining = {} BY <1>2 DEF PipeOK, Launches
<1>8. Q[n] = [P[n] EXCEPT !.pc = "joining", !.joining = now, !.launch = P[n].launch \ now] BY DEF Launches
<1>9. /\ Q[n].st = "running" /\ Q[n].pc = "joining" /\ Q[n].waits = {} /\ Q[n].joining = now
      /\ Q[n].launch = P[n].launch \ now
      /\ Q[n].parent = P[n].parent /\ Q[n].killed = P[n].killed /\ Q[n].group = P[n].group
      /\ Q[n].gaveUp = P[n].gaveUp /\ Q[n].failed = P[n].failed /\ Q[n].dev = P[n].dev /\ Q[n].starts = P[n].starts
  BY <1>2, <1>8 DEF Pipeline, Launches
<1>10. ASSUME NEW m \in now
       PROVE  /\ Q[m].st = "queued" /\ Q[m].pc = "none" /\ Q[m].parent = n /\ Q[m].starts = 0
              /\ Q[m].waits = {} /\ Q[m].launch = {} /\ Q[m].joining = {}
              /\ ~Q[m].killed /\ ~Q[m].group /\ Q[m].dev = "none"
  <2>1. Q[m] = [NoPipeline EXCEPT !.st = "queued", !.parent = n, !.starts = P[m].starts]
    BY <1>3, <1>6 DEF Launches
  <2>2. P[m].starts = 0 BY <1>5 DEF NoPipeline
  <2>3. QED BY <2>1, <2>2 DEF NoPipeline
<1>11. \A m \in Names : m # n /\ m \notin now => Q[m] = P[m] BY DEF Launches
<1>12. QED BY <1>1, <1>3, <1>5, <1>6, <1>7, <1>9, <1>10, <1>11

\* The dependencies that are started hang below the pipeline that starts them.
LEMMA LaunchTree ==
  ASSUME NEW root \in Names, NEW P, Tended(P, root), NEW n \in Names, NEW now, NEW Q \in [Names -> Pipeline],
         Launches(P, Q, n, now)
  PROVE  Tended(Q, root) /\ Follows(P, Q)
<1>1. Tree(P, root) /\ \A m \in Names : PipeOK(P[m]) BY DEF Tended
<1>2. /\ P \in [Names -> Pipeline] /\ now \subseteq Names /\ n \notin now /\ root \notin now /\ P[n].joining = {}
      /\ \A m \in now : P[m] = NoPipeline
      /\ \A m \in Names : m # n /\ m \notin now => Q[m] = P[m]
      /\ P[n].st = "running" /\ now \subseteq P[n].launch
  <2>1. /\ P \in [Names -> Pipeline] /\ now \subseteq Names /\ n \notin now /\ root \notin now /\ P[n].joining = {}
        /\ \A m \in now : P[m] = NoPipeline
        /\ \A m \in Names : m # n /\ m \notin now => Q[m] = P[m]
    BY Launched
  <2>2. P[n].st = "running" /\ now \subseteq P[n].launch BY DEF Launches
  <2>3. QED BY <2>1, <2>2
<1>3. /\ Q[n].st = "running" /\ Q[n].pc = "joining" /\ Q[n].waits = {} /\ Q[n].joining = now
      /\ Q[n].launch = P[n].launch \ now
      /\ Q[n].parent = P[n].parent /\ Q[n].killed = P[n].killed /\ Q[n].group = P[n].group
      /\ Q[n].gaveUp = P[n].gaveUp /\ Q[n].failed = P[n].failed /\ Q[n].dev = P[n].dev /\ Q[n].starts = P[n].starts
  BY Launched
<1>4. \A m \in now : /\ Q[m].st = "queued" /\ Q[m].pc = "none" /\ Q[m].parent = n /\ Q[m].starts = 0
                     /\ Q[m].waits = {} /\ Q[m].launch = {} /\ Q[m].joining = {}
                     /\ ~Q[m].killed /\ ~Q[m].group /\ Q[m].dev = "none"
  BY Launched
<1>5. ASSUME NEW k \in Names PROVE PipeOK(Q[k])
  <2>1. CASE k = n BY <1>1, <1>2, <1>3, <2>1 DEF PipeOK
  <2>2. CASE k \in now BY <1>4, <2>2 DEF PipeOK
  <2>3. CASE k # n /\ k \notin now BY <1>1, <1>2, <2>3
  <2>4. QED BY <2>1, <2>2, <2>3
<1>6. ASSUME NEW m \in now PROVE P[m].st = "none" /\ P[m].parent = None /\ ~P[m].killed /\ ~P[m].group /\ P[m].joining = {}
  <2>1. P[m] = NoPipeline BY <1>2
  <2>2. QED BY <2>1 DEF NoPipeline
<1>7. Follows(P, Q)
  <2> SUFFICES ASSUME NEW k \in Names
               PROVE  /\ P[k].parent \in {None, Q[k].parent} /\ (P[k].killed => Q[k].killed)
                      /\ (P[k].joining # {} /\ P[k].group => Q[k].group \/ Q[k].killed)
    BY DEF Follows
  <2>1. CASE k = n BY <1>2, <1>3, <2>1
  <2>2. CASE k \in now BY <1>6, <2>2
  <2>3. CASE k # n /\ k \notin now BY <1>2, <2>3
  <2>4. QED BY <2>1, <2>2, <2>3
<1>8. Q[root].parent = None /\ ~Q[root].killed BY <1>1, <1>2, <1>3 DEF Tree
<1>9. ASSUME NEW k \in Names \ {root}, Q[k].st \in Alive PROVE Q[k].parent \in Names /\ k \in Q[Q[k].parent].joining
  <2>1. CASE k \in now BY <1>3, <1>4, <2>1
  <2>2. CASE k \notin now
    <3>1. Q[k].parent = P[k].parent /\ P[k].st \in Alive BY <1>2, <1>3, <1>9, <2>2 DEF Alive
    <3>2. P[k].parent \in Names /\ k \in P[P[k].parent].joining BY <1>1, <3>1 DEF Tree
    <3>3. P[k].parent # n /\ P[k].parent \notin now BY <1>2, <1>6, <3>2
    <3>4. QED BY <1>2, <3>1, <3>2, <3>3
  <2>3. QED BY <2>1, <2>2
<1>10. ASSUME NEW m \in Names, NEW d \in Q[m].joining PROVE d # root /\ Q[d].st # "none" /\ Q[d].parent = m
  <2>1. CASE m = n BY <1>2, <1>3, <1>4, <1>10, <2>1
  <2>2. CASE m \in now BY <1>4, <1>10, <2>2
  <2>3. CASE m # n /\ m \notin now
    <3>1. d \in P[m].joining BY <1>2, <1>10, <2>3
    <3>2. d \in Names /\ d # root /\ P[d].st # "none" /\ P[d].parent = m BY <1>1, <1>2, <3>1 DEF Tree, Pipeline
    <3>3. d \notin now BY <1>6, <3>2
    <3>4. QED BY <1>2, <1>3, <3>2, <3>3
  <2>4. QED BY <2>1, <2>2, <2>3
<1>11. ASSUME NEW m \in Names, NEW d \in Q[m].launch PROVE d \in P[m].launch /\ d \notin now
  <2>1. CASE m = n BY <1>3, <1>11, <2>1
  <2>2. CASE m \in now BY <1>4, <1>11, <2>2
  <2>3. CASE m # n /\ m \notin now
    <3>1. d \in P[m].launch BY <1>2, <1>11, <2>3
    <3>2. d \notin now BY <1>1, <1>2, <2>3, <3>1 DEF Tree
    <3>3. QED BY <3>1, <3>2
  <2>4. QED BY <2>1, <2>2, <2>3
<1>12. ASSUME NEW m \in Names, NEW d \in Q[m].launch PROVE d # root /\ Q[d].st = "none"
  <2>1. d # root /\ P[d].st = "none" /\ d \in Names BY <1>1, <1>2, <1>11, <1>12 DEF Tree, Pipeline
  <2>2. d # n /\ d \notin now BY <1>2, <1>11, <1>12, <2>1
  <2>3. QED BY <1>2, <2>1, <2>2
<1>13. ASSUME NEW m \in Names, NEW k \in Names, Q[m].launch \cap Q[k].launch # {} PROVE m = k
  BY <1>1, <1>11, <1>13 DEF Tree
<1>14. Tree(Q, root) BY <1>8, <1>9, <1>10, <1>12, <1>13 DEF Tree
<1>15. QED BY <1>5, <1>7, <1>14 DEF Tended

\* Starting dependencies keeps what is said of the pipelines.
LEMMA LaunchInside ==
  ASSUME NEW root \in Names, NEW R \in RegistryType, NEW x, NEW P \in [Names -> Pipeline], NEW H,
         NEW deps \in [Names -> SUBSET Names], NEW tolerant \in BOOLEAN,
         Inside(R, x, P, H, root, deps, tolerant),
         NEW n \in Names, NEW now, NEW Q \in [Names -> Pipeline], Launches(P, Q, n, now)
  PROVE  Inside(R, x, Q, H, root, deps, tolerant)
<1>1. Tended(P, root) BY DEF Inside, Tended
<1>2. Tended(Q, root) /\ Follows(P, Q) BY <1>1, LaunchTree
<1>3. /\ now \subseteq Names /\ n \notin now /\ root \notin now /\ P[n].joining = {}
      /\ \A m \in now : P[m] = NoPipeline
      /\ \A m \in Names : m # n /\ m \notin now => Q[m] = P[m]
      /\ P[n].st = "running" /\ P[n].pc = "waiting" /\ P[n].waits = {} /\ now \subseteq P[n].launch
  <2>1. /\ now \subseteq Names /\ n \notin now /\ root \notin now /\ P[n].joining = {}
        /\ \A m \in now : P[m] = NoPipeline
        /\ \A m \in Names : m # n /\ m \notin now => Q[m] = P[m]
    BY <1>1, Launched
  <2>2. P[n].st = "running" /\ P[n].pc = "waiting" /\ P[n].waits = {} /\ now \subseteq P[n].launch BY DEF Launches
  <2>3. QED BY <2>1, <2>2
<1>4. /\ Q[n].st = "running" /\ Q[n].pc = "joining" /\ Q[n].waits = {} /\ Q[n].joining = now
      /\ Q[n].launch = P[n].launch \ now
      /\ Q[n].gaveUp = P[n].gaveUp /\ Q[n].group = P[n].group
  BY <1>1, Launched
<1>5. \A m \in now : Q[m].st = "queued" /\ Q[m].pc = "none" /\ Q[m].waits = {} /\ Q[m].launch = {} /\ Q[m].joining = {}
  BY <1>1, Launched
<1>6. ASSUME NEW m \in now PROVE P[m].st = "none" /\ P[m].pc = "none"
  <2>1. P[m] = NoPipeline BY <1>3
  <2>2. QED BY <2>1 DEF NoPipeline
<1>7. /\ Calls(R.call, x, P, root) /\ Early(x, R.known, P, root) /\ KnownOK(R.known, P, root)
      /\ CallKnown(R.call, R.known, root) /\ Edges(R.graph, P, root) /\ Asked(R.call, R.graph, deps)
      /\ Lost(P) /\ (tolerant \/ InTurn(R.known, R.graph, P, deps)) /\ Handled(H, P, root)
  BY DEF Inside
<1>8. x \notin {"no", "pending", "error"}
  <2>1. x \in {"no", "pending", "error"} => n = root /\ P[root].pc # "waiting" BY <1>3, <1>7 DEF Early
  <2>2. QED BY <1>3, <2>1
<1>9. Calls(R.call, x, Q, root)
  <2>1. ASSUME NEW k \in Names PROVE Q[k].pc = "locking" <=> P[k].pc = "locking"
    <3>1. CASE k = n BY <1>3, <1>4, <3>1
    <3>2. CASE k \in now BY <1>5, <1>6, <3>2
    <3>3. CASE k # n /\ k \notin now BY <1>3, <3>3
    <3>4. QED BY <3>1, <3>2, <3>3
  <2>2. QED BY <1>7, <1>8, <2>1 DEF Calls
<1>10. Early(x, R.known, Q, root) BY <1>7, <1>8 DEF Early
<1>11. KnownOK(R.known, Q, root)
  <2>1. ASSUME NEW k \in Names \ {root}, Q[k].st # "none" PROVE R.known[k] = "InUse"
    <3>1. CASE k \in now BY <1>3, <1>7, <3>1 DEF KnownOK
    <3>2. CASE k \notin now
      <4>1. P[k].st # "none" BY <1>3, <2>1, <3>2
      <4>2. QED BY <1>7, <4>1 DEF KnownOK
    <3>3. QED BY <3>1, <3>2
  <2>2. ASSUME NEW m \in Names, NEW d \in Q[m].launch PROVE R.known[d] = "InUse"
    <3>1. d \in P[m].launch BY <1>3, <1>4, <1>5, <2>2
    <3>2. QED BY <1>7, <3>1 DEF KnownOK
  <2>3. QED BY <2>1, <2>2 DEF KnownOK
<1>12. Edges(R.graph, Q, root)
  <2>1. /\ \A k \in Names : P[k].st # "none" => k \in R.graph.nodes
        /\ \A k, d \in Names : <<k, d>> \in R.graph.edges => P[k].st \in {"running", "dead"} /\ P[k].pc # "run_dependencies"
        /\ \A k \in Names : \A d \in P[k].waits \cup P[k].launch \cup P[k].joining : <<k, d>> \in R.graph.edges
        /\ R.graph.edges \subseteq R.graph.nodes \X R.graph.nodes
    BY <1>7 DEF Edges, Rooted
  <2>2. ASSUME NEW k \in Names, Q[k].st # "none" PROVE k \in R.graph.nodes
    <3>1. CASE k \in now
      <4>1. <<n, k>> \in R.graph.edges BY <1>3, <2>1, <3>1
      <4>2. QED BY <2>1, <4>1
    <3>2. CASE k \notin now BY <1>3, <2>1, <2>2, <3>2
    <3>3. QED BY <3>1, <3>2
  <2>3. ASSUME NEW k \in Names, NEW d \in Names, <<k, d>> \in R.graph.edges
        PROVE  Q[k].st \in {"running", "dead"} /\ Q[k].pc # "run_dependencies"
    <3>1. P[k].st \in {"running", "dead"} /\ P[k].pc # "run_dependencies" BY <2>1, <2>3
    <3>2. k \notin now BY <1>6, <3>1
    <3>3. QED BY <1>3, <1>4, <3>1, <3>2
  <2>4. ASSUME NEW k \in Names, NEW d \in Q[k].waits \cup Q[k].launch \cup Q[k].joining PROVE <<k, d>> \in R.graph.edges
    <3>1. CASE k = n
      <4>1. d \in P[n].launch BY <1>3, <1>4, <2>4, <3>1
      <4>2. QED BY <2>1, <3>1, <4>1
    <3>2. CASE k \in now BY <1>5, <2>4, <3>2
    <3>3. CASE k # n /\ k \notin now BY <1>3, <2>1, <2>4, <3>3
    <3>4. QED BY <3>1, <3>2, <3>3
  <2>5. QED BY <1>7, <2>2, <2>3, <2>4 DEF Edges
<1>13. Lost(Q)
  <2>1. ASSUME NEW m \in Names, NEW d \in Q[m].joining, Q[d].st = "lost" PROVE d \in P[m].joining /\ P[d].st = "lost"
    <3>1. d \in Names BY <2>1 DEF Pipeline
    <3>2. d # n /\ d \notin now BY <1>4, <1>5, <2>1
    <3>3. P[d].st = "lost" BY <1>3, <2>1, <3>1, <3>2
    <3>4. m # n /\ m \notin now BY <1>4, <1>5, <2>1, <3>2
    <3>5. QED BY <1>3, <2>1, <3>3, <3>4
  <2>2. QED BY <1>1, <1>2, <1>7, <2>1, LostKept
<1>14. tolerant \/ InTurn(R.known, R.graph, Q, deps)
  <2> SUFFICES ASSUME ~tolerant, NEW k \in Names, GoesOn(Q, k), NEW d \in deps[k]
               PROVE  \/ Q[d].st = "dead"
                      \/ R.known[d] = "InUseByOtherInstance"
                      \/ <<k, d>> \notin R.graph.edges
                      \/ d \in Q[k].waits \cup Q[k].launch \cup Q[k].joining
    BY DEF InTurn
  <2>1. k \notin now BY <1>5 DEF GoesOn
  <2>2. /\ P[k].pc \in {"waiting", "joining", "create_deployments", "start_dev"} /\ ~P[k].gaveUp /\ ~P[k].group
        /\ P[k].waits \cup P[k].launch \cup P[k].joining = Q[k].waits \cup Q[k].launch \cup Q[k].joining
    BY <1>3, <1>4, <2>1 DEF GoesOn
  <2>3. P[k].st \in Alive BY <1>1, <2>2 DEF Tended, PipeOK, Alive
  <2>4. ~Ctx(P, k) BY <1>1, <1>2, <2>3, CtxKept DEF GoesOn
  <2>5. GoesOn(P, k) BY <2>2, <2>4 DEF GoesOn
  <2>6. \/ P[d].st = "dead"
        \/ R.known[d] = "InUseByOtherInstance"
        \/ <<k, d>> \notin R.graph.edges
        \/ d \in P[k].waits \cup P[k].launch \cup P[k].joining
    BY <1>7, <2>5 DEF InTurn
  <2>7. P[d].st = "dead" => Q[d].st = "dead" BY <1>3, <1>6
  <2>8. QED BY <2>2, <2>6, <2>7
<1>15. Handled(H, Q, root)
  <2>1. ASSUME NEW k \in Names, P[k].st = "dead" PROVE Q[k] = P[k] BY <1>3, <1>6, <2>1
  <2>2. QED BY <1>7, <2>1 DEF Handled
<1>16. QED BY <1>2, <1>7, <1>9, <1>10, <1>11, <1>12, <1>13, <1>14, <1>15 DEF Inside, Tended

\* Dependencies are started.
LEMMA LaunchLocal ==
  ASSUME TypeOK, TypeOK', \A q \in Procs : Local(q), NEW p \in Procs, NEW n \in Names, Launch(p, n)
  PROVE  \A q \in Procs : Local(q)'
<1> DEFINE P == pipe[p]
           now == IF scenario.sequential /\ P[n].launch # {} THEN {First(P[n].launch)} ELSE P[n].launch
           Q == [m \in Names |->
                  IF m = n THEN [P[n] EXCEPT !.pc = "joining", !.joining = now, !.launch = P[n].launch \ now]
                  ELSE IF m \in now
                  THEN [NoPipeline EXCEPT !.st = "queued", !.parent = n, !.starts = P[m].starts]
                  ELSE P[m]]
<1>1. Running(p) /\ P[n].st = "running" /\ P[n].pc = "waiting" /\ P[n].waits = {} BY DEF Launch, AtCommand
<1>2. pipe \in [Procs -> [Names -> Pipeline]] /\ pipe' \in [Procs -> [Names -> Pipeline]] BY DEF TypeOK
<1>3. P[n].launch \subseteq Names BY <1>2 DEF Pipeline
<1>4. now \subseteq P[n].launch BY <1>3, FirstIn
<1>5. pipe' = [pipe EXCEPT ![p] = Q] BY DEF Launch
<1> HIDE DEF now
<1>6. Launches(P, Q, n, now) BY <1>1, <1>4 DEF Launches
<1> HIDE DEF Q
<1>7. pipe'[p] = Q /\ Q \in [Names -> Pipeline] BY <1>2, <1>5
<1>8. Inside(reg[p], excluded[p], P, handler[p], Root(p), DepsOf(p), scenario.tolerant) BY DEF Local
<1>9. Inside(reg[p], excluded[p], Q, handler[p], Root(p), DepsOf(p), scenario.tolerant)
  BY <1>6, <1>7, <1>8, RootType, ProcTypes, LaunchInside
<1>10. UNCHANGED <<scenario, proc, resolver, reg, excluded, handler>> BY DEF Launch
<1>11. Local(p)' BY <1>1, <1>7, <1>9, <1>10, LocalNext
<1>12. ASSUME NEW q \in Procs \ {p} PROVE Local(q)'
  <2>1. pipe'[q] = pipe[q] BY <1>2, <1>5
  <2>2. QED BY <1>10, <2>1, LocalFrame
<1>13. QED BY <1>11, <1>12

-----------------------------------------------------------------------------
\* The call of a process goes on: it has the same names, and gives no other
\* lock type than before unless it finds a name in use.
CallStep(o, c) ==
    /\ o.pc # "free" /\ c.pc # "free" /\ c.by = o.by
    /\ c.pc \in {"names", "excluding"} => c.left \subseteq Wanted(c.locks)
    /\ \A n \in Names : c.locks[n] = o.locks[n] \/ (o.locks[n] = "Locked" /\ c.locks[n] \in {"InUse", "InUseByOtherInstance"})

\* A step of a call keeps what is said of the pipelines.
LEMMA InsideCall ==
  ASSUME NEW root \in Names, NEW R \in RegistryType, NEW x, NEW P, NEW H, NEW deps, NEW tolerant,
         Inside(R, x, P, H, root, deps, tolerant),
         NEW call \in RegistryCall, CallStep(R.call, call), NEW S, S = [R EXCEPT !.call = call]
  PROVE  Inside(S, x, P, H, root, deps, tolerant)
<1>1. S.call = call /\ S.graph = R.graph /\ S.known = R.known BY DEF RegistryType
<1>2. /\ R.call.pc # "free" /\ call.pc # "free" /\ call.by = R.call.by
      /\ call.pc \in {"names", "excluding"} => call.left \subseteq Wanted(call.locks)
      /\ \A n \in Names : \/ call.locks[n] = R.call.locks[n]
                          \/ R.call.locks[n] = "Locked" /\ call.locks[n] \in {"InUse", "InUseByOtherInstance"}
  BY DEF CallStep
<1>3. Calls(R.call, x, P, root) /\ CallKnown(R.call, R.known, root) /\ Asked(R.call, R.graph, deps) BY DEF Inside
<1>4. Calls(call, x, P, root) BY <1>2, <1>3 DEF Calls
<1>5. CallKnown(call, R.known, root)
  <2>1. call.by = "exclude" => \A n \in Names : call.locks[n] # Absent <=> n = root
    BY <1>2, <1>3 DEF CallKnown, Absent
  <2>2. ASSUME call.by \in Names, NEW n \in Names
        PROVE  /\ call.locks[n] = "Locked" => R.known[n] = Absent
               /\ call.locks[n] = "InUseByOtherInstance" => R.known[n] # "InUse"
               /\ R.known[n] = "InUseByOtherInstance" => n = root \/ call.locks[n] \in {Absent, "InUseByOtherInstance"}
    <3>1. /\ R.call.locks[n] = "Locked" => R.known[n] = Absent
          /\ R.call.locks[n] = "InUseByOtherInstance" => R.known[n] # "InUse"
          /\ R.known[n] = "InUseByOtherInstance" => n = root \/ R.call.locks[n] \in {Absent, "InUseByOtherInstance"}
      BY <1>2, <1>3, <2>2 DEF CallKnown
    <3>2. QED BY <1>2, <3>1 DEF Absent
  <2>3. QED BY <2>1, <2>2 DEF CallKnown
<1>6. Asked(call, R.graph, deps)
  <2> SUFFICES ASSUME call.by \in Names, NEW d \in Names
               PROVE  /\ call.locks[d] = Absent <=> d \notin deps[call.by]
                      /\ call.locks[d] \notin {Absent, "InUseCyclic"} => <<call.by, d>> \in R.graph.edges
                      /\ call.locks[d] = "InUseCyclic" => <<call.by, d>> \notin R.graph.edges
    BY DEF Asked
  <2>1. /\ R.call.locks[d] = Absent <=> d \notin deps[call.by]
        /\ R.call.locks[d] \notin {Absent, "InUseCyclic"} => <<call.by, d>> \in R.graph.edges
        /\ R.call.locks[d] = "InUseCyclic" => <<call.by, d>> \notin R.graph.edges
    BY <1>2, <1>3 DEF Asked
  <2>2. QED BY <1>2, <2>1 DEF Absent
<1>7. QED BY <1>1, <1>4, <1>5, <1>6 DEF Inside

\* A call takes a name over, or finds it in use.
Takes(o, c, p, n) ==
    /\ c.pc = "names" /\ c.by = o.by /\ c.locks = o.locks /\ c.left = o.left \ {n}
    /\ c.copy.exists = o.copy.exists /\ c.copy.version = o.copy.version
    /\ c.copy.owner = [o.copy.owner EXCEPT ![n] = p] /\ c.changed

Finds(o, c, n, lock) ==
    /\ c.pc = "names" /\ c.by = o.by /\ c.locks = [o.locks EXCEPT ![n] = lock]
    /\ c.left = o.left \ {n} /\ c.copy = o.copy /\ c.changed = o.changed /\ c.failed = o.failed

\* A name is taken over in the copy of the config map.
LEMMA TakesOver ==
  ASSUME TypeOK, NEW o \in RegistryCall, NEW p \in Procs, NEW n \in Names
  PROVE  /\ Takes(o, TakeOver(o, p, n), p, n) /\ TakeOver(o, p, n).failed = o.failed
         /\ \A q \in Procs : /\ Takes(o, [TakeOver(o, p, n) EXCEPT !.failed = @ \cup {q}], p, n)
                             /\ [TakeOver(o, p, n) EXCEPT !.failed = @ \cup {q}].failed = o.failed \cup {q}
<1> DEFINE c == TakeOver(o, p, n)
           copy == [o.copy EXCEPT !.owner[n] = p]
<1>1. o.copy \in ConfigMap /\ o.copy.owner \in [Names -> Procs \cup {None}] BY DEF RegistryCall, ConfigMap
<1>2. c = [o EXCEPT !.left = o.left \ {n}, !.copy = copy, !.changed = TRUE, !.pc = "names"]
  BY <1>1 DEF TakeOver, RegistryCall
<1>3. copy.exists = o.copy.exists /\ copy.version = o.copy.version /\ copy.owner = [o.copy.owner EXCEPT ![n] = p]
  <2>1. ASSUME NEW m \in ConfigMap
        PROVE  LET k == [m EXCEPT !.owner[n] = p]
               IN  k.exists = m.exists /\ k.version = m.version /\ k.owner = [m.owner EXCEPT ![n] = p]
    BY DEF ConfigMap
  <2>2. QED BY <1>1, <2>1
<1>4. c \in RegistryCall BY CallTypes
<1> HIDE DEF c, copy
<1>5. Takes(o, c, p, n) /\ c.failed = o.failed BY <1>2, <1>3 DEF Takes, RegistryCall
<1>6. ASSUME NEW q \in Procs
      PROVE  /\ Takes(o, [c EXCEPT !.failed = @ \cup {q}], p, n)
             /\ [c EXCEPT !.failed = @ \cup {q}].failed = o.failed \cup {q}
  <2> DEFINE d == [c EXCEPT !.failed = @ \cup {q}]
  <2>1. /\ d.pc = c.pc /\ d.by = c.by /\ d.locks = c.locks /\ d.left = c.left /\ d.copy = c.copy /\ d.changed = c.changed
        /\ d.failed = c.failed \cup {q}
    BY <1>4 DEF RegistryCall
  <2> HIDE DEF d
  <2>2. Takes(o, d, p, n) /\ d.failed = o.failed \cup {q} BY <1>5, <2>1 DEF Takes
  <2>3. QED BY <2>2 DEF d
<1>7. QED BY <1>5, <1>6 DEF c

\* A name is found in use.
LEMMA FindsInUse ==
  ASSUME NEW o \in RegistryCall, NEW n \in Names, NEW lock \in Locks
  PROVE  Finds(o, Refuse(o, n, lock), n, lock)
<1>1. Refuse(o, n, lock) = [o EXCEPT !.left = o.left \ {n}, !.locks = [o.locks EXCEPT ![n] = lock], !.pc = "names"]
  BY DEF Refuse, RegistryCall
<1>2. QED BY <1>1 DEF Finds, RegistryCall

\* One name more has been looked at.
LEMMA NamesStep ==
  ASSUME NEW o \in RegistryCall, NEW c \in RegistryCall, o.pc \in {"names", "excluding"}, o.left \subseteq Wanted(o.locks),
         NEW n \in o.left, NEW p,
         Takes(o, c, p, n) \/ \E lock \in {"InUse", "InUseByOtherInstance"} : Finds(o, c, n, lock)
  PROVE  CallStep(o, c)
<1>1. n \in Names /\ o.locks[n] = "Locked" BY DEF Wanted
<1>2. CASE Takes(o, c, p, n) BY <1>1, <1>2 DEF Takes, CallStep
<1>3. ASSUME NEW lock \in {"InUse", "InUseByOtherInstance"}, Finds(o, c, n, lock) PROVE CallStep(o, c)
  <2>1. o.locks \in [Names -> Locks \cup {Absent}] BY DEF RegistryCall
  <2>2. c.locks[n] = lock /\ \A m \in Names \ {n} : c.locks[m] = o.locks[m] BY <1>1, <1>3, <2>1 DEF Finds
  <2>3. c.left \subseteq Wanted(c.locks) BY <1>3, <2>2 DEF Finds, Wanted
  <2>4. QED BY <1>1, <1>3, <2>2, <2>3 DEF Finds, CallStep
<1>4. QED BY <1>2, <1>3

\* A step of the call alone.
LEMMA LocalCall ==
  ASSUME TypeOK, \A q \in Procs : Local(q), NEW p \in Procs, Running(p), NEW call \in RegistryCall,
         CallStep(reg[p].call, call), SetCall(p, call),
         UNCHANGED <<scenario, proc, resolver, excluded, pipe, handler>>
  PROVE  \A q \in Procs : Local(q)'
<1>1. reg \in [Procs -> RegistryType] BY DEF TypeOK, RegistryType
<1>2. reg'[p] = [reg[p] EXCEPT !.call = call] /\ \A q \in Procs \ {p} : reg'[q] = reg[q]
  BY <1>1 DEF SetCall, RegistryType
<1>3. Inside(reg[p], excluded[p], pipe[p], handler[p], Root(p), DepsOf(p), scenario.tolerant) BY DEF Local
<1>4. Root(p) \in Names /\ reg[p] \in RegistryType BY RootType, ProcTypes
<1>5. Inside(reg'[p], excluded[p], pipe[p], handler[p], Root(p), DepsOf(p), scenario.tolerant)
  BY <1>2, <1>3, <1>4, InsideCall
<1>6. Local(p)' BY <1>5, LocalNext
<1>7. ASSUME NEW q \in Procs \ {p} PROVE Local(q)' BY <1>2, LocalFrame
<1>8. QED BY <1>6, <1>7

\* The call of a process that is asked about names.
LEMMA CallLeft ==
  ASSUME TypeOK, NEW p \in Procs, Local(p), Asks(p)
  PROVE  /\ reg[p].call \in RegistryCall /\ reg[p].call.left \subseteq Wanted(reg[p].call.locks)
         /\ reg[p].call.pc \in {"names", "excluding"}
BY ProcTypes DEF Local, Inside, Calls, Asks

\* A call looks at one name.
LEMMA RegistryNamesLocal ==
  ASSUME TypeOK, \A q \in Procs : Local(q), NEW p \in Procs, CallOK(p), NEW n \in Names,
         RegistryName(p, n) \/ RegistryPingFails(p, n) \/ RegistryInUse(p, n) \/ RegistryExcluded(p, n)
  PROVE  \A q \in Procs : Local(q)'
<1> DEFINE o == reg[p].call
           owner == o.copy.owner[n]
           over == [TakeOver(o, p, n) EXCEPT !.failed = @ \cup {owner}]
<1>1. Running(p) /\ Asks(p) /\ n \in o.left
  BY DEF RegistryName, RegistryPingFails, RegistryInUse, RegistryExcluded, Call, Asks
<1>2. o \in RegistryCall /\ o.left \subseteq Wanted(o.locks) /\ o.pc \in {"names", "excluding"} BY <1>1, CallLeft
<1>3. UNCHANGED <<scenario, proc, resolver, excluded, pipe, handler>>
  BY DEF RegistryName, RegistryPingFails, RegistryInUse, RegistryExcluded
<1>4. \E c \in RegistryCall : /\ SetCall(p, c)
                              /\ Takes(o, c, p, n) \/ \E lock \in {"InUse", "InUseByOtherInstance"} : Finds(o, c, n, lock)
  <2>1. TakeOver(o, p, n) \in RegistryCall /\ Takes(o, TakeOver(o, p, n), p, n) BY <1>2, CallTypes, TakesOver
  <2>2. ASSUME NEW lock \in {"InUse", "InUseByOtherInstance"}
        PROVE  Refuse(o, n, lock) \in RegistryCall /\ Finds(o, Refuse(o, n, lock), n, lock)
    <3>1. lock \in Locks BY DEF Locks
    <3>2. QED BY <1>2, <3>1, CallTypes, FindsInUse
  <2>3. CASE RegistryPingFails(p, n)
    <3>1. owner \in Procs BY <1>2, <2>3 DEF RegistryPingFails, RegistryCall, ConfigMap
    <3>2. over \in RegistryCall /\ Takes(o, over, p, n) BY <1>2, <3>1, CallTypes, TakesOver
    <3>3. SetCall(p, over) BY <2>3 DEF RegistryPingFails
    <3>4. QED BY <3>2, <3>3
  <2>4. CASE RegistryName(p, n)
    <3>1. SetCall(p, TakeOver(o, p, n)) \/ SetCall(p, Refuse(o, n, "InUse")) BY <2>4 DEF RegistryName
    <3>2. QED BY <2>1, <2>2, <3>1
  <2>5. CASE RegistryInUse(p, n)
    <3>1. SetCall(p, Refuse(o, n, "InUseByOtherInstance")) BY <2>5 DEF RegistryInUse
    <3>2. QED BY <2>2, <3>1
  <2>6. CASE RegistryExcluded(p, n)
    <3>1. SetCall(p, TakeOver(o, p, n)) BY <2>6 DEF RegistryExcluded
    <3>2. QED BY <2>1, <3>1
  <2>7. QED BY <2>3, <2>4, <2>5, <2>6
<1>5. PICK c \in RegistryCall :
          /\ SetCall(p, c)
          /\ Takes(o, c, p, n) \/ \E lock \in {"InUse", "InUseByOtherInstance"} : Finds(o, c, n, lock)
  BY <1>4
<1>6. CallStep(o, c) BY <1>1, <1>2, <1>5, NamesStep
<1>7. QED BY <1>1, <1>3, <1>5, <1>6, LocalCall

\* The call reads, writes, is tried again or fails.
Moves(o, c) ==
    /\ c.pc \in {"get", "create", "names", "return", "error"} /\ c.by = o.by /\ c.locks = o.locks
    /\ c.pc = "names" => c.left = Wanted(o.locks)

\* A call reads or writes the config map.
LEMMA RegistryMoves ==
  ASSUME TypeOK, NEW p \in Procs,
         RegistryGet(p) \/ RegistryCreate(p) \/ RegistryUpdate(p) \/ RegistryFails(p)
  PROVE  \E c \in RegistryCall : SetCall(p, c) /\ Moves(reg[p].call, c)
<1> DEFINE o == reg[p].call
<1>1. o \in RegistryCall /\ Root(p) \in Names BY ProcTypes, RootType
<1>2. ASSUME NEW pc \in {"get", "create", "return", "error"}
      PROVE  [o EXCEPT !.pc = pc] \in RegistryCall /\ Moves(o, [o EXCEPT !.pc = pc])
  BY <1>1 DEF RegistryCall, Moves
<1>3. Retry(o) \in RegistryCall /\ Moves(o, Retry(o))
  <2>1. Retry(o) \in RegistryCall BY <1>1, CallTypes
  <2>2. CASE o.retries = 0 BY <1>2, <2>2 DEF Retry
  <2>3. CASE o.retries # 0
    <3>1. Retry(o) = [o EXCEPT !.pc = "get", !.retries = o.retries - 1] BY <1>1, <2>3 DEF Retry, RegistryCall
    <3>2. QED BY <1>1, <2>1, <3>1 DEF RegistryCall, Moves
  <2>4. QED BY <2>2, <2>3
<1>4. CASE RegistryGet(p)
  <2> DEFINE c == [o EXCEPT !.pc = "names", !.left = Wanted(o.locks), !.copy = configMap, !.changed = FALSE, !.failed = {}]
  <2>1. configMap \in ConfigMap /\ Wanted(o.locks) \subseteq Names BY DEF TypeOK, Wanted
  <2>2. c \in RegistryCall BY <1>1, <2>1 DEF RegistryCall
  <2>3. Moves(o, c) BY <1>1 DEF RegistryCall, Moves
  <2>4. SetCall(p, c) \/ SetCall(p, [o EXCEPT !.pc = "create"]) BY <1>4 DEF RegistryGet
  <2>5. QED BY <1>2, <2>2, <2>3, <2>4
<1>5. CASE RegistryCreate(p)
  <2>1. SetCall(p, Retry(o)) \/ SetCall(p, [o EXCEPT !.pc = "return"]) BY <1>5 DEF RegistryCreate
  <2>2. QED BY <1>2, <1>3, <2>1
<1>6. CASE RegistryUpdate(p)
  <2>1. SetCall(p, Retry(o)) \/ SetCall(p, [o EXCEPT !.pc = "return"]) BY <1>6 DEF RegistryUpdate
  <2>2. QED BY <1>2, <1>3, <2>1
<1>7. CASE RegistryFails(p)
  <2>1. SetCall(p, [o EXCEPT !.pc = "error"]) BY <1>7 DEF RegistryFails
  <2>2. QED BY <1>2, <2>1
<1>8. QED BY <1>4, <1>5, <1>6, <1>7

\* A call that reads or writes the config map keeps what is said of each process.
LEMMA RegistryMovesLocal ==
  ASSUME TypeOK, \A q \in Procs : Local(q), NEW p \in Procs,
         RegistryGet(p) \/ RegistryCreate(p) \/ RegistryUpdate(p) \/ RegistryFails(p)
  PROVE  \A q \in Procs : Local(q)'
<1>1. PICK c \in RegistryCall : SetCall(p, c) /\ Moves(reg[p].call, c) BY RegistryMoves
<1>2. reg[p].call.pc # "free" /\ Running(p)
  BY DEF RegistryGet, RegistryCreate, RegistryUpdate, RegistryFails, Call
<1>3. CallStep(reg[p].call, c) BY <1>1, <1>2 DEF Moves, CallStep
<1>4. UNCHANGED <<scenario, proc, resolver, excluded, pipe, handler>>
  BY DEF RegistryGet, RegistryCreate, RegistryUpdate, RegistryFails
<1>5. QED BY <1>1, <1>2, <1>3, <1>4, LocalCall

\* The owner gives a dependency up: its job is killed.
LEMMA KilledInside ==
  ASSUME TypeOK, NEW q \in Procs, Local(q), NEW n \in Names, n # Root(q), Registered(q, n)
  PROVE  Inside(reg[q], excluded[q], [pipe[q] EXCEPT ![n] = [pipe[q][n] EXCEPT !.killed = TRUE]],
                [handler[q] EXCEPT ![n] = "main"], Root(q), DepsOf(q), scenario.tolerant)
<1> DEFINE o == pipe[q][n]
           r == [o EXCEPT !.killed = TRUE]
           P == [pipe[q] EXCEPT ![n] = r]
           H == [handler[q] EXCEPT ![n] = "main"]
<1>1. o \in Pipeline /\ PipeOK(o) /\ o.st # "none" BY LocalTended DEF Registered
<1>2. r \in Pipeline BY <1>1, PipelineTypes
<1>3. PipeOK(r) BY <1>1, <1>2 DEF PipeOK, Pipeline
<1>4. Aside(o, r) BY <1>1, <1>2, <1>3 DEF Aside, Pipeline
<1> HIDE DEF r
<1>5. Inside(reg[q], excluded[q], P, handler[q], Root(q), DepsOf(q), scenario.tolerant)
  BY <1>1, <1>4, AsideStep, InsideUpdate
<1>6. handler[q] \in [Names -> {"none", "main", "dev", "replied"}] BY DEF TypeOK
<1> HIDE DEF P
<1>7. Handled(H, P, Root(q))
  <2>1. Handled(handler[q], P, Root(q)) BY <1>5 DEF Inside
  <2>2. H[n] = "main" /\ \A k \in Names \ {n} : H[k] = handler[q][k] BY <1>6
  <2>3. QED BY <2>1, <2>2 DEF Handled
<1>8. Inside(reg[q], excluded[q], P, H, Root(q), DepsOf(q), scenario.tolerant) BY <1>5, <1>7 DEF Inside
<1>9. QED BY <1>8 DEF P, r

\* Exclude asks the owner to close the pipeline of another process.
LEMMA RegistryExcludeLocal ==
  ASSUME TypeOK, \A q \in Procs : Local(q), NEW p \in Procs, NEW n \in Names, RegistryExclude(p, n)
  PROVE  \A q \in Procs : Local(q)'
<1> DEFINE o == reg[p].call
           owner == o.copy.owner[n]
<1>1. Running(p) /\ Asks(p) /\ n \in o.left /\ owner \notin {None, p} /\ Running(owner)
  BY DEF RegistryExclude, Call, Asks
<1>2. o \in RegistryCall /\ o.left \subseteq Wanted(o.locks) /\ o.pc \in {"names", "excluding"} BY <1>1, CallLeft
<1>3. PICK q \in Procs \ {p} : q = owner BY <1>1, <1>2 DEF RegistryCall, ConfigMap
<1>4. UNCHANGED <<scenario, proc, resolver, excluded>> BY DEF RegistryExclude
<1>5. CASE UNCHANGED <<pipe, handler>> /\ (SetCall(p, Refuse(o, n, "InUseByOtherInstance")) \/ SetCall(p, TakeOver(o, p, n)))
  <2>1. TakeOver(o, p, n) \in RegistryCall /\ Takes(o, TakeOver(o, p, n), p, n) BY <1>2, CallTypes, TakesOver
  <2>2. "InUseByOtherInstance" \in Locks BY DEF Locks
  <2>3. /\ Refuse(o, n, "InUseByOtherInstance") \in RegistryCall
        /\ Finds(o, Refuse(o, n, "InUseByOtherInstance"), n, "InUseByOtherInstance")
    BY <1>2, <2>2, CallTypes, FindsInUse
  <2>4. PICK c \in RegistryCall :
            /\ SetCall(p, c)
            /\ Takes(o, c, p, n) \/ \E lock \in {"InUse", "InUseByOtherInstance"} : Finds(o, c, n, lock)
    BY <1>3, <1>5, <2>1, <2>3
  <2>5. CallStep(o, c) BY <1>1, <1>2, <2>4, NamesStep
  <2>6. QED BY <1>1, <1>4, <1>5, <2>4, <2>5, LocalCall
<1>6. CASE /\ n # Root(q) /\ Registered(q, n) /\ SetCall(p, [o EXCEPT !.pc = "excluding"])
           /\ Update(q, n, [pipe[q][n] EXCEPT !.killed = TRUE]) /\ handler' = [handler EXCEPT ![q][n] = "main"]
  <2> DEFINE c == [o EXCEPT !.pc = "excluding"]
  <2>1. c \in RegistryCall /\ CallStep(o, c) BY <1>2 DEF RegistryCall, CallStep
  <2>2. reg \in [Procs -> RegistryType] BY DEF TypeOK, RegistryType
  <2>3. reg'[p] = [reg[p] EXCEPT !.call = c] /\ \A k \in Procs \ {p} : reg'[k] = reg[k]
    BY <1>6, <2>2 DEF SetCall, RegistryType
  <2> HIDE DEF c
  <2>4. /\ handler \in [Procs -> [Names -> {"none", "main", "dev", "replied"}]]
        /\ pipe \in [Procs -> [Names -> Pipeline]]
    BY DEF TypeOK
  <2>5. /\ pipe'[q] = [pipe[q] EXCEPT ![n] = [pipe[q][n] EXCEPT !.killed = TRUE]]
        /\ handler'[q] = [handler[q] EXCEPT ![n] = "main"]
        /\ \A k \in Procs \ {q} : pipe'[k] = pipe[k] /\ handler'[k] = handler[k]
    BY <1>3, <1>6, <2>4 DEF Update
  <2>6. Local(p)'
    <3>1. Inside(reg[p], excluded[p], pipe[p], handler[p], Root(p), DepsOf(p), scenario.tolerant) BY DEF Local
    <3>2. Root(p) \in Names /\ reg[p] \in RegistryType BY RootType, ProcTypes
    <3>3. Inside(reg'[p], excluded[p], pipe[p], handler[p], Root(p), DepsOf(p), scenario.tolerant)
      BY <2>1, <2>3, <3>1, <3>2, InsideCall
    <3>4. Inside(reg'[p], excluded'[p], pipe'[p], handler'[p], Root(p), DepsOf(p), scenario.tolerant)
      BY <1>3, <1>4, <2>5, <3>3
    <3>5. QED BY <1>1, <1>4, <3>4, LocalNext
  <2>7. Local(q)'
    <3>1. Inside(reg[q], excluded[q], pipe'[q], handler'[q], Root(q), DepsOf(q), scenario.tolerant)
      BY <1>6, <2>5, KilledInside
    <3>2. Inside(reg'[q], excluded'[q], pipe'[q], handler'[q], Root(q), DepsOf(q), scenario.tolerant)
      BY <1>4, <2>3, <3>1
    <3>3. QED BY <1>1, <1>3, <1>4, <3>2, LocalNext
  <2>8. ASSUME NEW k \in Procs \ {p, q} PROVE Local(k)' BY <1>4, <2>3, <2>5, LocalFrame
  <2>9. QED BY <2>6, <2>7, <2>8
<1>7. QED BY <1>3, <1>5, <1>6 DEF RegistryExclude

-----------------------------------------------------------------------------
\* The root pipeline when it has been started.
Started == [NoPipeline EXCEPT !.st = "running", !.pc = "run_dependencies", !.starts = 1]

\* Nothing has been started, or the root only.
LEMMA FreshInside ==
  ASSUME NEW root \in Names, NEW P, NEW deps, NEW tolerant \in BOOLEAN,
         P \in [Names -> {NoPipeline, Started}], \A k \in Names \ {root} : P[k] = NoPipeline
  PROVE  Inside(NewRegistry(root), "no", P, [n \in Names |-> "none"], root, deps, tolerant)
<1> DEFINE R == NewRegistry(root)
<1>1. R.graph = NewGraph(root) /\ R.known = NoLocks /\ R.call = FreeCall BY DEF NewRegistry
<1>2. R.graph.nodes = {root} /\ R.graph.edges = {} BY <1>1 DEF NewGraph
<1>3. R.call.pc = "free" /\ R.call.by = None BY <1>1 DEF FreeCall
<1>4. /\ NoPipeline.st = "none" /\ NoPipeline.parent = None /\ NoPipeline.pc = "none" /\ NoPipeline.waits = {}
      /\ NoPipeline.launch = {} /\ NoPipeline.joining = {} /\ ~NoPipeline.killed /\ ~NoPipeline.group
      /\ NoPipeline.dev = "none" /\ NoPipeline.starts = 0
      /\ Started.st = "running" /\ Started.parent = None /\ Started.pc = "run_dependencies" /\ Started.waits = {}
      /\ Started.launch = {} /\ Started.joining = {} /\ ~Started.killed /\ ~Started.group
      /\ Started.dev = "none" /\ Started.starts = 1
  BY DEF NoPipeline, Started
<1>5. None \notin Names /\ None # "exclude" /\ "exclude" \notin Names BY PipelinesAssumption
<1> HIDE DEF R
<1>6. \A n \in Names : P[n] = NoPipeline \/ P[n] = Started OBVIOUS
<1>7. ASSUME NEW n \in Names PROVE PipeOK(P[n])
  <2>1. CASE P[n] = NoPipeline BY <1>4, <2>1 DEF PipeOK
  <2>2. CASE P[n] = Started BY <1>4, <2>2 DEF PipeOK
  <2>3. QED BY <1>6, <2>1, <2>2
<1>8. ASSUME NEW n \in Names
      PROVE  /\ P[n].st \in {"none", "running"} /\ P[n].pc \in {"none", "run_dependencies"} /\ P[n].waits = {}
             /\ P[n].launch = {} /\ P[n].joining = {} /\ P[n].parent = None /\ ~P[n].killed
             /\ n # root => P[n].st = "none"
  <2>1. CASE P[n] = NoPipeline BY <1>4, <2>1
  <2>2. CASE P[n] = Started
    <3>1. n = root BY <1>4, <2>2
    <3>2. QED BY <1>4, <2>2, <3>1
  <2>3. QED BY <1>6, <2>1, <2>2
<1>9. Tree(P, root) BY <1>8 DEF Tree, Alive
<1>10. Calls(R.call, "no", P, root) BY <1>3, <1>5, <1>8 DEF Calls
<1>11. Early("no", R.known, P, root) BY <1>1, <1>8 DEF Early
<1>12. KnownOK(R.known, P, root) BY <1>8 DEF KnownOK
<1>13. CallKnown(R.call, R.known, root) BY <1>3, <1>5 DEF CallKnown
<1>14. Edges(R.graph, P, root)
  <2>1. Rooted(R.graph, root) BY <1>2 DEF Rooted
  <2>2. ~Circular(R.graph.edges) BY <1>2 DEF Circular
  <2>3. QED BY <1>2, <1>8, <2>1, <2>2 DEF Edges
<1>15. Asked(R.call, R.graph, deps) BY <1>3, <1>5 DEF Asked
<1>16. Lost(P) BY <1>8 DEF Lost
<1>17. InTurn(R.known, R.graph, P, deps) BY <1>8 DEF InTurn, GoesOn
<1>18. Handled([n \in Names |-> "none"], P, root) BY DEF Handled
<1>19. QED BY <1>7, <1>9, <1>10, <1>11, <1>12, <1>13, <1>14, <1>15, <1>16, <1>17, <1>18 DEF Inside, R

\* A process before it runs and after it is gone.
LEMMA QuietNext ==
  ASSUME TypeOK, NEW p \in Procs, scenario' = scenario, ResolverOK(p)',
         reg'[p] = NewRegistry(Root(p)), excluded'[p] = "no", pipe'[p] = [n \in Names |-> NoPipeline],
         handler'[p] = [n \in Names |-> "none"]
  PROVE  Local(p)'
<1>1. Root(p)' = Root(p) /\ Root(p) \in Names /\ scenario.tolerant \in BOOLEAN BY RootType DEF Root
<1>2. Quiet(p)' BY <1>1 DEF Quiet
<1>3. pipe'[p] \in [Names -> {NoPipeline, Started}] /\ \A k \in Names \ {Root(p)} : pipe'[p][k] = NoPipeline OBVIOUS
<1>4. Inside(reg'[p], "no", pipe'[p], [n \in Names |-> "none"], Root(p), DepsOf(p)', scenario.tolerant)
  BY <1>1, <1>3, FreshInside
<1>5. Inside(reg'[p], excluded'[p], pipe'[p], handler'[p], Root(p)', DepsOf(p)', scenario'.tolerant) BY <1>1, <1>4
<1>6. QED BY <1>2, <1>5 DEF Local

\* A process starts and resolves its dependencies.
LEMMA ResolveLocal ==
  ASSUME TypeOK, \A q \in Procs : Local(q), NEW p \in Procs, Start(p) \/ Resolve(p) \/ ResolveFails(p)
  PROVE  \A q \in Procs : Local(q)'
<1>1. proc[p] \in {"idle", "resolving"} /\ UNCHANGED <<scenario, reg, excluded, pipe, handler>>
  BY DEF Start, Resolve, ResolveFails, Resolving
<1>2. Quiet(p) /\ ResolverOK(p) BY <1>1 DEF Local, Running
<1>3. proc'[p] \in {"resolving", "ended"} /\ \A q \in Procs \ {p} : proc'[q] = proc[q]
  BY <1>1 DEF Start, Resolve, ResolveFails, Resolving, TypeOK
<1>4. Root(p)' = Root(p) /\ WantedBelow' = WantedBelow BY <1>1 DEF Root, WantedBelow
<1>5. Resolved(resolver'[p], Root(p), WantedBelow, scenario.ignore) /\ \A q \in Procs \ {p} : resolver'[q] = resolver[q]
  <2>1. Resolved(resolver[p], Root(p), WantedBelow, scenario.ignore) BY <1>2 DEF ResolverOK
  <2>2. CASE resolver' = resolver BY <2>1, <2>2
  <2>3. CASE Resolve(p)
    <3> DEFINE w == resolver[p]
               v == IF More(w) THEN ResolveChild(w, WantedBelow, scenario.ignore) ELSE ResolveReturns(w)
    <3>1. w \in Resolver /\ w.path # <<>> /\ Root(p) \in Names /\ WantedBelow \in [Names -> SUBSET Names]
      BY <2>3, ProcTypes, RootType DEF Resolve, Resolving
    <3>2. More(w) => Resolved(ResolveChild(w, WantedBelow, scenario.ignore), Root(p), WantedBelow, scenario.ignore)
      BY <2>1, <3>1, ResolvedChild
    <3>3. ~More(w) => Resolved(ResolveReturns(w), Root(p), WantedBelow, scenario.ignore)
      BY <2>1, <3>1, ResolvedReturns
    <3>4. Resolved(v, Root(p), WantedBelow, scenario.ignore) BY <3>2, <3>3
    <3>5. resolver \in [Procs -> Resolver] /\ resolver' = [resolver EXCEPT ![p] = v] BY <2>3 DEF Resolve, TypeOK
    <3> HIDE DEF v
    <3>6. QED BY <3>4, <3>5
  <2>4. QED BY <2>2, <2>3 DEF Start, ResolveFails
<1>6. ResolverOK(p)' BY <1>1, <1>3, <1>4, <1>5 DEF ResolverOK, Running
<1>7. Local(p)' BY <1>1, <1>2, <1>6, QuietNext DEF Quiet
<1>8. ASSUME NEW q \in Procs \ {p} PROVE Local(q)' BY <1>1, <1>3, <1>5, LocalFrame
<1>9. QED BY <1>7, <1>8

\* The root pipeline is run.
LEMMA RunLocal ==
  ASSUME TypeOK, \A q \in Procs : Local(q), NEW p \in Procs, Run(p)
  PROVE  \A q \in Procs : Local(q)'
<1>1. /\ proc[p] = "resolving" /\ resolver[p].path = <<>> /\ Update(p, Root(p), Started)
      /\ UNCHANGED <<scenario, resolver, reg, excluded, handler>> /\ proc' = [proc EXCEPT ![p] = "running"]
  BY DEF Run, Resolving, Started
<1>2. Quiet(p) /\ ResolverOK(p) BY <1>1 DEF Local, Running
<1>3. Root(p) \in Names /\ scenario.tolerant \in BOOLEAN BY RootType
<1>4. Root(p)' = Root(p) /\ WantedBelow' = WantedBelow /\ DepsOf(p)' = DepsOf(p)
  BY <1>1 DEF Root, WantedBelow, DepsOf, Deps
<1>5. proc'[p] = "running" /\ \A q \in Procs \ {p} : proc'[q] = proc[q] BY <1>1 DEF TypeOK
<1>6. pipe \in [Procs -> [Names -> Pipeline]] BY DEF TypeOK
<1>7. pipe'[p] = [pipe[p] EXCEPT ![Root(p)] = Started] /\ \A q \in Procs \ {p} : pipe'[q] = pipe[q]
  BY <1>1, <1>6 DEF Update
<1>8. pipe'[p] \in [Names -> {NoPipeline, Started}] /\ \A k \in Names \ {Root(p)} : pipe'[p][k] = NoPipeline
  BY <1>2, <1>7 DEF Quiet
<1>9. Inside(NewRegistry(Root(p)), "no", pipe'[p], [n \in Names |-> "none"], Root(p), DepsOf(p), scenario.tolerant)
  BY <1>3, <1>8, FreshInside
<1>10. Inside(reg'[p], excluded'[p], pipe'[p], handler'[p], Root(p)', DepsOf(p)', scenario'.tolerant)
  BY <1>1, <1>2, <1>4, <1>9 DEF Quiet
<1>11. ResolverOK(p)' BY <1>1, <1>2, <1>4, <1>5 DEF ResolverOK
<1>12. Local(p)' BY <1>5, <1>10, <1>11 DEF Local, Running
<1>13. ASSUME NEW q \in Procs \ {p} PROVE Local(q)' BY <1>1, <1>5, <1>7, LocalFrame
<1>14. QED BY <1>12, <1>13

\* A process crashes or exits.
LEMMA GoneLocal ==
  ASSUME TypeOK, \A q \in Procs : Local(q), NEW p \in Procs, Crash(p) \/ Exit(p)
  PROVE  \A q \in Procs : Local(q)'
<1>1. PICK how \in {"crashed", "ended"} : Gone(p, how) BY DEF Crash, Exit
<1>2. UNCHANGED <<scenario, resolver>> BY DEF Crash, Exit
<1>3. /\ reg'[p] = NewRegistry(Root(p)) /\ excluded'[p] = "no" /\ pipe'[p] = [n \in Names |-> NoPipeline]
      /\ handler'[p] = [n \in Names |-> "none"] /\ proc'[p] = how
      /\ \A q \in Procs \ {p} : /\ reg'[q] = reg[q] /\ excluded'[q] = excluded[q] /\ pipe'[q] = pipe[q]
                                /\ handler'[q] = handler[q] /\ proc'[q] = proc[q]
  BY <1>1 DEF Gone, TypeOK
<1>4. Root(p)' = Root(p) /\ WantedBelow' = WantedBelow BY <1>2 DEF Root, WantedBelow
<1>5. ResolverOK(p)
  BY DEF Local
<1>6. ResolverOK(p)' BY <1>2, <1>3, <1>4, <1>5 DEF ResolverOK, Running
<1>7. Local(p)' BY <1>2, <1>3, <1>6, QuietNext
<1>8. ASSUME NEW q \in Procs \ {p} PROVE Local(q)' BY <1>2, <1>3, LocalFrame
<1>9. QED BY <1>7, <1>8

\* The initial states.
LEMMA InitLocal == ASSUME Init, NEW p \in Procs PROVE Local(p)
<1>1. TypeOK BY InitTypes
<1>2. Root(p) \in Names /\ scenario.tolerant \in BOOLEAN /\ WantedBelow \in [Names -> SUBSET Names] BY <1>1, RootType
<1>3. /\ proc[p] = "idle" /\ reg[p] = NewRegistry(Root(p)) /\ excluded[p] = "no"
      /\ pipe[p] = [n \in Names |-> NoPipeline] /\ handler[p] = [n \in Names |-> "none"]
      /\ resolver[p] = NewResolver(Root(p), WantedBelow[Root(p)])
  BY DEF Init
<1>4. Quiet(p) BY <1>3 DEF Quiet
<1>5. Resolved(resolver[p], Root(p), WantedBelow, scenario.ignore) BY <1>2, <1>3, ResolvedNew
<1>6. ResolverOK(p) BY <1>3, <1>5 DEF ResolverOK, Running
<1>7. pipe[p] \in [Names -> {NoPipeline, Started}] /\ \A k \in Names \ {Root(p)} : pipe[p][k] = NoPipeline BY <1>3
<1>8. Inside(NewRegistry(Root(p)), "no", pipe[p], [n \in Names |-> "none"], Root(p), DepsOf(p), scenario.tolerant)
  BY <1>2, <1>7, FreshInside
<1>9. QED BY <1>3, <1>4, <1>6, <1>8 DEF Local

-----------------------------------------------------------------------------
\* What a step of one pipeline keeps whatever the registry does.
LEMMA StepKeeps ==
  ASSUME NEW root \in Names, NEW R, NEW x, NEW P, NEW H, NEW deps, NEW tolerant, P \in [Names -> Pipeline],
         Inside(R, x, P, H, root, deps, tolerant),
         NEW n \in Names, NEW r, JobStep(P, root, n, r), NEW Q, Q = [P EXCEPT ![n] = r]
  PROVE  Tended(Q, root) /\ Follows(P, Q) /\ Lost(Q) /\ Handled(H, Q, root)
<1>1. Tended(P, root) /\ Lost(P) /\ Handled(H, P, root) BY DEF Inside, Tended
<1>2. Tended(Q, root) /\ Follows(P, Q) BY <1>1, TreeStep
<1>3. Lost(Q) BY <1>1, LostStep
<1>4. Handled(H, Q, root) BY <1>1, HandledStep
<1>5. QED BY <1>2, <1>3, <1>4

\* A step of one pipeline and of the registry.
LEMMA LocalBoth ==
  ASSUME TypeOK, \A q \in Procs : Local(q), NEW p \in Procs, Running(p), NEW n \in Names, NEW r, NEW S, NEW y,
         Inside(S, y, [pipe[p] EXCEPT ![n] = r], handler[p], Root(p), DepsOf(p), scenario.tolerant),
         Update(p, n, r), reg' = [reg EXCEPT ![p] = S], excluded' = [excluded EXCEPT ![p] = y],
         UNCHANGED <<scenario, proc, resolver, handler>>
  PROVE  \A q \in Procs : Local(q)'
<1>1. pipe \in [Procs -> [Names -> Pipeline]] BY DEF TypeOK
<1>2. pipe'[p] = [pipe[p] EXCEPT ![n] = r] /\ \A q \in Procs \ {p} : pipe'[q] = pipe[q] BY <1>1 DEF Update
<1>3. reg'[p] = S /\ excluded'[p] = y /\ \A q \in Procs \ {p} : reg'[q] = reg[q] /\ excluded'[q] = excluded[q]
  BY DEF TypeOK
<1>4. Inside(reg'[p], excluded'[p], pipe'[p], handler'[p], Root(p), DepsOf(p), scenario.tolerant) BY <1>2, <1>3
<1>5. Local(p)' BY <1>4, LocalNext
<1>6. ASSUME NEW q \in Procs \ {p} PROVE Local(q)' BY <1>2, <1>3, LocalFrame
<1>7. QED BY <1>5, <1>6

\* The registry when a call begins.
Begun(S, p, by, from, names) ==
    /\ reg' = [reg EXCEPT ![p] = S]
    /\ S.graph = (IF by = "exclude" THEN reg[p].graph ELSE Insert(reg[p].graph, from, names))
    /\ S.known = reg[p].known
    /\ S.call.by = by /\ S.call.locks = LocksOf(p, by, from, names)
    /\ S.call.pc = (IF Wanted(S.call.locks) = {} THEN "return" ELSE "get")
    /\ S.call.copy = NoConfigMap /\ S.call.failed = {}

\* What a call begins with.
LEMMA Begins ==
  ASSUME TypeOK, NEW p \in Procs, NEW by \in Names \cup {"exclude"}, NEW from \in Names, NEW names \in SUBSET Names,
         Begin(p, by, from, names)
  PROVE  \E S \in RegistryType : Begun(S, p, by, from, names)
<1> DEFINE locks == LocksOf(p, by, from, names)
           pc == IF Wanted(locks) = {} THEN "return" ELSE "get"
           call == [[FreeCall EXCEPT !.by = by, !.locks = locks, !.retries = MaxRetries] EXCEPT !.pc = pc]
           graph == IF by = "exclude" THEN reg[p].graph ELSE Insert(reg[p].graph, from, names)
           S == [reg[p] EXCEPT !.graph = graph, !.call = call]
<1>1. locks \in [Names -> Locks \cup {Absent}] BY LocksOfType
<1>2. FreeCall \in RegistryCall BY FreeTypes
<1>3. pc \in {"return", "get"} OBVIOUS
<1> HIDE DEF locks, pc
<1>4. call \in RegistryCall BY <1>1, <1>2, <1>3, PipelinesAssumption DEF RegistryCall
<1>5. graph \in Graph BY ProcTypes, GraphType
<1>6. call.by = by /\ call.locks = locks /\ call.pc = pc /\ call.copy = NoConfigMap /\ call.failed = {}
  BY DEF FreeCall
<1> HIDE DEF call, graph
<1>7. reg' = [reg EXCEPT ![p] = S] BY DEF Begin, locks, pc, call, graph, TypeOK
<1>8. S \in RegistryType BY <1>4, <1>5, ProcTypes DEF RegistryType
<1>9. S.graph = graph /\ S.known = reg[p].known /\ S.call = call BY ProcTypes DEF RegistryType
<1>10. Begun(S, p, by, from, names) BY <1>6, <1>7, <1>9 DEF Begun, locks, pc, graph
<1>11. QED BY <1>8, <1>10

\* run_dependencies: the lock types of the dependencies of a pipeline.
LEMMA LocksAsked ==
  ASSUME TypeOK, NEW p \in Procs, Local(p), NEW n \in Names, pipe[p][n].st = "running",
         pipe[p][n].pc = "run_dependencies",
         NEW names \in SUBSET Names, NEW d \in Names
  PROVE  LET lock == LocksOf(p, n, n, names)[d]
             known == reg[p].known
             h == Insert(reg[p].graph, n, names)
         IN /\ lock = Absent <=> d \notin names
            /\ lock = "Locked" => known[d] = Absent
            /\ lock = "InUseByOtherInstance" => known[d] # "InUse"
            /\ known[d] = "InUseByOtherInstance" => d = Root(p) \/ lock \in {Absent, "InUseByOtherInstance"}
            /\ lock \notin {Absent, "InUseCyclic"} => <<n, d>> \in h.edges
            /\ lock = "InUseCyclic" => <<n, d>> \notin h.edges
<1> DEFINE lock == LocksOf(p, n, n, names)[d]
           known == reg[p].known
           g == reg[p].graph
           h == Insert(g, n, names)
<1>1. known \in [Names -> (Locks \ {"Locked", "InUseCyclic"}) \cup {Absent}] BY ProcTypes DEF RegistryType
<1>2. n # "exclude" BY PipelinesAssumption
<1>3. lock = IF d \in names THEN LockType(p, n, d) ELSE Absent BY <1>2 DEF LocksOf
<1>4. LockType(p, n, d) = IF Cyclic(g, n, d) THEN "InUseCyclic" ELSE IF known[d] = Absent THEN "Locked" ELSE known[d]
  BY DEF LockType, LockKnown
<1>5. h.edges = g.edges \cup {<<n, m>> : m \in {k \in names : ~Cyclic(g, n, k)}} BY DEF Insert
<1>6. Edges(g, pipe[p], Root(p)) /\ KnownOK(known, pipe[p], Root(p)) BY DEF Local, Inside
<1>7. <<n, d>> \notin g.edges BY <1>6 DEF Edges
<1>8. known[d] = "InUseByOtherInstance" /\ Cyclic(g, n, d) => d = Root(p)
  <2> SUFFICES ASSUME known[d] = "InUseByOtherInstance", Cyclic(g, n, d), d # Root(p) PROVE FALSE OBVIOUS
  <2>1. pipe[p][d].st = "none" BY <1>6 DEF KnownOK
  <2>2. d \in g.nodes /\ HasPath(g, d, n) BY DEF Cyclic
  <2>3. Closed(g, {d})
    <3>1. g.nodes \subseteq Names BY ProcTypes DEF Graph
    <3>2. \A m \in Names : <<d, m>> \notin g.edges BY <1>6, <2>1 DEF Edges
    <3>3. QED BY <3>1, <3>2 DEF Closed
  <2>4. n \in {d} BY <2>2, <2>3 DEF HasPath
  <2>5. QED BY <2>1, <2>4
<1> HIDE DEF h, g, lock, known
<1>9. lock = Absent <=> d \notin names BY <1>1, <1>3, <1>4 DEF Locks, Absent
<1>10. /\ lock = "Locked" => known[d] = Absent
       /\ lock = "InUseByOtherInstance" => known[d] # "InUse"
  BY <1>1, <1>3, <1>4 DEF Locks, Absent
<1>11. known[d] = "InUseByOtherInstance" => d = Root(p) \/ lock \in {Absent, "InUseByOtherInstance"}
  BY <1>3, <1>4, <1>8 DEF Absent
<1>12. lock \notin {Absent, "InUseCyclic"} => <<n, d>> \in h.edges BY <1>3, <1>4, <1>5
<1>13. lock = "InUseCyclic" => <<n, d>> \notin h.edges BY <1>1, <1>3, <1>4, <1>5, <1>7 DEF Locks, Absent
<1>14. QED BY <1>9, <1>10, <1>11, <1>12, <1>13 DEF h, g, lock, known

\* run_dependencies begins a call.
LEMMA RunDependenciesLocal ==
  ASSUME TypeOK, \A q \in Procs : Local(q), NEW p \in Procs, NEW n \in Names, RunDependencies(p, n)
  PROVE  \A q \in Procs : Local(q)'
<1> DEFINE o == pipe[p][n]
           P == pipe[p]
           R == reg[p]
           x == excluded[p]
           root == Root(p)
           deps == DepsOf(p)
           tolerant == scenario.tolerant
<1>1. o \in Pipeline /\ PipeOK(o) /\ o.st = "running" /\ o.pc = "run_dependencies" /\ Running(p)
  BY LocalTended DEF RunDependencies, AtCommand
<1>2. ~o.group /\ o.joining = {} /\ o.waits = {} /\ o.launch = {} BY <1>1 DEF PipeOK
<1>3. x \in {"yes", "refused"} BY DEF RunDependencies, MayRun
<1>4. UNCHANGED <<scenario, proc, resolver, excluded, handler>> BY DEF RunDependencies
<1>5. deps[n] = Deps(p, n) /\ deps \in [Names -> SUBSET Names] BY ProcTypes DEF DepsOf
<1>6. CASE Deps(p, n) = {}
  <2>1. Update(p, n, Succeeded(o)) /\ UNCHANGED reg BY <1>6 DEF RunDependencies
  <2>2. Advances(o, Succeeded(o)) BY <1>1, <1>2, CommandEnds, RootType
  <2>3. /\ JobStep(pipe[p], Root(p), n, Succeeded(o))
        /\ Plain(reg[p], excluded[p], pipe[p], Root(p), n, Succeeded(o), DepsOf(p), scenario.tolerant)
    BY <1>1, <1>2, <1>3, <1>5, <1>6, <2>2, AdvancePlain
  <2>4. QED BY <1>1, <1>4, <2>1, <2>3, LocalUpdate
<1>7. CASE Deps(p, n) # {}
  <2> DEFINE r == [o EXCEPT !.pc = "locking"]
             Q == [P EXCEPT ![n] = r]
             g == R.graph
             h == Insert(g, n, deps[n])
             locks == LocksOf(p, n, n, deps[n])
  <2>1. Begin(p, n, n, deps[n]) /\ Update(p, n, r) BY <1>5, <1>7 DEF RunDependencies
  <2>2. n # "exclude" /\ n # None /\ None \notin Names BY PipelinesAssumption
  <2>3. PICK S \in RegistryType : Begun(S, p, n, n, deps[n]) BY <1>5, <2>1, Begins
  <2>4. /\ reg' = [reg EXCEPT ![p] = S] /\ S.graph = h /\ S.known = R.known
        /\ S.call.by = n /\ S.call.locks = locks /\ S.call.pc \in {"return", "get"}
    BY <2>2, <2>3 DEF Begun
  <2>5. \A d \in Names :
            /\ locks[d] = Absent <=> d \notin deps[n]
            /\ locks[d] = "Locked" => R.known[d] = Absent
            /\ locks[d] = "InUseByOtherInstance" => R.known[d] # "InUse"
            /\ R.known[d] = "InUseByOtherInstance" => d = root \/ locks[d] \in {Absent, "InUseByOtherInstance"}
            /\ locks[d] \notin {Absent, "InUseCyclic"} => <<n, d>> \in h.edges
            /\ locks[d] = "InUseCyclic" => <<n, d>> \notin h.edges
    BY <1>1, <1>5, LocksAsked
  <2>6. R.call.pc = "free" BY <2>1 DEF Begin
  <2>7. /\ P \in [Names -> Pipeline] /\ root \in Names /\ g \in Graph /\ tolerant \in BOOLEAN BY ProcTypes, RootType
  <2>8. Inside(R, x, P, handler[p], root, deps, tolerant) BY DEF Local
  <2>9. /\ r.st = "running" /\ r.pc = "locking" /\ r.waits = {} /\ r.launch = {} /\ r.joining = {} /\ ~r.group
        /\ r.parent = o.parent /\ r.killed = o.killed /\ r.failed = o.failed /\ r.dev = o.dev /\ r.starts = o.starts
        /\ r \in Pipeline
    BY <1>1, <1>2 DEF Pipeline
  <2> HIDE DEF P, R, x, root, deps, tolerant, r, h, g, locks, Q
  <2>10. /\ Tended(P, root) /\ Calls(R.call, x, P, root) /\ Early(x, R.known, P, root) /\ KnownOK(R.known, P, root)
        /\ Edges(g, P, root) /\ (tolerant \/ InTurn(R.known, g, P, deps))
    BY <2>7, <2>8 DEF Inside, Tended, g
  <2>11. PipeOK(r) BY <1>1, <2>9 DEF PipeOK
  <2>12. JobStep(P, root, n, r)
    <3>1. P[n] = o /\ (n = root => ~o.killed) BY <2>10 DEF Tended, Tree, P
    <3>2. QED BY <1>1, <1>2, <2>9, <2>11, <3>1 DEF JobStep, Alive
  <2>13. Q[n] = r /\ (\A k \in Names \ {n} : Q[k] = P[k]) /\ P[n] = o BY <2>7 DEF Q, P
  <2>14. Tended(Q, root) /\ Follows(P, Q) BY <2>7, <2>10, <2>12, TreeStep DEF Q
  <2>15. Calls(S.call, x, Q, root)
    <3>1. R.call.by = None /\ \A k \in Names : P[k].pc # "locking" BY <2>2, <2>6, <2>10 DEF Calls
    <3>2. \A k \in Names : Q[k].pc = "locking" <=> S.call.by = k BY <2>4, <2>9, <2>13, <3>1
    <3>3. QED BY <1>3, <2>2, <2>4, <3>2 DEF Calls, x
  <2>16. Early(x, S.known, Q, root) BY <1>3, <2>4, <2>10 DEF Early, x
  <2>17. KnownOK(S.known, Q, root) BY <2>4, <2>7, <2>9, <2>10, <2>12, KnownStep DEF Q
  <2>18. CallKnown(S.call, S.known, root) BY <2>2, <2>4, <2>5 DEF CallKnown
  <2>19. /\ h.nodes = g.nodes \cup deps[n] /\ g.edges \subseteq h.edges
         /\ \A k, d \in Names : k # n => (<<k, d>> \in h.edges <=> <<k, d>> \in g.edges)
    BY DEF h, Insert
  <2>20. n \in g.nodes /\ g.edges \subseteq g.nodes \X g.nodes /\ Rooted(g, root) /\ ~Circular(g.edges)
    BY <1>1, <2>10 DEF Edges, Rooted, P
  <2>21. Rooted(h, root) BY <1>5, <2>7, <2>20, RootedInsert DEF h, deps
  <2>22. Edges(h, Q, root)
    <3>1. ~Circular(h.edges) BY <1>5, <2>7, <2>20, InsertNotCircular DEF h, deps
    <3>2. \A k \in Names : Q[k].st # "none" => k \in h.nodes
      <4>1. \A k \in Names : P[k].st # "none" => k \in g.nodes BY <2>10 DEF Edges
      <4>2. QED BY <2>13, <2>19, <2>20, <4>1
    <3>3. ASSUME NEW k \in Names, NEW d \in Names, <<k, d>> \in h.edges
          PROVE  Q[k].st \in {"running", "dead"} /\ Q[k].pc # "run_dependencies"
      <4>1. CASE k = n BY <2>9, <2>13, <4>1
      <4>2. CASE k # n
        <5>1. <<k, d>> \in g.edges BY <2>19, <3>3, <4>2
        <5>2. QED BY <2>10, <2>13, <4>2, <5>1 DEF Edges
      <4>3. QED BY <4>1, <4>2
    <3>4. ASSUME NEW k \in Names, NEW d \in Q[k].waits \cup Q[k].launch \cup Q[k].joining PROVE <<k, d>> \in h.edges
      <4>1. k # n BY <2>9, <2>13, <3>4
      <4>2. <<k, d>> \in g.edges BY <2>10, <2>13, <3>4, <4>1 DEF Edges
      <4>3. QED BY <2>19, <4>2
    <3>5. QED BY <2>21, <3>1, <3>2, <3>3, <3>4 DEF Edges
  <2>23. Asked(S.call, h, deps) BY <2>4, <2>5 DEF Asked
  <2>24. tolerant \/ InTurn(S.known, h, Q, deps)
    <3> SUFFICES ASSUME ~tolerant PROVE InTurn(R.known, h, Q, deps) BY <2>4
    <3>1. ~GoesOn(P, n) /\ ~GoesOn(Q, n) BY <1>1, <2>9, <2>13 DEF GoesOn
    <3>2. deps \in [Names -> SUBSET Names] BY <1>5 DEF deps
    <3>3. InTurn(R.known, h, P, deps)
      <4>1. InTurn(R.known, g, P, deps) BY <2>10
      <4>2. QED BY <2>19, <3>1, <3>2, <4>1 DEF InTurn
    <3>4. QED BY <2>10, <2>12, <2>21, <3>1, <3>2, <3>3, InTurnStep, <2>7 DEF Q
  <2>25. Inside(S, x, Q, handler[p], root, deps, tolerant)
    <3>1. Edges(S.graph, Q, root) /\ Asked(S.call, S.graph, deps) /\ (tolerant \/ InTurn(S.known, S.graph, Q, deps))
      BY <2>4, <2>22, <2>23, <2>24
    <3>2. Tended(Q, root) /\ Lost(Q) /\ Handled(handler[p], Q, root) BY <2>7, <2>8, <2>12, StepKeeps DEF Q
    <3>3. QED BY <2>15, <2>16, <2>17, <2>18, <3>1, <3>2 DEF Inside, Tended
  <2>26. excluded' = [excluded EXCEPT ![p] = x] BY <1>4 DEF TypeOK, x
  <2>27. QED BY <1>1, <1>4, <2>1, <2>4, <2>25, <2>26, LocalBoth DEF P, R, x, root, deps, tolerant, r, Q
<1>8. QED BY <1>6, <1>7

\* What the registry remembers when a call of a pipeline returns.
LEMMA Remembers ==
  ASSUME TypeOK, NEW p \in Procs, Local(p), NEW n \in Names, reg[p].call.by = n, NEW d \in Names
  PROVE  LET now == Remember(p, reg[p].call.locks)[d]
             known == reg[p].known[d]
             lock == reg[p].call.locks[d]
         IN /\ known # Absent => now # Absent
            /\ known = "InUse" => now = "InUse"
            /\ d # Root(p) /\ known = "InUseByOtherInstance" => now = "InUseByOtherInstance"
            /\ lock = "Locked" => now = "InUse" /\ known = Absent
            /\ lock = "InUseByOtherInstance" => now = "InUseByOtherInstance"
<1> DEFINE now == Remember(p, reg[p].call.locks)[d]
           known == reg[p].known[d]
           lock == reg[p].call.locks[d]
<1>1. now = IF lock = Absent THEN known ELSE IF lock \in {"Locked", "InUseCyclic"} THEN "InUse" ELSE lock
  BY DEF Remember
<1>2. /\ lock = "Locked" => known = Absent
      /\ lock = "InUseByOtherInstance" => known # "InUse"
      /\ known = "InUseByOtherInstance" => d = Root(p) \/ lock \in {Absent, "InUseByOtherInstance"}
  BY DEF Local, Inside, CallKnown
<1>3. lock \in Locks \cup {Absent} /\ known \in (Locks \ {"Locked", "InUseCyclic"}) \cup {Absent}
  BY ProcTypes DEF RegistryType, RegistryCall
<1> HIDE DEF now, known, lock
<1>4. QED BY <1>1, <1>2, <1>3 DEF Locks, Absent, now, known, lock

\* The call of run_dependencies returns.
LEMMA DependenciesLockedLocal ==
  ASSUME TypeOK, \A q \in Procs : Local(q), NEW p \in Procs, NEW n \in Names, DependenciesLocked(p, n)
  PROVE  \A q \in Procs : Local(q)'
<1> DEFINE P == pipe[p]
           o == P[n]
           R == reg[p]
           call == R.call
           x == excluded[p]
           root == Root(p)
           deps == DepsOf(p)
           tolerant == scenario.tolerant
           g == R.graph
           known == IF call.pc = "error" THEN R.known ELSE Remember(p, call.locks)
           waiting == [o EXCEPT !.pc = "waiting", !.waits = {d \in Names : call.locks[d] = "InUse"},
                                !.launch = Wanted(call.locks)]
           r == IF call.pc = "error" THEN Failed(o) ELSE waiting
           Q == [P EXCEPT ![n] = r]
           S == [R EXCEPT !.call = FreeCall, !.known = known]
<1>1. /\ o \in Pipeline /\ PipeOK(o) /\ o.st = "running" /\ o.pc = "locking" /\ Running(p)
      /\ call.by = n /\ call.pc \in {"return", "error"}
  BY LocalTended DEF DependenciesLocked, AtCommand
<1>2. ~o.group /\ o.joining = {} /\ o.waits = {} /\ o.launch = {} BY <1>1 DEF PipeOK
<1>3. x \notin {"no", "pending", "error"} BY <1>1, RootOnly
<1>4. UNCHANGED <<scenario, proc, resolver, excluded, handler>> /\ Update(p, n, r) BY DEF DependenciesLocked
<1>5. reg' = [reg EXCEPT ![p] = S]
  <2>1. reg \in [Procs -> RegistryType] BY DEF TypeOK, RegistryType
  <2>2. reg' = [reg EXCEPT ![p] = [reg[p] EXCEPT !.call = FreeCall, !.known = known]]
    BY <2>1 DEF DependenciesLocked, RegistryType
  <2>3. QED BY <2>2
<1>6. S.graph = g /\ S.known = known /\ S.call = FreeCall
  <2>1. R \in RegistryType BY ProcTypes
  <2> HIDE DEF R, known, g
  <2>2. QED BY <2>1 DEF RegistryType, g
<1>7. /\ P \in [Names -> Pipeline] /\ root \in Names /\ tolerant \in BOOLEAN /\ deps \in [Names -> SUBSET Names]
      /\ None \notin Names /\ None # "exclude"
  BY ProcTypes, RootType, PipelinesAssumption
<1>8. Inside(R, x, P, handler[p], root, deps, tolerant) BY DEF Local
<1>9. FreeCall.pc = "free" /\ FreeCall.by = None BY DEF FreeCall
<1>10. \A d \in Names :
         /\ R.known[d] # Absent => known[d] # Absent
         /\ R.known[d] = "InUse" => known[d] = "InUse"
         /\ d # root /\ R.known[d] = "InUseByOtherInstance" => known[d] = "InUseByOtherInstance"
         /\ call.pc = "return" /\ call.locks[d] = "Locked" => known[d] = "InUse" /\ R.known[d] = Absent
         /\ call.pc = "return" /\ call.locks[d] = "InUseByOtherInstance" => known[d] = "InUseByOtherInstance"
  BY <1>1, Remembers
<1>11. /\ r \in Pipeline /\ r.joining = {} /\ ~r.group /\ r.parent = o.parent /\ r.killed = o.killed /\ r.starts = o.starts
       /\ r.st \in {"running", "dead"} /\ (r.st = "running" <=> r.pc # "end") /\ r.pc \notin {"none", "locking", "run_dependencies"}
       /\ IF call.pc = "error"
          THEN r.waits = {} /\ r.launch = {} /\ (tolerant \/ r.pc = "end") /\ r.pc # "waiting" /\ r.pc # "joining"
          ELSE r.waits = {d \in Names : call.locks[d] = "InUse"} /\ r.launch = Wanted(call.locks) /\ r.pc = "waiting"
  <2>1. CASE call.pc = "error"
    <3>1. r = Failed(o) BY <2>1
    <3>2. Advances(o, r) /\ (tolerant \/ r.pc = "end") BY <1>1, <1>2, <3>1, CommandEnds, RootType
    <3>3. QED BY <2>1, <3>2 DEF Advances
  <2>2. CASE call.pc # "error"
    <3>1. r = waiting BY <2>2
    <3>2. Wanted(call.locks) \in SUBSET Names BY DEF Wanted
    <3>3. QED BY <1>1, <1>2, <2>2, <3>1, <3>2 DEF Pipeline
  <2>3. QED BY <2>1, <2>2
<1> HIDE DEF P, R, x, root, deps, tolerant, r, g, Q, S, call, known
<1>12. /\ Tended(P, root) /\ Calls(call, x, P, root) /\ Early(x, R.known, P, root) /\ KnownOK(R.known, P, root)
       /\ Edges(g, P, root) /\ Asked(call, g, deps) /\ (tolerant \/ InTurn(R.known, g, P, deps))
  BY <1>7, <1>8 DEF Inside, Tended, call, g
<1>13. PipeOK(r) 
  <2>1. CASE call.pc = "error"
    <3>1. r = Failed(o) BY <2>1 DEF r
    <3>2. Advances(o, r) BY <1>1, <1>2, <3>1, CommandEnds, RootType DEF P
    <3>3. JobStep(P, root, n, r) BY <1>1, <1>2, <1>7, <1>12, <3>2, AdvanceStep
    <3>4. QED BY <3>3 DEF JobStep
  <2>2. CASE call.pc # "error"
    <3>1. r.pc = "waiting" /\ r.st = "running" BY <1>11, <2>2
    <3>2. r.starts <= 1 BY <1>1, <1>11 DEF PipeOK
    <3>3. QED BY <1>11, <3>1, <3>2 DEF PipeOK
  <2>3. QED BY <2>1, <2>2
<1>14. x \in {"yes", "refused"} BY <1>3 DEF x, TypeOK
<1>15. ASSUME NEW d \in r.launch
       PROVE  /\ d \in Names /\ call.pc = "return" /\ call.locks[d] = "Locked" /\ d # root /\ P[d].st = "none"
              /\ known[d] = "InUse" /\ \A m \in Names : d \notin P[m].launch
  <2>1. d \in Names /\ call.pc = "return" /\ call.locks[d] = "Locked" BY <1>1, <1>11, <1>15 DEF Wanted, call
  <2>2. R.known[d] = Absent /\ known[d] = "InUse" BY <1>10, <2>1
  <2>3. R.known[root] # Absent BY <1>3, <1>12, <1>14 DEF Early
  <2>4. QED BY <1>12, <2>1, <2>2, <2>3 DEF KnownOK, Absent
<1>16. JobStep(P, root, n, r)
  <2>1. n = root => ~o.killed BY <1>12 DEF Tended, Tree
  <2>2. QED BY <1>1, <1>2, <1>11, <1>13, <1>15, <2>1 DEF JobStep, Alive
<1>17. Q[n] = r /\ (\A k \in Names \ {n} : Q[k] = P[k]) BY <1>7 DEF Q
<1>18. Tended(Q, root) /\ Follows(P, Q) /\ Lost(Q) /\ Handled(handler[p], Q, root) BY <1>7, <1>8, <1>16, StepKeeps DEF Q
<1>19. Calls(S.call, x, Q, root)
  <2>1. \A k \in Names : Q[k].pc # "locking"
    <3>1. \A k \in Names \ {n} : P[k].pc # "locking" BY <1>1, <1>12 DEF Calls, call
    <3>2. QED BY <1>11, <1>17, <3>1
  <2>2. QED BY <1>3, <1>6, <1>7, <1>9, <2>1 DEF Calls
<1>20. Early(x, S.known, Q, root) BY <1>3, <1>6, <1>7, <1>10, <1>12 DEF Early
<1>21. KnownOK(S.known, Q, root)
  <2>1. \A d \in Names : R.known[d] = "InUse" => known[d] = "InUse" BY <1>10
  <2>2. \A d \in r.launch \ P[n].launch : known[d] = "InUse" BY <1>15
  <2>3. KnownOK(known, Q, root) BY <1>7, <1>12, <1>16, <2>1, <2>2, KnownStep DEF Q
  <2>4. QED BY <1>6, <2>3
<1>22. CallKnown(S.call, S.known, root) BY <1>6, <1>7, <1>9 DEF CallKnown
<1>23. Asked(S.call, S.graph, deps) BY <1>6, <1>7, <1>9 DEF Asked
<1>24. \A d \in Names : /\ call.locks[d] = Absent <=> d \notin deps[n]
                        /\ call.locks[d] \notin {Absent, "InUseCyclic"} => <<n, d>> \in g.edges
                        /\ call.locks[d] = "InUseCyclic" => <<n, d>> \notin g.edges
  BY <1>1, <1>12 DEF Asked, call
<1>25. Edges(S.graph, Q, root)
  <2>1. \A d \in r.waits \cup r.launch \cup r.joining : <<n, d>> \in g.edges
    BY <1>11, <1>24 DEF Absent, Wanted
  <2>2. Edges(g, Q, root) BY <1>7, <1>12, <1>16, <2>1, EdgesStep DEF Q
  <2>3. QED BY <1>6, <2>2
<1>26. tolerant \/ InTurn(S.known, S.graph, Q, deps)
  <2> SUFFICES ASSUME ~tolerant PROVE InTurn(known, g, Q, deps) BY <1>6
  <2>1. Rooted(g, root) BY <1>12 DEF Edges
  <2>2. \A d \in Names \ {root} : R.known[d] = "InUseByOtherInstance" => known[d] = "InUseByOtherInstance" BY <1>10
  <2>3. ASSUME GoesOn(Q, n), NEW d \in deps[n]
        PROVE  \/ P[d].st = "dead"
               \/ known[d] = "InUseByOtherInstance"
               \/ <<n, d>> \notin g.edges
               \/ d \in r.waits \cup r.launch \cup r.joining
    <3>1. d \in Names /\ r.pc # "end" BY <1>7, <1>17, <2>3 DEF GoesOn
    <3>2. call.pc = "return" BY <1>1, <1>11, <3>1 DEF call
    <3>3. call.locks[d] \in Locks /\ call.locks[d] # Absent
      <4>1. call.locks[d] \in Locks \cup {Absent} BY <3>1, ProcTypes DEF call, R, RegistryCall
      <4>2. QED BY <1>24, <2>3, <3>1, <4>1
    <3>4. QED BY <1>10, <1>11, <1>24, <3>1, <3>2, <3>3 DEF Locks, Wanted
  <2>4. InTurn(R.known, g, P, deps) BY <1>12
  <2>5. QED BY <1>7, <1>12, <1>16, <2>1, <2>2, <2>3, <2>4, InTurnStep DEF Q
<1>27. Inside(S, x, Q, handler[p], root, deps, tolerant)
  BY <1>18, <1>19, <1>20, <1>21, <1>22, <1>23, <1>25, <1>26 DEF Inside, Tended
<1>28. excluded' = [excluded EXCEPT ![p] = x] BY <1>4 DEF TypeOK, x
<1>29. QED BY <1>1, <1>4, <1>5, <1>27, <1>28, LocalBoth DEF P, root, deps, tolerant, Q

\* Exclude begins a call.
LEMMA ExcludeLocal ==
  ASSUME TypeOK, \A q \in Procs : Local(q), NEW p \in Procs, Exclude(p)
  PROVE  \A q \in Procs : Local(q)'
<1> DEFINE P == pipe[p]
           R == reg[p]
           root == Root(p)
           deps == DepsOf(p)
           tolerant == scenario.tolerant
<1>1. /\ Running(p) /\ P[root].pc = "run_dependencies" /\ excluded[p] = "no" /\ Begin(p, "exclude", root, {})
      /\ excluded' = [excluded EXCEPT ![p] = "pending"] /\ UNCHANGED <<scenario, proc, resolver, pipe, handler>>
  BY DEF Exclude, AtCommand
<1>2. root \in Names /\ P \in [Names -> Pipeline] /\ tolerant \in BOOLEAN BY ProcTypes, RootType
<1>3. Inside(R, "no", P, handler[p], root, deps, tolerant) BY <1>1 DEF Local
<1>4. None # "exclude" /\ "exclude" \notin Names BY PipelinesAssumption
<1>5. PICK S \in RegistryType : Begun(S, p, "exclude", root, {}) BY <1>1, <1>2, Begins
<1>6. /\ reg' = [reg EXCEPT ![p] = S] /\ S.graph = R.graph /\ S.known = R.known
      /\ S.call.by = "exclude" /\ S.call.locks = LocksOf(p, "exclude", root, {})
      /\ S.call.pc = (IF Wanted(S.call.locks) = {} THEN "return" ELSE "get")
  BY <1>5 DEF Begun
<1>7. R.known = NoLocks BY <1>3 DEF Inside, Early
<1>8. S.call.locks = [NoLocks EXCEPT ![root] = "Locked"]
  <2>1. LockKnown(p, root) = "Locked" BY <1>2, <1>7 DEF LockKnown, NoLocks, Absent
  <2>2. QED BY <1>6, <2>1 DEF LocksOf
<1>9. \A k \in Names : S.call.locks[k] # Absent <=> k = root BY <1>2, <1>8 DEF NoLocks, Absent
<1>10. R.call.by = None BY <1>1, <1>3 DEF Begin, Inside, Calls
<1>11. pipe' = pipe BY <1>1
<1> HIDE DEF P, R, root, deps, tolerant
<1>12. /\ Calls(R.call, "no", P, root) /\ Early("no", R.known, P, root) /\ KnownOK(R.known, P, root)
       /\ Edges(R.graph, P, root) /\ (tolerant \/ InTurn(R.known, R.graph, P, deps))
       /\ Tended(P, root) /\ Lost(P) /\ Handled(handler[p], P, root)
  BY <1>2, <1>3 DEF Inside, Tended
<1>13. Calls(S.call, "pending", P, root)
  <2>1. \A k \in Names : P[k].pc # "locking" BY <1>10, <1>12, PipelinesAssumption DEF Calls
  <2>2. QED BY <1>1, <1>4, <1>6, <2>1 DEF Calls
<1>14. Early("pending", S.known, P, root) BY <1>6, <1>12 DEF Early
<1>15. CallKnown(S.call, S.known, root) BY <1>4, <1>6, <1>9 DEF CallKnown
<1>16. Asked(S.call, S.graph, deps) BY <1>4, <1>6 DEF Asked
<1>17. KnownOK(S.known, P, root) /\ Edges(S.graph, P, root) /\ (tolerant \/ InTurn(S.known, S.graph, P, deps))
  BY <1>6, <1>12
<1>18. Inside(S, "pending", P, handler[p], root, deps, tolerant)
  BY <1>12, <1>13, <1>14, <1>15, <1>16, <1>17 DEF Inside, Tended
<1>19. Update(p, root, P[root])
  <2>1. pipe \in [Procs -> [Names -> Pipeline]] BY DEF TypeOK
  <2>2. QED BY <1>2, <1>11, <2>1 DEF Update, P
<1>20. [P EXCEPT ![root] = P[root]] = P BY <1>2
<1>21. Inside(S, "pending", [P EXCEPT ![root] = P[root]], handler[p], root, deps, tolerant) BY <1>18, <1>20
<1>22. QED BY <1>1, <1>2, <1>6, <1>19, <1>21, LocalBoth DEF P, root, deps, tolerant

\* The call of Exclude returns.
LEMMA ExcludeReturnsLocal ==
  ASSUME TypeOK, \A q \in Procs : Local(q), NEW p \in Procs, ExcludeReturns(p)
  PROVE  \A q \in Procs : Local(q)'
<1> DEFINE P == pipe[p]
           R == reg[p]
           call == R.call
           root == Root(p)
           deps == DepsOf(p)
           tolerant == scenario.tolerant
           g == R.graph
           known == IF call.pc = "error" THEN R.known ELSE Remember(p, call.locks)
           o == P[root]
           refused == call.pc = "return" /\ ~Admitted(call.locks[root])
           r == IF refused THEN Failed(o) ELSE o
           y == IF call.pc = "error" THEN "error" ELSE IF refused THEN "refused" ELSE "yes"
           Q == [P EXCEPT ![root] = r]
           S == [R EXCEPT !.call = FreeCall, !.known = known]
<1>1. Running(p) /\ call.by = "exclude" /\ call.pc \in {"return", "error"} BY DEF ExcludeReturns
<1>2. /\ P \in [Names -> Pipeline] /\ root \in Names /\ tolerant \in BOOLEAN /\ deps \in [Names -> SUBSET Names]
      /\ None \notin Names /\ None # "exclude" /\ "exclude" \notin Names
  BY ProcTypes, RootType, PipelinesAssumption
<1>3. UNCHANGED <<scenario, proc, resolver, handler>> /\ Update(p, root, r) /\ excluded' = [excluded EXCEPT ![p] = y]
  BY DEF ExcludeReturns
<1>4. reg' = [reg EXCEPT ![p] = S]
  <2>1. reg \in [Procs -> RegistryType] BY DEF TypeOK, RegistryType
  <2>2. reg' = [reg EXCEPT ![p] = [reg[p] EXCEPT !.call = FreeCall, !.known = known]]
    BY <2>1 DEF ExcludeReturns, RegistryType
  <2>3. QED BY <2>2
<1>5. S.graph = g /\ S.known = known /\ S.call = FreeCall
  <2>1. R \in RegistryType BY ProcTypes
  <2> HIDE DEF R, known, g
  <2>2. QED BY <2>1 DEF RegistryType, g
<1>6. FreeCall.pc = "free" /\ FreeCall.by = None BY DEF FreeCall
<1>7. excluded[p] = "pending" /\ o.pc = "run_dependencies" BY <1>1 DEF Local, Inside, Calls
<1>8. Inside(R, "pending", P, handler[p], root, deps, tolerant) BY <1>7 DEF Local
<1>9. /\ o \in Pipeline /\ PipeOK(o) /\ o.st = "running" /\ ~o.group /\ o.joining = {} /\ o.waits = {} /\ o.launch = {}
  <2>1. o \in Pipeline /\ PipeOK(o) BY <1>2, LocalTended
  <2>2. QED BY <1>7, <2>1 DEF PipeOK
<1>10. JobStep(P, root, root, r) /\ (tolerant \/ r.pc \in {"end", "run_dependencies"})
       /\ r.pc \notin {"locking", "waiting", "joining"} /\ (r = o \/ y = "refused")
       /\ r.waits = {} /\ r.launch = {} /\ r.joining = {}
  <2>1. Tended(P, root) BY LocalTended
  <2>2. CASE refused
    <3>1. r = Failed(o) BY <2>2
    <3>2. Advances(o, r) /\ (tolerant \/ r.pc = "end") BY <1>9, <3>1, CommandEnds, RootType
    <3>3. JobStep(P, root, root, r) BY <1>2, <1>9, <2>1, <3>2, AdvanceStep
    <3>4. y = "refused" BY <1>1, <2>2
    <3>5. QED BY <3>2, <3>3, <3>4 DEF Advances
  <2>3. CASE ~refused
    <3>1. r = o BY <2>3
    <3>2. ~o.killed BY <2>1 DEF Tended, Tree
    <3>3. JobStep(P, root, root, o) BY <1>7, <1>9, <3>2 DEF JobStep, Alive
    <3>4. QED BY <1>7, <1>9, <3>1, <3>3
  <2>4. QED BY <2>2, <2>3
<1>11. /\ y \in {"error", "refused", "yes"} /\ (y = "error" => known = R.known /\ r = o)
       /\ y # "error" => known[root] # Absent
  <2>1. CASE call.pc = "error" BY <2>1
  <2>2. CASE call.pc # "error"
    <3>1. call.locks[root] # Absent BY <1>1, <1>2, <1>8 DEF Inside, CallKnown
    <3>2. call.locks[root] \in Locks BY <1>2, <3>1, ProcTypes DEF RegistryCall
    <3>3. known[root] # Absent BY <1>2, <2>2, <3>1, <3>2 DEF Remember, Locks, Absent
    <3>4. QED BY <2>2, <3>3
  <2>3. QED BY <2>1, <2>2
<1> HIDE DEF P, R, root, deps, tolerant, r, g, Q, S, call, known, y
<1>12. /\ Tended(P, root) /\ Calls(call, "pending", P, root) /\ Early("pending", R.known, P, root)
       /\ KnownOK(R.known, P, root)
       /\ Edges(g, P, root) /\ (tolerant \/ InTurn(R.known, g, P, deps))
  BY <1>2, <1>8 DEF Inside, Tended, call, g
<1>13. Q[root] = r /\ (\A k \in Names \ {root} : Q[k] = P[k]) BY <1>2 DEF Q
<1>14. Tended(Q, root) /\ Follows(P, Q) /\ Lost(Q) /\ Handled(handler[p], Q, root) BY <1>2, <1>8, <1>10, StepKeeps DEF Q
<1>15. /\ \A k \in Names \ {root} : P[k].st = "none"
       /\ R.known = NoLocks
  BY <1>12 DEF Early
<1>16. Calls(S.call, y, Q, root)
  <2>1. \A k \in Names : P[k].pc # "locking" BY <1>1, <1>2, <1>12 DEF Calls
  <2>2. \A k \in Names : Q[k].pc # "locking" BY <1>10, <1>13, <2>1
  <2>3. QED BY <1>2, <1>5, <1>6, <1>11, <2>2 DEF Calls
<1>17. Early(y, S.known, Q, root)
  <2>1. CASE y = "error"
    <3>1. S.known = NoLocks BY <1>5, <1>11, <1>15, <2>1
    <3>2. QED BY <1>2, <1>10, <1>13, <1>15, <2>1, <3>1 DEF Early
  <2>2. CASE y # "error" BY <1>5, <1>11, <2>2 DEF Early
  <2>3. QED BY <2>1, <2>2
<1>18. KnownOK(S.known, Q, root)
  <2>1. \A d \in Names : R.known[d] = "InUse" => known[d] = "InUse" BY <1>15 DEF NoLocks, Absent
  <2>2. \A d \in r.launch \ P[root].launch : known[d] = "InUse" BY <1>10
  <2>3. KnownOK(known, Q, root) BY <1>2, <1>10, <1>12, <2>1, <2>2, KnownStep DEF Q
  <2>4. QED BY <1>5, <2>3
<1>19. CallKnown(S.call, S.known, root) BY <1>2, <1>5, <1>6 DEF CallKnown
<1>20. Asked(S.call, S.graph, deps) BY <1>2, <1>5, <1>6 DEF Asked
<1>21. Edges(S.graph, Q, root)
  <2>1. \A d \in r.waits \cup r.launch \cup r.joining : <<root, d>> \in g.edges BY <1>10
  <2>2. Edges(g, Q, root) BY <1>2, <1>10, <1>12, <2>1, EdgesStep DEF Q
  <2>3. QED BY <1>5, <2>2
<1>22. tolerant \/ InTurn(S.known, S.graph, Q, deps)
  <2> SUFFICES ASSUME ~tolerant PROVE InTurn(known, g, Q, deps) BY <1>5
  <2>1. Rooted(g, root) BY <1>12 DEF Edges
  <2>2. \A d \in Names \ {root} : R.known[d] = "InUseByOtherInstance" => known[d] = "InUseByOtherInstance"
    BY <1>15 DEF NoLocks, Absent
  <2>3. ~GoesOn(Q, root) BY <1>10, <1>13 DEF GoesOn
  <2>4. InTurn(R.known, g, P, deps) BY <1>12
  <2>5. QED BY <1>2, <1>10, <1>12, <2>1, <2>2, <2>3, <2>4, InTurnStep DEF Q
<1>23. Inside(S, y, Q, handler[p], root, deps, tolerant)
  BY <1>14, <1>16, <1>17, <1>18, <1>19, <1>20, <1>21, <1>22 DEF Inside, Tended
<1>24. QED BY <1>1, <1>2, <1>3, <1>4, <1>23, LocalBoth DEF P, root, deps, tolerant, Q

\* Every step keeps what is said of each process.
LEMMA LocalStep ==
  ASSUME TypeOK, TypeOK', \A q \in Procs : Local(q) /\ CallOK(q), [Next]_vars
  PROVE  \A q \in Procs : Local(q)'
<1>1. CASE UNCHANGED vars BY <1>1, LocalFrame DEF vars
<1>2. \A q \in Procs : Local(q) OBVIOUS
<1>3. ASSUME NEW p \in Procs, Start(p) \/ Resolve(p) \/ ResolveFails(p) PROVE \A q \in Procs : Local(q)'
  BY <1>2, <1>3, ResolveLocal
<1>4. ASSUME NEW p \in Procs, Run(p) PROVE \A q \in Procs : Local(q)' BY <1>2, <1>4, RunLocal
<1>5. ASSUME NEW p \in Procs, Crash(p) \/ Exit(p) PROVE \A q \in Procs : Local(q)' BY <1>2, <1>5, GoneLocal
<1>6. ASSUME NEW p \in Procs, CloseRoot(p) PROVE \A q \in Procs : Local(q)' BY <1>2, <1>6, CloseRootLocal
<1>7. ASSUME NEW p \in Procs, Exclude(p) PROVE \A q \in Procs : Local(q)' BY <1>2, <1>7, ExcludeLocal
<1>8. ASSUME NEW p \in Procs, ExcludeReturns(p) PROVE \A q \in Procs : Local(q)' BY <1>2, <1>8, ExcludeReturnsLocal
<1>9. ASSUME NEW p \in Procs, Registry(p) PROVE \A q \in Procs : Local(q)'
  BY <1>2, <1>9, RegistryMovesLocal, RegistryNamesLocal, RegistryExcludeLocal DEF Registry
<1>10. ASSUME NEW p \in Procs, NEW n \in Names, Job(p, n) PROVE \A q \in Procs : Local(q)'
  <2>1. CASE Cancelled(p, n) BY <1>2, <2>1, CancelledLocal
  <2>2. CASE ExcludedBefore(p, n) BY <1>2, <2>2, ExcludedBeforeLocal
  <2>3. CASE RunDependencies(p, n) BY <1>2, <2>3, RunDependenciesLocal
  <2>4. CASE DependenciesLocked(p, n) BY <1>2, <2>4, DependenciesLockedLocal
  <2>5. CASE WaitForDependency(p, n) BY <1>2, <2>5, WaitForDependencyLocal
  <2>6. CASE Launch(p, n) BY <1>2, <2>6, LaunchLocal
  <2>7. CASE Register(p, n) BY <1>2, <2>7, RegisterLocal
  <2>8. CASE RunJob(p, n) BY <1>2, <2>8, RunJobLocal
  <2>9. CASE \E d \in Names : Returned(p, n, d) BY <1>2, <2>9, ReturnedLocal
  <2>10. CASE Joined(p, n) BY <1>2, <2>10, JoinedLocal
  <2>11. CASE CreateDeployments(p, n) \/ StartDev(p, n) BY <1>2, <2>11, CommandLocal
  <2>12. QED BY <1>10, <2>1, <2>2, <2>3, <2>4, <2>5, <2>6, <2>7, <2>8, <2>9, <2>10, <2>11 DEF Job
<1>11. ASSUME NEW p \in Procs, NEW n \in Names, Server(p, n) PROVE \A q \in Procs : Local(q)'
  BY <1>2, <1>11, ServerLocal
<1>12. ASSUME NEW p \in Procs, NEW n \in Names, DevEnds(p, n) PROVE \A q \in Procs : Local(q)'
  BY <1>2, <1>12, DevEndsLocal
<1>13. QED BY <1>1, <1>3, <1>4, <1>5, <1>6, <1>7, <1>8, <1>9, <1>10, <1>11, <1>12 DEF Next

-----------------------------------------------------------------------------
\* What a step does to the processes that share the config map: nobody comes
\* back, a lost ping is not forgotten, and a dependency given away stays so.
Onward ==
    /\ scenario' = scenario
    /\ \A p \in Procs : proc[p] \in {"ended", "crashed"} => proc'[p] \in {"ended", "crashed"}
    /\ \A p \in Procs : proc[p] \notin {"idle", "resolving"} => proc'[p] \notin {"idle", "resolving"}
    /\ faults.pingLost => faults'.pingLost
    /\ \A p \in Procs, n \in Names : Late(p, n) => Late(p, n)'
    /\ \A p \in Procs, n \in Names : Late(p, n)' => Root(p) # n

\* Nobody occupies what it did not occupy.
Recedes == \A p \in Procs, n \in Names : Occupies(p, n)' => Occupies(p, n)

\* A call that a step leaves alone.
LEMMA CallKept ==
  ASSUME TypeOK, Onward, Recedes, configMap' = configMap, NEW p \in Procs, CallOK(p), reg'[p].call = reg[p].call
  PROVE  CallOK(p)'
<1> DEFINE call == reg[p].call
<1>1. scenario' = scenario BY DEF Onward
<1>2. Asks(p)' <=> Asks(p) BY DEF Asks
<1>3. Asks(p) => configMap.exists /\ call.copy.exists /\ call.copy.version <= configMap.version BY DEF CallOK
<1>4. Asks(p) => \A n \in Wanted(call.locks) \ call.left : call.changed /\ call.copy.owner[n] = p BY DEF CallOK
<1>5. Asks(p) /\ ~faults'.pingLost /\ call.copy.version = configMap.version => \A n \in Names :
          \/ call.copy.owner[n] = configMap.owner[n]
          \/ /\ n \in Wanted(call.locks) \ call.left /\ call.copy.owner[n] = p
             /\ \A q \in Procs \ {p} : Occupies(q, n)' => Late(q, n)'
  BY DEF CallOK, Onward, Recedes
<1>6. call.pc = "excluding" => /\ call.by = "exclude"
                               /\ \A n \in call.left : call.copy.owner[n] \in Procs /\ (Root(call.copy.owner[n]) # n)'
  BY <1>1 DEF CallOK, Root
<1>7. ~faults'.pingLost => \A q \in call.failed : proc'[q] \in {"ended", "crashed"}
  <2>1. call.failed \subseteq Procs BY ProcTypes DEF RegistryCall
  <2>2. QED BY <2>1 DEF CallOK, Onward
<1>8. \A n \in Names : call.copy.owner[n] # None => proc'[call.copy.owner[n]] \notin {"idle", "resolving"}
  <2>1. \A n \in Names : call.copy.owner[n] \in Procs \cup {None} BY ProcTypes DEF RegistryCall, ConfigMap
  <2>2. QED BY <2>1 DEF CallOK, Onward
<1>9. QED BY <1>2, <1>3, <1>4, <1>5, <1>6, <1>7, <1>8 DEF CallOK

\* A call that asks no more, or is over.
LEMMA CallQuits ==
  ASSUME TypeOK, Onward, NEW p \in Procs, CallOK(p), reg'[p].call.pc \notin {"names", "excluding"},
         reg'[p].call.failed \subseteq reg[p].call.failed,
         \A n \in Names : reg'[p].call.copy.owner[n] \in {None, reg[p].call.copy.owner[n]}
  PROVE  CallOK(p)'
<1> DEFINE call == reg[p].call
<1>1. ~Asks(p)' BY DEF Asks
<1>2. ~faults'.pingLost => \A q \in reg'[p].call.failed : proc'[q] \in {"ended", "crashed"}
  <2>1. call.failed \subseteq Procs BY ProcTypes DEF RegistryCall
  <2>2. QED BY <2>1 DEF CallOK, Onward
<1>3. \A n \in Names : reg'[p].call.copy.owner[n] # None => proc'[reg'[p].call.copy.owner[n]] \notin {"idle", "resolving"}
  <2>1. \A n \in Names : call.copy.owner[n] \in Procs \cup {None} BY ProcTypes DEF RegistryCall, ConfigMap
  <2>2. QED BY <2>1 DEF CallOK, Onward
<1>4. QED BY <1>1, <1>2, <1>3 DEF CallOK

\* Steps that do not write the config map.
LEMMA OwnedKept ==
  ASSUME TypeOK, Owned, Onward, Recedes, configMap' = configMap, \A p \in Procs : CallOK(p)'
  PROVE  Owned'
<1>1. scenario' = scenario BY DEF Onward
<1>2. ~configMap'.exists => configMap' = NoConfigMap' BY DEF Owned, NoConfigMap
<1>3. \A n \in Names : configMap'.owner[n] # None => proc'[configMap'.owner[n]] \notin {"idle", "resolving"}
  <2>1. \A n \in Names : configMap.owner[n] \in Procs \cup {None} BY DEF TypeOK, ConfigMap
  <2>2. QED BY <2>1 DEF Owned, Onward
<1>4. \A p \in Procs, n \in Names : Late(p, n)' => (Root(p) # n)' BY <1>1 DEF Onward, Root
<1>5. ~faults'.pingLost => \A p \in Procs, n \in Names : Occupies(p, n)' => configMap'.owner[n] = p \/ Late(p, n)'
  BY DEF Owned, Onward, Recedes
<1>6. QED BY <1>2, <1>3, <1>4, <1>5 DEF Owned

\* A step that leaves the config map and every call alone.
LEMMA OwnedCalm ==
  ASSUME TypeOK, Owned, Onward, Recedes, configMap' = configMap, \A p \in Procs : reg'[p].call = reg[p].call
  PROVE  Owned'
<1>1. \A p \in Procs : CallOK(p)' BY CallKept DEF Owned
<1>2. QED BY <1>1, OwnedKept

\* A step that leaves the config map and every other call alone.
LEMMA OwnedCall ==
  ASSUME TypeOK, Owned, Onward, Recedes, configMap' = configMap, NEW p \in Procs, CallOK(p)',
         \A q \in Procs \ {p} : reg'[q].call = reg[q].call
  PROVE  Owned'
<1>1. \A q \in Procs \ {p} : CallOK(q)' BY CallKept DEF Owned
<1>2. QED BY <1>1, OwnedKept

\* A process that a step leaves alone occupies what it did.
LEMMA OccupiesSame ==
  ASSUME scenario' = scenario, NEW p \in Procs, proc'[p] = proc[p], reg'[p].call = reg[p].call,
         excluded'[p] = excluded[p], pipe'[p] = pipe[p], NEW n \in Names
  PROVE  Occupies(p, n)' <=> Occupies(p, n)
BY DEF Occupies, Running, Root, Holding

\* A step of one pipeline that starts nothing.
Yields(o, r) ==
    /\ r \in Pipeline /\ r.launch \subseteq o.launch
    /\ r.st \in Alive => o.st \in Alive
    /\ r.dev = "active" /\ ~r.failed => o.st \in Alive \/ (o.dev = "active" /\ ~o.failed)

\* Such a step makes its process hold nothing it did not hold.
LEMMA HoldsLess ==
  ASSUME NEW call, NEW x, NEW P \in [Names -> Pipeline], NEW root \in Names, NEW n \in Names, NEW r, Yields(P[n], r),
         NEW Q, Q = [P EXCEPT ![n] = r], NEW m \in Names, Holding(call, x, Q, root, m)
  PROVE  Holding(call, x, P, root, m)
<1>1. Q[n] = r /\ \A k \in Names \ {n} : Q[k] = P[k] OBVIOUS
<1>2. CASE m # root /\ Q[m].st \in Alive BY <1>1, <1>2 DEF Holding, Yields
<1>3. CASE m # root /\ \E k \in Names : m \in Q[k].launch
  <2>1. PICK k \in Names : m \in Q[k].launch BY <1>3
  <2>2. m \in P[k].launch BY <1>1, <2>1 DEF Yields
  <2>3. QED BY <1>3, <2>2 DEF Holding
<1>4. CASE m # root /\ Q[m].dev = "active" /\ ~Q[m].failed BY <1>1, <1>4 DEF Holding, Yields
<1>5. QED BY <1>2, <1>3, <1>4 DEF Holding

\* Faults other than lost pings and dependencies given away.
Plainly == faults'.pingLost = faults.pingLost /\ faults'.late = faults.late

\* A step without a lost ping in which no process ends.
LEMMA OnwardPlain ==
  ASSUME Owned, UNCHANGED <<scenario, proc>>, Plainly PROVE Onward
BY DEF Owned, Onward, Late, Plainly

\* A fault that is only counted.
LEMMA PlainFaults ==
  ASSUME TypeOK, faults' = faults \/ faults' = [faults EXCEPT !.count = @ + 1] PROVE Plainly
BY DEF TypeOK, Plainly

\* A step of one pipeline.
LEMMA JobOwned ==
  ASSUME TypeOK, Owned, NEW p \in Procs, NEW n \in Names, NEW r, Yields(pipe[p][n], r), Update(p, n, r), Plainly,
         UNCHANGED <<scenario, configMap, proc, reg, excluded>>
  PROVE  Owned'
<1>1. Onward BY OnwardPlain
<1>2. pipe \in [Procs -> [Names -> Pipeline]] BY DEF TypeOK
<1>3. pipe'[p] = [pipe[p] EXCEPT ![n] = r] /\ \A q \in Procs \ {p} : pipe'[q] = pipe[q] BY <1>2 DEF Update
<1>4. ASSUME NEW m \in Names, Occupies(p, m)' PROVE Occupies(p, m)
  <2>1. Root(p) \in Names /\ Root(p)' = Root(p) /\ pipe[p] \in [Names -> Pipeline] BY <1>2, RootType DEF Root
  <2>2. Running(p) /\ Holding(reg[p].call, excluded[p], pipe'[p], Root(p), m)
    BY <1>4, <2>1 DEF Occupies, Running
  <2>3. Holding(reg[p].call, excluded[p], pipe[p], Root(p), m) BY <1>3, <2>1, <2>2, HoldsLess
  <2>4. QED BY <2>2, <2>3 DEF Occupies
<1>5. ASSUME NEW q \in Procs \ {p}, NEW m \in Names, Occupies(q, m)' PROVE Occupies(q, m)
  BY <1>3, <1>5, OccupiesSame
<1>6. Recedes BY <1>4, <1>5 DEF Recedes
<1>7. QED BY <1>1, <1>6, OwnedCalm

\* A command or a job that ends.
LEMMA EndsYield ==
  ASSUME TypeOK, NEW p \in Procs, Local(p), NEW n \in Names, pipe[p][n].st = "running", ~pipe[p][n].group
  PROVE  LET o == pipe[p][n]
         IN Yields(o, Ended(o, TRUE)) /\ Yields(o, Succeeded(o)) /\ Yields(o, Failed(o))
            /\ Yields(o, [Succeeded(o) EXCEPT !.dev = "active"])
<1> DEFINE o == pipe[p][n]
<1>1. o \in Pipeline /\ PipeOK(o) /\ scenario.tolerant \in BOOLEAN BY LocalTended, RootType
<1>2. ASSUME NEW r, Advances(o, r) PROVE Yields(o, r) BY <1>2 DEF Advances, Yields, Alive
<1>3. /\ Advances(o, Ended(o, TRUE)) /\ Advances(o, Succeeded(o)) /\ Advances(o, Failed(o))
      /\ Advances(o, [Succeeded(o) EXCEPT !.dev = "active"])
  BY <1>1, CommandEnds
<1>4. QED BY <1>2, <1>3

\* The steps of a pipeline that do not call the registry.
LEMMA JobsOwned ==
  ASSUME TypeOK, Owned, NEW p \in Procs, Local(p), NEW n \in Names,
         \/ Cancelled(p, n) \/ ExcludedBefore(p, n) \/ CreateDeployments(p, n) \/ StartDev(p, n)
         \/ WaitForDependency(p, n) \/ Register(p, n) \/ RunJob(p, n) \/ (\E d \in Names : Returned(p, n, d))
         \/ Joined(p, n) \/ DevEnds(p, n)
  PROVE  Owned'
<1> DEFINE o == pipe[p][n]
<1>1. o \in Pipeline /\ PipeOK(o) BY LocalTended
<1>2. UNCHANGED <<scenario, configMap, proc, reg, excluded>>
  BY DEF Cancelled, ExcludedBefore, CreateDeployments, StartDev, WaitForDependency, Register, RunJob, Returned, Joined, DevEnds
<1>3. Plainly
  <2>1. faults' = faults \/ faults' = [faults EXCEPT !.count = @ + 1]
    BY DEF Cancelled, ExcludedBefore, CreateDeployments, StartDev, WaitForDependency, Register, RunJob, Returned, Joined, DevEnds
  <2>2. QED BY <2>1, PlainFaults
<1>4. ASSUME NEW r \in Pipeline, r.launch \subseteq o.launch, o.st \in Alive PROVE Yields(o, r) BY <1>4 DEF Yields
<1>5. CASE Cancelled(p, n) \/ ExcludedBefore(p, n) \/ CreateDeployments(p, n) \/ StartDev(p, n)
  <2>1. o.st = "running" /\ o.pc # "joining"
    BY <1>5 DEF Cancelled, ExcludedBefore, CreateDeployments, StartDev, AtCommand
  <2>2. ~o.group BY <1>1, <2>1 DEF PipeOK
  <2>3. PICK r \in {Ended(o, TRUE), Succeeded(o), Failed(o), [Succeeded(o) EXCEPT !.dev = "active"]} : Update(p, n, r)
    BY <1>5 DEF Cancelled, ExcludedBefore, CreateDeployments, StartDev
  <2>4. Yields(o, r) BY <2>1, <2>2, <2>3, EndsYield
  <2>5. QED BY <1>2, <1>3, <2>3, <2>4, JobOwned
<1>6. CASE WaitForDependency(p, n)
  <2> DEFINE d == First(o.waits)
  <2>1. PICK r \in {[o EXCEPT !.waits = @ \ {d}], [o EXCEPT !.waits = @ \ {d}, !.gaveUp = TRUE]} : Update(p, n, r)
    BY <1>6 DEF WaitForDependency
  <2>2. r \in Pipeline /\ r.launch = o.launch BY <1>1, <2>1 DEF Pipeline
  <2>3. o.st \in Alive BY <1>6 DEF WaitForDependency, AtCommand, Alive
  <2>4. Yields(o, r) BY <1>4, <2>2, <2>3
  <2>5. QED BY <1>2, <1>3, <2>1, <2>4, JobOwned
<1>7. CASE Register(p, n) \/ RunJob(p, n)
  <2>1. PICK r \in {[o EXCEPT !.st = "registered", !.starts = @ + 1], [o EXCEPT !.st = "unstarted", !.failed = TRUE],
                    [o EXCEPT !.st = "lost"], [o EXCEPT !.st = "running", !.pc = "run_dependencies"]} : Update(p, n, r)
    BY <1>7 DEF Register, RunJob
  <2>2. r \in Pipeline BY <1>1, <2>1, PipelineTypes
  <2>3. r.launch = o.launch BY <1>1, <2>1 DEF Pipeline
  <2>4. o.st \in Alive BY <1>7 DEF Register, RunJob, Alive
  <2>5. Yields(o, r) BY <1>4, <2>2, <2>3, <2>4
  <2>6. QED BY <1>2, <1>3, <2>1, <2>5, JobOwned
<1>8. ASSUME NEW d \in Names, Returned(p, n, d) PROVE Owned'
  <2> DEFINE r == [o EXCEPT !.joining = @ \ {d}, !.group = @ \/ pipe[p][d].failed]
  <2>1. pipe[p][d].failed \in BOOLEAN /\ o.group \in BOOLEAN BY <1>1, LocalTended DEF Pipeline
  <2>2. r \in Pipeline /\ r.launch = o.launch BY <1>1, <2>1 DEF Pipeline
  <2>3. o.st \in Alive /\ Update(p, n, r) BY <1>8 DEF Returned, AtCommand, Alive
  <2> HIDE DEF r
  <2>4. Yields(o, r) BY <1>4, <2>2, <2>3
  <2>5. QED BY <1>2, <1>3, <2>3, <2>4, JobOwned
<1>9. CASE Joined(p, n)
  <2>1. o.st = "running" /\ Running(p) BY <1>9 DEF Joined, AtCommand
  <2>2. \/ Update(p, n, [Failed(o) EXCEPT !.group = FALSE])
        \/ ~o.group /\ Update(p, n, Succeeded(o))
        \/ Update(p, n, [o EXCEPT !.pc = "waiting"])
    BY <1>9 DEF Joined
  <2>3. CASE Update(p, n, [Failed(o) EXCEPT !.group = FALSE])
    <3> DEFINE r == [Failed(o) EXCEPT !.group = FALSE]
    <3>1. Advances(o, r) BY <1>1, <2>1, CommandEnds, RootType
    <3>2. Yields(o, r) BY <2>1, <3>1 DEF Advances, Yields, Alive
    <3>3. QED BY <1>2, <1>3, <2>3, <3>2, JobOwned
  <2>4. CASE ~o.group /\ Update(p, n, Succeeded(o))
    <3>1. Yields(o, Succeeded(o)) BY <2>1, <2>4, EndsYield
    <3>2. QED BY <1>2, <1>3, <2>4, <3>1, JobOwned
  <2>5. CASE Update(p, n, [o EXCEPT !.pc = "waiting"])
    <3> DEFINE r == [o EXCEPT !.pc = "waiting"]
    <3>1. r \in Pipeline /\ r.launch = o.launch BY <1>1 DEF Pipeline
    <3> HIDE DEF r
    <3>2. Yields(o, r) BY <1>4, <2>1, <3>1 DEF Alive
    <3>3. QED BY <1>2, <1>3, <2>5, <3>2, JobOwned DEF r
  <2>6. QED BY <2>2, <2>3, <2>4, <2>5
<1>10. CASE DevEnds(p, n)
  <2> DEFINE r == [o EXCEPT !.dev = "ended"]
  <2>1. r.launch = o.launch /\ r.st = o.st /\ r.dev = "ended" BY <1>1 DEF Pipeline
  <2>2. r \in Pipeline BY <1>1, PipelineTypes
  <2>3. Update(p, n, r) BY <1>10 DEF DevEnds
  <2> HIDE DEF r
  <2>4. Yields(o, r) BY <2>1, <2>2 DEF Yields
  <2>5. QED BY <1>2, <1>3, <2>3, <2>4, JobOwned
<1>11. QED BY <1>5, <1>6, <1>7, <1>8, <1>9, <1>10

\* The server of a process, and the dev pods of its root.
LEMMA ClosingOwned ==
  ASSUME TypeOK, Owned, NEW p \in Procs, Local(p), NEW n \in Names, Server(p, n) \/ CloseRoot(p)
  PROVE  Owned'
<1>1. UNCHANGED <<scenario, configMap, proc, reg, excluded, faults>> BY DEF Server, HandlerClose, HandlerReply, CloseRoot
<1>2. Plainly BY <1>1 DEF Plainly
<1>3. ASSUME NEW k \in Names, Update(p, k, [pipe[p][k] EXCEPT !.devClosed = TRUE]) PROVE Owned'
  <2> DEFINE o == pipe[p][k]
             r == [o EXCEPT !.devClosed = TRUE]
  <2>1. o \in Pipeline BY LocalTended
  <2>2. r \in Pipeline /\ r.launch = o.launch /\ r.st = o.st /\ r.dev = o.dev /\ r.failed = o.failed BY <2>1 DEF Pipeline
  <2> HIDE DEF r
  <2>3. Yields(o, r) BY <2>2 DEF Yields
  <2>4. QED BY <1>1, <1>2, <1>3, <2>3, JobOwned DEF r
<1>4. ASSUME UNCHANGED pipe PROVE Owned'
  <2>1. Onward BY <1>1, <1>2, OnwardPlain
  <2>2. Recedes BY <1>1, <1>4, OccupiesSame DEF Recedes
  <2>3. QED BY <1>1, <2>1, <2>2, OwnedCalm
<1>5. Root(p) \in Names BY RootType
<1>6. QED BY <1>3, <1>4, <1>5 DEF Server, HandlerClose, HandlerReply, CloseRoot

\* The life of a process.
LEMMA ProcessOwned ==
  ASSUME TypeOK, Owned, NEW p \in Procs, Local(p), Start(p) \/ Resolve(p) \/ ResolveFails(p)
  PROVE  Owned'
<1>1. UNCHANGED <<scenario, configMap, reg, excluded, pipe>> BY DEF Start, Resolve, ResolveFails
<1>2. Plainly
  <2>1. faults' = faults \/ faults' = [faults EXCEPT !.count = @ + 1] BY DEF Start, Resolve, ResolveFails
  <2>2. QED BY <2>1, PlainFaults
<1>3. proc \in [Procs -> {"idle", "resolving", "running", "ended", "crashed"}] BY DEF TypeOK
<1>4. /\ \A q \in Procs \ {p} : proc'[q] = proc[q]
      /\ proc[p] \in {"idle", "resolving"}
      /\ proc'[p] \in {"resolving", "ended"}
  BY <1>3 DEF Start, Resolve, ResolveFails, Resolving
<1>5. Onward BY <1>1, <1>2, <1>4 DEF Owned, Onward, Late, Plainly
<1>6. ASSUME NEW q \in Procs, NEW n \in Names, Occupies(q, n)' PROVE Occupies(q, n)
  <2>1. q # p BY <1>4, <1>6 DEF Occupies, Running
  <2>2. QED BY <1>1, <1>4, <1>6, <2>1, OccupiesSame
<1>7. Recedes BY <1>6 DEF Recedes
<1>8. QED BY <1>1, <1>5, <1>7, OwnedCalm

\* The root pipeline is run.
LEMMA RunOwned ==
  ASSUME TypeOK, Owned, NEW p \in Procs, Local(p), Run(p)
  PROVE  Owned'
<1>1. UNCHANGED <<scenario, configMap, reg, excluded, faults>> BY DEF Run
<1>2. proc \in [Procs -> {"idle", "resolving", "running", "ended", "crashed"}] /\ pipe \in [Procs -> [Names -> Pipeline]]
  BY DEF TypeOK
<1>3. \A q \in Procs \ {p} : proc'[q] = proc[q] /\ pipe'[q] = pipe[q] BY <1>2 DEF Run, Update
<1>4. proc[p] = "resolving" /\ proc'[p] = "running" BY <1>2 DEF Run
<1>5. Onward BY <1>1, <1>3, <1>4 DEF Owned, Onward, Late
<1>6. ASSUME NEW n \in Names PROVE ~Occupies(p, n)'
  <2>1. reg[p] = NewRegistry(Root(p)) /\ excluded[p] = "no" /\ pipe[p] = [k \in Names |-> NoPipeline]
    BY <1>4 DEF Local, Quiet, Running
  <2>2. reg[p].call.pc = "free" BY <2>1 DEF NewRegistry, FreeCall
  <2>3. Root(p) \in Names BY RootType
  <2> DEFINE r == [NoPipeline EXCEPT !.st = "running", !.pc = "run_dependencies", !.starts = 1]
  <2>4. pipe'[p] = [pipe[p] EXCEPT ![Root(p)] = r] BY <1>2, <2>3 DEF Run, Update
  <2>5. r.launch = {} BY DEF NoPipeline
  <2>6. NoPipeline.launch = {} /\ NoPipeline.st \notin Alive /\ NoPipeline.dev = "none" BY DEF NoPipeline, Alive
  <2> HIDE DEF r
  <2>7. \A k \in Names : pipe'[p][k].launch = {} BY <2>1, <2>3, <2>4, <2>5, <2>6
  <2>8. n # Root(p) => pipe'[p][n] = NoPipeline BY <2>1, <2>3, <2>4
  <2>9. ~Holding(reg[p].call, excluded[p], pipe'[p], Root(p), n)
    BY <2>1, <2>2, <2>6, <2>7, <2>8 DEF Holding
  <2>10. Root(p)' = Root(p) BY <1>1 DEF Root
  <2>11. QED BY <1>1, <2>9, <2>10 DEF Occupies
<1>7. ASSUME NEW q \in Procs, NEW n \in Names, Occupies(q, n)' PROVE Occupies(q, n)
  <2>1. q # p BY <1>6, <1>7
  <2>2. QED BY <1>1, <1>3, <1>7, <2>1, OccupiesSame
<1>8. Recedes BY <1>7 DEF Recedes
<1>9. QED BY <1>1, <1>5, <1>8, OwnedCalm

\* A process crashes or exits: its entries stay.
LEMMA GoneOwned ==
  ASSUME TypeOK, Owned, NEW p \in Procs, Local(p), Crash(p) \/ Exit(p)
  PROVE  Owned'
<1>1. PICK how \in {"ended", "crashed"} : Gone(p, how) BY DEF Crash, Exit
<1>2. UNCHANGED <<scenario, configMap>> BY DEF Crash, Exit
<1>3. Plainly
  <2>1. faults' = faults \/ faults' = [faults EXCEPT !.count = @ + 1] BY DEF Crash, Exit
  <2>2. QED BY <2>1, PlainFaults
<1>4. /\ proc \in [Procs -> {"idle", "resolving", "running", "ended", "crashed"}]
      /\ pipe \in [Procs -> [Names -> Pipeline]] /\ reg \in [Procs -> RegistryType]
      /\ excluded \in [Procs -> {"no", "pending", "yes", "refused", "error"}]
  BY DEF TypeOK, RegistryType
<1>5. \A q \in Procs \ {p} : proc'[q] = proc[q] /\ pipe'[q] = pipe[q] /\ reg'[q] = reg[q] /\ excluded'[q] = excluded[q]
  BY <1>1, <1>4 DEF Gone
<1>6. proc'[p] \in {"ended", "crashed"} /\ reg'[p] = NewRegistry(Root(p)) BY <1>1, <1>4 DEF Gone
<1>7. Onward BY <1>2, <1>3, <1>5, <1>6 DEF Owned, Onward, Late, Plainly
<1>8. ASSUME NEW q \in Procs, NEW n \in Names, Occupies(q, n)' PROVE Occupies(q, n)
  <2>1. q # p BY <1>6, <1>8 DEF Occupies, Running
  <2>2. QED BY <1>2, <1>5, <1>8, <2>1, OccupiesSame
<1>9. Recedes BY <1>8 DEF Recedes
<1>10. CallOK(p)'
  <2>1. reg'[p].call = FreeCall BY <1>6 DEF NewRegistry
  <2>2. /\ reg'[p].call.pc = "free" /\ reg'[p].call.failed = {}
        /\ \A n \in Names : reg'[p].call.copy.owner[n] = None
    BY <2>1 DEF FreeCall, NoConfigMap
  <2>3. CallOK(p) BY DEF Owned
  <2>4. QED BY <1>7, <2>2, <2>3, CallQuits
<1>11. QED BY <1>2, <1>5, <1>7, <1>9, <1>10, OwnedCall

\* Dependencies that are launched were locked.
LEMMA LaunchOwned ==
  ASSUME TypeOK, Owned, NEW p \in Procs, Local(p), NEW n \in Names, Launch(p, n)
  PROVE  Owned'
<1> DEFINE P == pipe[p]
           now == IF scenario.sequential /\ P[n].launch # {} THEN {First(P[n].launch)} ELSE P[n].launch
           Q == [m \in Names |->
              IF m = n THEN [P[n] EXCEPT !.pc = "joining", !.joining = now, !.launch = P[n].launch \ now]
              ELSE IF m \in now
              THEN [NoPipeline EXCEPT !.st = "queued", !.parent = n, !.starts = P[m].starts]
              ELSE P[m]]
<1>1. UNCHANGED <<scenario, configMap, proc, reg, excluded, faults>> BY DEF Launch
<1>2. Plainly /\ Onward BY <1>1, OnwardPlain DEF Plainly
<1>3. P \in [Names -> Pipeline] /\ pipe \in [Procs -> [Names -> Pipeline]] BY DEF TypeOK
<1>4. pipe'[p] = Q /\ \A q \in Procs \ {p} : pipe'[q] = pipe[q] BY <1>3 DEF Launch
<1>5. now \subseteq P[n].launch
  <2>1. P[n].launch \subseteq Names BY <1>3 DEF Pipeline
  <2>2. P[n].launch # {} => First(P[n].launch) \in P[n].launch BY <2>1, FirstIn
  <2>3. QED BY <2>2
<1>6. Launches(P, Q, n, now) BY <1>5 DEF Launch, Launches, AtCommand
<1> HIDE DEF now, Q
<1>7. Tended(P, Root(p)) /\ Root(p) \in Names BY LocalTended, RootType
<1>8. /\ Q[n].launch = P[n].launch \ now /\ Q[n].st = "running" /\ Q[n].dev = P[n].dev /\ Q[n].failed = P[n].failed
      /\ \A m \in now : Q[m].st = "queued" /\ Q[m].launch = {} /\ Q[m].dev = "none"
      /\ \A m \in Names : m # n /\ m \notin now => Q[m] = P[m]
  BY <1>6, <1>7, Launched
<1>9. P[n].st = "running" BY <1>6 DEF Launches
<1>10. \A m, k \in Names : m \in Q[k].launch => m \in P[k].launch BY <1>8
<1>11. ASSUME NEW m \in Names, Holding(reg[p].call, excluded[p], Q, Root(p), m)
       PROVE  Holding(reg[p].call, excluded[p], P, Root(p), m)
  <2>1. CASE m # Root(p) /\ \E k \in Names : m \in Q[k].launch BY <1>10, <2>1 DEF Holding
  <2>2. CASE m # Root(p) /\ m \in now BY <1>5, <2>2 DEF Holding
  <2>3. CASE m # Root(p) /\ m = n BY <1>9, <2>3 DEF Holding, Alive
  <2>4. CASE m # Root(p) /\ m # n /\ m \notin now /\ Q[m].st \in Alive BY <1>8, <2>4 DEF Holding
  <2>5. CASE m # Root(p) /\ m # n /\ m \notin now /\ Q[m].dev = "active" /\ ~Q[m].failed BY <1>8, <2>5 DEF Holding
  <2>6. QED BY <1>11, <2>1, <2>2, <2>3, <2>4, <2>5 DEF Holding
<1>12. ASSUME NEW m \in Names, Occupies(p, m)' PROVE Occupies(p, m)
  <2>1. Root(p)' = Root(p) BY <1>1 DEF Root
  <2>2. QED BY <1>1, <1>4, <1>11, <1>12, <2>1 DEF Occupies, Running
<1>13. ASSUME NEW q \in Procs \ {p}, NEW m \in Names, Occupies(q, m)' PROVE Occupies(q, m)
  BY <1>1, <1>4, <1>13, OccupiesSame
<1>14. Recedes BY <1>12, <1>13 DEF Recedes
<1>15. QED BY <1>1, <1>2, <1>14, OwnedCalm

\* A step of one process that occupies nothing new.
LEMMA OwnedStep ==
  ASSUME TypeOK, Owned, Onward, UNCHANGED <<scenario, configMap, proc>>, NEW p \in Procs,
         \A q \in Procs \ {p} : reg'[q].call = reg[q].call /\ excluded'[q] = excluded[q] /\ pipe'[q] = pipe[q],
         \A m \in Names : Holding(reg'[p].call, excluded'[p], pipe'[p], Root(p), m)
                              => Holding(reg[p].call, excluded[p], pipe[p], Root(p), m),
         CallOK(p)'
  PROVE  Owned'
<1>1. Root(p)' = Root(p) BY DEF Root
<1>2. \A m \in Names : Occupies(p, m)' => Occupies(p, m) BY <1>1 DEF Occupies, Running
<1>3. ASSUME NEW q \in Procs \ {p}, NEW m \in Names, Occupies(q, m)' PROVE Occupies(q, m) BY <1>3, OccupiesSame
<1>4. Recedes BY <1>2, <1>3 DEF Recedes
<1>5. QED BY <1>4, OwnedCall

\* A call begins: without a name to lock nothing is locked.
LEMMA BeginOwned ==
  ASSUME TypeOK, Owned, NEW p \in Procs, Local(p), Exclude(p) \/ \E n \in Names : RunDependencies(p, n)
  PROVE  Owned'
<1>1. UNCHANGED <<scenario, configMap, proc, faults>> BY DEF Exclude, RunDependencies
<1>2. Plainly /\ Onward BY <1>1, OnwardPlain DEF Plainly
<1>3. /\ pipe \in [Procs -> [Names -> Pipeline]] /\ reg \in [Procs -> RegistryType]
      /\ excluded \in [Procs -> {"no", "pending", "yes", "refused", "error"}]
  BY DEF TypeOK, RegistryType
<1>4. ASSUME NEW by \in Names \cup {"exclude"}, NEW from \in Names, NEW names \in SUBSET Names, Begin(p, by, from, names)
      PROVE  /\ \A q \in Procs \ {p} : reg'[q].call = reg[q].call
             /\ reg'[p].call.pc \in {"return", "get"}
             /\ \A m \in Names : ~(reg'[p].call.pc = "return" /\ reg'[p].call.locks[m] = "Locked")
             /\ CallOK(p)'
  <2>1. PICK S \in RegistryType : Begun(S, p, by, from, names) BY <1>4, Begins
  <2>2. /\ reg' = [reg EXCEPT ![p] = S]
        /\ S.call.pc = (IF Wanted(S.call.locks) = {} THEN "return" ELSE "get")
        /\ S.call.copy = NoConfigMap /\ S.call.failed = {}
    BY <2>1 DEF Begun
  <2>3. reg'[p] = S /\ \A q \in Procs \ {p} : reg'[q] = reg[q] BY <1>3, <2>2
  <2>4. \A m \in Names : ~(S.call.pc = "return" /\ S.call.locks[m] = "Locked") BY <2>2 DEF Wanted
  <2>5. \A m \in Names : S.call.copy.owner[m] = None BY <2>2 DEF NoConfigMap
  <2>6. CallOK(p) BY DEF Owned
  <2>7. CallOK(p)' BY <1>2, <2>2, <2>3, <2>5, <2>6, CallQuits
  <2>8. QED BY <2>2, <2>3, <2>4, <2>7
<1>5. CASE Exclude(p)
  <2>1. /\ Begin(p, "exclude", Root(p), {}) /\ pipe' = pipe /\ excluded' = [excluded EXCEPT ![p] = "pending"]
    BY <1>5 DEF Exclude
  <2>2. Root(p) \in Names /\ {} \in SUBSET Names /\ "exclude" \in Names \cup {"exclude"} BY RootType
  <2>3. /\ \A q \in Procs \ {p} : reg'[q].call = reg[q].call
        /\ \A m \in Names : ~(reg'[p].call.pc = "return" /\ reg'[p].call.locks[m] = "Locked")
        /\ CallOK(p)'
    BY <1>4, <2>1, <2>2
  <2>4. excluded'[p] = "pending" /\ \A q \in Procs \ {p} : excluded'[q] = excluded[q] BY <1>3, <2>1
  <2>5. \A m \in Names : Holding(reg'[p].call, excluded'[p], pipe'[p], Root(p), m)
                             => Holding(reg[p].call, excluded[p], pipe[p], Root(p), m)
    BY <2>1, <2>3, <2>4 DEF Holding
  <2>6. QED BY <1>1, <1>2, <2>1, <2>3, <2>4, <2>5, OwnedStep
<1>6. ASSUME NEW n \in Names, RunDependencies(p, n) PROVE Owned'
  <2> DEFINE o == pipe[p][n]
  <2>1. o \in Pipeline /\ PipeOK(o) /\ o.st = "running" /\ o.pc = "run_dependencies" BY <1>6, LocalTended DEF RunDependencies, AtCommand
  <2>2. ~o.group BY <2>1 DEF PipeOK
  <2>3. UNCHANGED excluded BY <1>6 DEF RunDependencies
  <2>4. CASE UNCHANGED reg /\ Update(p, n, Succeeded(o))
    <3>1. Yields(o, Succeeded(o)) BY <2>1, <2>2, EndsYield
    <3>2. QED BY <1>1, <1>2, <2>3, <2>4, <3>1, JobOwned
  <2>5. CASE Begin(p, n, n, Deps(p, n)) /\ Update(p, n, [o EXCEPT !.pc = "locking"])
    <3> DEFINE r == [o EXCEPT !.pc = "locking"]
    <3>1. r \in Pipeline /\ r.launch = o.launch BY <2>1 DEF Pipeline
    <3>2. Deps(p, n) \in SUBSET Names BY ProcTypes DEF DepsOf
    <3>3. /\ \A q \in Procs \ {p} : reg'[q].call = reg[q].call
          /\ \A m \in Names : ~(reg'[p].call.pc = "return" /\ reg'[p].call.locks[m] = "Locked")
          /\ CallOK(p)'
      BY <1>4, <2>5, <3>2
    <3> HIDE DEF r
    <3>4. Yields(o, r) BY <2>1, <3>1 DEF Yields, Alive
    <3>5. pipe'[p] = [pipe[p] EXCEPT ![n] = r] /\ \A q \in Procs \ {p} : pipe'[q] = pipe[q]
      BY <1>3, <2>5 DEF Update, r
    <3>6. Root(p) \in Names /\ pipe[p] \in [Names -> Pipeline] BY RootType, <1>3
    <3>7. ASSUME NEW m \in Names, Holding(reg'[p].call, excluded'[p], pipe'[p], Root(p), m)
          PROVE  Holding(reg[p].call, excluded[p], pipe[p], Root(p), m)
      <4>1. Holding(reg[p].call, excluded[p], pipe'[p], Root(p), m) BY <2>3, <3>3, <3>7 DEF Holding
      <4>2. QED BY <3>4, <3>5, <3>6, <4>1, HoldsLess
    <3>8. QED BY <1>1, <1>2, <2>3, <3>3, <3>5, <3>7, OwnedStep
  <2>6. QED BY <1>6, <2>4, <2>5 DEF RunDependencies
<1>7. QED BY <1>5, <1>6

\* A call returns: what it has locked is what the process runs next.
LEMMA ReturnOwned ==
  ASSUME TypeOK, Owned, NEW p \in Procs, Local(p), ExcludeReturns(p) \/ \E n \in Names : DependenciesLocked(p, n)
  PROVE  Owned'
<1> DEFINE call == reg[p].call
<1>1. UNCHANGED <<scenario, configMap, proc, faults>> BY DEF ExcludeReturns, DependenciesLocked
<1>2. Plainly /\ Onward BY <1>1, OnwardPlain DEF Plainly
<1>3. /\ pipe \in [Procs -> [Names -> Pipeline]] /\ reg \in [Procs -> RegistryType]
      /\ excluded \in [Procs -> {"no", "pending", "yes", "refused", "error"}]
      /\ Root(p) \in Names /\ pipe[p] \in [Names -> Pipeline]
  BY RootType DEF TypeOK, RegistryType
<1>4. reg'[p].call = FreeCall /\ \A q \in Procs \ {p} : reg'[q] = reg[q]
  BY <1>3 DEF ExcludeReturns, DependenciesLocked, RegistryType
<1>5. CallOK(p)'
  <2>1. /\ reg'[p].call.pc = "free" /\ reg'[p].call.failed = {}
        /\ \A n \in Names : reg'[p].call.copy.owner[n] = None
    BY <1>4 DEF FreeCall, NoConfigMap
  <2>2. CallOK(p) BY DEF Owned
  <2>3. QED BY <1>2, <2>1, <2>2, CallQuits
<1>6. reg'[p].call.pc # "return" BY <1>4 DEF FreeCall
<1>7. CASE ExcludeReturns(p)
  <2> DEFINE o == pipe[p][Root(p)]
             refused == call.pc = "return" /\ ~Admitted(call.locks[Root(p)])
  <2>1. o.pc = "run_dependencies" /\ o \in Pipeline /\ PipeOK(o)
    BY <1>3, <1>7, LocalTended DEF ExcludeReturns, Local, Inside, Calls
  <2>2. o.st = "running" /\ ~o.group BY <2>1 DEF PipeOK
  <2>3. PICK r \in {Failed(o), o} : Update(p, Root(p), r) BY <1>7 DEF ExcludeReturns
  <2>4. Yields(o, r)
    <3>1. Yields(o, Failed(o)) BY <1>3, <2>2, EndsYield
    <3>2. Yields(o, o) BY <2>1 DEF Yields
    <3>3. QED BY <2>3, <3>1, <3>2
  <2>5. pipe'[p] = [pipe[p] EXCEPT ![Root(p)] = r] /\ \A q \in Procs \ {p} : pipe'[q] = pipe[q]
    BY <1>3, <2>3 DEF Update
  <2>6. /\ excluded'[p] = "yes" => call.pc = "return" /\ call.locks[Root(p)] = "Locked"
        /\ \A q \in Procs \ {p} : excluded'[q] = excluded[q]
    BY <1>3, <1>7 DEF ExcludeReturns, Admitted
  <2>7. ASSUME NEW m \in Names, Holding(reg'[p].call, excluded'[p], pipe'[p], Root(p), m)
        PROVE  Holding(reg[p].call, excluded[p], pipe[p], Root(p), m)
    <3>1. CASE m = Root(p) /\ excluded'[p] = "yes" BY <2>6, <3>1 DEF Holding
    <3>2. CASE ~(m = Root(p) /\ excluded'[p] = "yes")
      <4>1. Holding(reg[p].call, excluded[p], pipe'[p], Root(p), m) BY <1>6, <2>7, <3>2 DEF Holding
      <4>2. QED BY <1>3, <2>4, <2>5, <4>1, HoldsLess
    <3>3. QED BY <3>1, <3>2
  <2>8. QED BY <1>1, <1>2, <1>4, <1>5, <2>5, <2>6, <2>7, OwnedStep
<1>8. ASSUME NEW n \in Names, DependenciesLocked(p, n) PROVE Owned'
  <2> DEFINE o == pipe[p][n]
             w == [o EXCEPT !.pc = "waiting", !.waits = {d \in Names : call.locks[d] = "InUse"},
                            !.launch = Wanted(call.locks)]
  <2>1. o \in Pipeline /\ PipeOK(o) /\ o.st = "running" /\ o.pc = "locking" /\ UNCHANGED excluded
    BY <1>8, LocalTended DEF DependenciesLocked, AtCommand
  <2>2. ~o.group BY <2>1 DEF PipeOK
  <2>3. CASE Update(p, n, Failed(o))
    <3>1. Yields(o, Failed(o)) BY <2>1, <2>2, EndsYield
    <3>2. pipe'[p] = [pipe[p] EXCEPT ![n] = Failed(o)] /\ \A q \in Procs \ {p} : pipe'[q] = pipe[q]
      BY <1>3, <2>3 DEF Update
    <3>3. ASSUME NEW m \in Names, Holding(reg'[p].call, excluded'[p], pipe'[p], Root(p), m)
          PROVE  Holding(reg[p].call, excluded[p], pipe[p], Root(p), m)
      <4>1. Holding(reg[p].call, excluded[p], pipe'[p], Root(p), m) BY <1>6, <2>1, <3>3 DEF Holding
      <4>2. QED BY <1>3, <3>1, <3>2, <4>1, HoldsLess
    <3>4. QED BY <1>1, <1>2, <1>4, <1>5, <2>1, <3>2, <3>3, OwnedStep
  <2>4. CASE call.pc = "return" /\ Update(p, n, w)
    <3>1. w.st = o.st /\ w.dev = o.dev /\ w.failed = o.failed /\ w.launch = Wanted(call.locks) BY <2>1 DEF Pipeline
    <3> HIDE DEF w
    <3>2. pipe'[p] = [pipe[p] EXCEPT ![n] = w] /\ \A q \in Procs \ {p} : pipe'[q] = pipe[q]
      BY <1>3, <2>4 DEF Update
    <3>3. pipe'[p][n] = w /\ \A k \in Names \ {n} : pipe'[p][k] = pipe[p][k] BY <1>3, <3>2
    <3>4. ASSUME NEW m \in Names, Holding(reg'[p].call, excluded'[p], pipe'[p], Root(p), m)
          PROVE  Holding(reg[p].call, excluded[p], pipe[p], Root(p), m)
      <4>1. CASE m # Root(p) /\ \E k \in Names : m \in pipe'[p][k].launch
        <5>1. PICK k \in Names : m \in pipe'[p][k].launch BY <4>1
        <5>2. CASE k = n BY <2>4, <3>1, <3>3, <5>1, <5>2 DEF Holding, Wanted
        <5>3. CASE k # n BY <3>3, <4>1, <5>1, <5>3 DEF Holding
        <5>4. QED BY <5>2, <5>3
      <4>2. CASE m # Root(p) /\ (pipe'[p][m].st \in Alive \/ (pipe'[p][m].dev = "active" /\ ~pipe'[p][m].failed))
        BY <3>1, <3>3, <4>2 DEF Holding
      <4>3. CASE m = Root(p) /\ excluded'[p] = "yes" BY <2>1, <4>3 DEF Holding
      <4>4. QED BY <1>6, <3>4, <4>1, <4>2, <4>3 DEF Holding
    <3>5. QED BY <1>1, <1>2, <1>4, <1>5, <2>1, <3>2, <3>4, OwnedStep
  <2>5. call.pc = "return" \/ call.pc = "error" BY <1>8 DEF DependenciesLocked
  <2>6. QED BY <1>8, <2>3, <2>4, <2>5 DEF DependenciesLocked
<1>9. QED BY <1>7, <1>8

-----------------------------------------------------------------------------
\* Calls and the config map.
LEMMA CallSet ==
  ASSUME TypeOK, NEW p \in Procs, NEW c \in RegistryCall, SetCall(p, c)
  PROVE  reg'[p].call = c /\ \A q \in Procs \ {p} : reg'[q].call = reg[q].call
<1>1. reg \in [Procs -> RegistryType] BY DEF TypeOK, RegistryType
<1>2. QED BY <1>1 DEF SetCall, RegistryType

\* A call that is tried again.
LEMMA RetryKeeps ==
  ASSUME NEW o \in RegistryCall, o.retries \in Nat
  PROVE  Retry(o).pc \in {"get", "error"} /\ Retry(o).copy = o.copy /\ Retry(o).failed = o.failed
<1>1. CASE o.retries = 0 BY <1>1 DEF Retry, RegistryCall
<1>2. CASE o.retries # 0
  <2>1. Retry(o) = [o EXCEPT !.pc = "get", !.retries = o.retries - 1] BY <1>2 DEF Retry, RegistryCall
  <2>2. QED BY <2>1 DEF RegistryCall
<1>3. QED BY <1>1, <1>2

\* A step of a call that locks nothing.
LEMMA CallOwned ==
  ASSUME TypeOK, Owned, Onward, UNCHANGED <<scenario, configMap, proc, excluded, pipe>>,
         NEW p \in Procs, NEW c \in RegistryCall, SetCall(p, c), c.pc = "return" => Wanted(c.locks) = {}, CallOK(p)'
  PROVE  Owned'
<1>1. reg'[p].call = c /\ \A q \in Procs \ {p} : reg'[q].call = reg[q].call BY CallSet
<1>2. \A m \in Names : Holding(reg'[p].call, excluded'[p], pipe'[p], Root(p), m)
                           => Holding(reg[p].call, excluded[p], pipe[p], Root(p), m)
  BY <1>1 DEF Holding, Wanted
<1>3. QED BY <1>1, <1>2, OwnedStep

\* The config map is read.
LEMMA RegistryGetOwned ==
  ASSUME TypeOK, Owned, NEW p \in Procs, RegistryGet(p)
  PROVE  Owned'
<1> DEFINE o == reg[p].call
           c == [o EXCEPT !.pc = "names", !.left = Wanted(o.locks), !.copy = configMap, !.changed = FALSE, !.failed = {}]
           e == [o EXCEPT !.pc = "create"]
<1>1. o \in RegistryCall /\ configMap \in ConfigMap /\ Wanted(o.locks) \subseteq Names BY ProcTypes DEF TypeOK, Wanted
<1>2. UNCHANGED <<scenario, configMap, proc, excluded, pipe, faults>> BY DEF RegistryGet
<1>3. Onward BY <1>2, OnwardPlain DEF Plainly
<1>4. CASE configMap.exists /\ SetCall(p, c)
  <2>1. /\ c \in RegistryCall /\ c.pc = "names" /\ c.left = Wanted(o.locks) /\ c.locks = o.locks /\ c.copy = configMap
        /\ c.failed = {}
    BY <1>1 DEF RegistryCall
  <2> HIDE DEF c
  <2>2. reg'[p].call = c BY <1>4, <2>1, CallSet
  <2>3. configMap.version \in Nat /\ configMap.version <= configMap.version BY <1>1 DEF ConfigMap
  <2>4. \A n \in Names : configMap.owner[n] # None => proc[configMap.owner[n]] \notin {"idle", "resolving"} BY DEF Owned
  <2>5. CallOK(p)' BY <1>2, <1>4, <2>1, <2>2, <2>3, <2>4 DEF CallOK, Asks
  <2>6. QED BY <1>2, <1>3, <1>4, <2>1, <2>5, CallOwned
<1>5. CASE SetCall(p, e)
  <2>1. e \in RegistryCall /\ e.pc = "create" /\ e.copy = o.copy /\ e.failed = o.failed BY <1>1 DEF RegistryCall
  <2> HIDE DEF e
  <2>2. reg'[p].call = e BY <1>5, <2>1, CallSet
  <2>3. CallOK(p) BY DEF Owned
  <2>4. CallOK(p)' BY <1>3, <2>1, <2>2, <2>3, CallQuits
  <2>5. QED BY <1>2, <1>3, <1>5, <2>1, <2>4, CallOwned
<1>6. QED BY <1>4, <1>5 DEF RegistryGet

\* A call that is tried again or fails.
LEMMA CallEndsOwned ==
  ASSUME TypeOK, Owned, Plainly, UNCHANGED <<scenario, configMap, proc, excluded, pipe>>,
         NEW p \in Procs, SetCall(p, Retry(reg[p].call)) \/ SetCall(p, [reg[p].call EXCEPT !.pc = "error"])
  PROVE  Owned'
<1> DEFINE o == reg[p].call
<1>1. o \in RegistryCall /\ o.retries \in Nat BY ProcTypes DEF RegistryCall
<1>2. Onward BY OnwardPlain
<1>3. \E c \in RegistryCall : SetCall(p, c) /\ c.pc \in {"get", "error"} /\ c.copy = o.copy /\ c.failed = o.failed
  <2>1. CASE SetCall(p, Retry(o))
    <3>1. Retry(o) \in RegistryCall BY <1>1, RootType, CallTypes
    <3>2. QED BY <1>1, <2>1, <3>1, RetryKeeps
  <2>2. CASE SetCall(p, [o EXCEPT !.pc = "error"])
    <3> DEFINE c == [o EXCEPT !.pc = "error"]
    <3>1. c \in RegistryCall /\ c.pc = "error" /\ c.copy = o.copy /\ c.failed = o.failed BY <1>1 DEF RegistryCall
    <3>2. QED BY <2>2, <3>1
  <2>3. QED BY <2>1, <2>2
<1>4. PICK c \in RegistryCall : SetCall(p, c) /\ c.pc \in {"get", "error"} /\ c.copy = o.copy /\ c.failed = o.failed
  BY <1>3
<1>5. reg'[p].call = c BY <1>4, CallSet
<1>6. CallOK(p) BY DEF Owned
<1>7. CallOK(p)'
  <2>1. \A n \in Names : reg'[p].call.copy.owner[n] \in {None, reg[p].call.copy.owner[n]} BY <1>4, <1>5
  <2>2. QED BY <1>2, <1>4, <1>5, <1>6, <2>1, CallQuits
<1>8. QED BY <1>2, <1>4, <1>7, CallOwned

\* The config map is written: the names of the call are those of the process,
\* and every other process that has read it finds a later version.
LEMMA WriteOwned ==
  ASSUME TypeOK, Owned, UNCHANGED <<scenario, proc, excluded, pipe, faults>>,
         NEW p \in Procs, SetCall(p, [reg[p].call EXCEPT !.pc = "return"]),
         configMap'.exists, configMap' \in ConfigMap,
         \A n \in Names : configMap'.owner[n] # None => proc[configMap'.owner[n]] \notin {"idle", "resolving"},
         \A q \in Procs \ {p} : Asks(q) => reg[q].call.copy.version < configMap'.version,
         \A n \in Wanted(reg[p].call.locks) : configMap'.owner[n] = p,
         ~faults.pingLost => \A q \in Procs, n \in Names : Occupies(q, n) => configMap'.owner[n] = q \/ Late(q, n)
  PROVE  Owned'
<1> DEFINE o == reg[p].call
           c == [o EXCEPT !.pc = "return"]
<1>1. o \in RegistryCall BY ProcTypes
<1>2. /\ c \in RegistryCall /\ c.pc = "return" /\ c.locks = o.locks /\ c.copy = o.copy /\ c.failed = o.failed
  BY <1>1 DEF RegistryCall
<1>3. reg'[p].call = c /\ \A q \in Procs \ {p} : reg'[q].call = reg[q].call BY <1>2, CallSet
<1> HIDE DEF c
<1>4. Onward BY OnwardPlain DEF Plainly
<1>5. CallOK(p)'
  <2>1. \A n \in Names : reg'[p].call.copy.owner[n] \in {None, reg[p].call.copy.owner[n]} BY <1>2, <1>3
  <2>2. CallOK(p) BY DEF Owned
  <2>3. QED BY <1>2, <1>3, <1>4, <2>1, <2>2, CallQuits
<1>6. ASSUME NEW q \in Procs \ {p} PROVE CallOK(q)'
  <2> DEFINE k == reg[q].call
  <2>1. CallOK(q) /\ reg'[q].call = k /\ k \in RegistryCall BY <1>3, ProcTypes DEF Owned
  <2>2. Asks(q)' <=> Asks(q) BY <2>1 DEF Asks
  <2>3. k.copy.version \in Nat /\ configMap'.version \in Nat BY <2>1 DEF RegistryCall, ConfigMap
  <2>4. Asks(q) => configMap'.exists /\ k.copy.exists /\ k.copy.version <= configMap'.version /\ k.copy.version # configMap'.version
    BY <2>1, <2>3 DEF CallOK
  <2>5. Asks(q) => \A n \in Wanted(k.locks) \ k.left : k.changed /\ k.copy.owner[n] = q BY <2>1 DEF CallOK
  <2>6. k.pc = "excluding" => /\ k.by = "exclude"
                              /\ \A n \in k.left : k.copy.owner[n] \in Procs /\ (Root(k.copy.owner[n]) # n)'
    BY <2>1 DEF CallOK, Root
  <2>7. ~faults'.pingLost => \A x \in k.failed : proc'[x] \in {"ended", "crashed"} BY <2>1 DEF CallOK
  <2>8. \A n \in Names : k.copy.owner[n] # None => proc'[k.copy.owner[n]] \notin {"idle", "resolving"} BY <2>1 DEF CallOK
  <2>9. QED BY <2>1, <2>2, <2>4, <2>5, <2>6, <2>7, <2>8 DEF CallOK
<1>7. ASSUME ~faults.pingLost, NEW q \in Procs, NEW n \in Names, Occupies(q, n)'
      PROVE  configMap'.owner[n] = q \/ Late(q, n)'
  <2>1. Late(q, n)' <=> Late(q, n) BY DEF Late
  <2>2. CASE q # p
    <3>1. Occupies(q, n) BY <1>3, <1>7, <2>2, OccupiesSame
    <3>2. QED BY <1>7, <2>1, <3>1
  <2>3. CASE q = p
    <3>1. CASE o.locks[n] = "Locked" BY <2>3, <3>1 DEF Wanted
    <3>2. CASE o.locks[n] # "Locked"
      <4>1. Root(p)' = Root(p) BY DEF Root
      <4>2. Occupies(p, n) BY <1>2, <1>3, <1>7, <2>3, <3>2, <4>1 DEF Occupies, Running, Holding
      <4>3. QED BY <1>7, <2>1, <2>3, <4>2
    <3>3. QED BY <3>1, <3>2
  <2>4. QED BY <2>2, <2>3
<1>8. \A q \in Procs, n \in Names : Late(q, n)' => (Root(q) # n)' BY DEF Owned, Late, Root
<1>9. QED BY <1>5, <1>6, <1>7, <1>8 DEF Owned

\* The config map is created.
LEMMA RegistryCreateOwned ==
  ASSUME TypeOK, Owned, NEW p \in Procs, RegistryCreate(p)
  PROVE  Owned'
<1> DEFINE o == reg[p].call
           owners == Taken(p, configMap.owner, Wanted(o.locks))
<1>1. UNCHANGED <<scenario, proc, excluded, pipe, faults>> BY DEF RegistryCreate
<1>2. CASE SetCall(p, Retry(o)) /\ UNCHANGED configMap
  <2>1. Plainly BY <1>1 DEF Plainly
  <2>2. QED BY <1>1, <1>2, <2>1, CallEndsOwned
<1>3. CASE /\ ~configMap.exists /\ SetCall(p, [o EXCEPT !.pc = "return"])
           /\ configMap' = [exists |-> TRUE, version |-> 1, owner |-> owners]
  <2>1. configMap.owner = [n \in Names |-> None] BY <1>3 DEF Owned, NoConfigMap
  <2>2. \A n \in Names : owners[n] = IF n \in Wanted(o.locks) THEN p ELSE None BY <2>1 DEF Taken
  <2>3. Wanted(o.locks) \subseteq Names BY DEF Wanted
  <2>4. owners \in [Names -> Procs \cup {None}] BY <2>2, <2>3 DEF Taken
  <2>5. configMap'.exists /\ configMap' \in ConfigMap /\ configMap'.owner = owners BY <1>3, <2>4 DEF ConfigMap
  <2>6. Running(p) /\ None \notin Procs BY PipelinesAssumption DEF RegistryCreate, Call
  <2>7. \A n \in Names : configMap'.owner[n] # None => proc[configMap'.owner[n]] \notin {"idle", "resolving"}
    BY <2>2, <2>5, <2>6 DEF Running
  <2>8. \A q \in Procs \ {p} : Asks(q) => reg[q].call.copy.version < configMap'.version BY <1>3 DEF Owned, CallOK
  <2>9. \A n \in Wanted(o.locks) : configMap'.owner[n] = p BY <2>2, <2>3, <2>5
  <2>10. ~faults.pingLost => \A q \in Procs, n \in Names : Occupies(q, n) => configMap'.owner[n] = q \/ Late(q, n)
    BY <2>1, <2>6 DEF Owned
  <2>11. QED BY <1>1, <1>3, <2>5, <2>7, <2>8, <2>9, <2>10, WriteOwned
<1>4. QED BY <1>2, <1>3 DEF RegistryCreate

\* The copy is written back if nobody else has written since it was read.
LEMMA RegistryUpdateOwned ==
  ASSUME TypeOK, Owned, NEW p \in Procs, RegistryUpdate(p)
  PROVE  Owned'
<1> DEFINE o == reg[p].call
<1>1. UNCHANGED <<scenario, proc, excluded, pipe, faults>> BY DEF RegistryUpdate
<1>2. Plainly /\ Onward BY <1>1, OnwardPlain DEF Plainly
<1>3. o.pc = "names" /\ o.left = {} /\ o \in RegistryCall /\ CallOK(p) BY ProcTypes DEF RegistryUpdate, Call, Owned
<1>4. Asks(p) BY <1>3 DEF Asks
<1>5. \A n \in Wanted(o.locks) : o.changed /\ o.copy.owner[n] = p BY <1>3, <1>4 DEF CallOK
<1>6. CASE SetCall(p, Retry(o)) /\ UNCHANGED configMap BY <1>1, <1>2, <1>6, CallEndsOwned
<1>7. CASE ~o.changed /\ SetCall(p, [o EXCEPT !.pc = "return"]) /\ UNCHANGED configMap
  <2> DEFINE c == [o EXCEPT !.pc = "return"]
  <2>1. /\ c \in RegistryCall /\ c.pc = "return" /\ c.locks = o.locks /\ c.copy = o.copy /\ c.failed = o.failed
    BY <1>3 DEF RegistryCall
  <2> HIDE DEF c
  <2>2. Wanted(c.locks) = {} BY <1>5, <1>7, <2>1
  <2>3. reg'[p].call = c BY <1>7, <2>1, CallSet DEF c
  <2>4. \A n \in Names : reg'[p].call.copy.owner[n] \in {None, reg[p].call.copy.owner[n]} BY <2>1, <2>3
  <2>5. CallOK(p)' BY <1>2, <1>3, <2>1, <2>3, <2>4, CallQuits
  <2>6. QED BY <1>1, <1>2, <1>7, <2>1, <2>2, <2>5, CallOwned DEF c
<1>8. CASE /\ o.copy.version = configMap.version /\ SetCall(p, [o EXCEPT !.pc = "return"])
           /\ configMap' = [o.copy EXCEPT !.version = @ + 1]
  <2>1. o.copy \in ConfigMap BY <1>3 DEF RegistryCall
  <2>2. /\ configMap' \in ConfigMap /\ configMap'.exists = o.copy.exists /\ configMap'.owner = o.copy.owner
        /\ configMap'.version = configMap.version + 1
    BY <1>8, <2>1 DEF ConfigMap
  <2>3. configMap'.exists BY <1>3, <1>4, <2>2 DEF CallOK
  <2>4. \A n \in Names : configMap'.owner[n] # None => proc[configMap'.owner[n]] \notin {"idle", "resolving"}
    BY <1>3, <2>2 DEF CallOK
  <2>5. ASSUME NEW q \in Procs, Asks(q) PROVE reg[q].call.copy.version < configMap'.version
    <3>1. reg[q].call.copy.version \in Nat /\ configMap.version \in Nat BY ProcTypes DEF RegistryCall, ConfigMap, TypeOK
    <3>2. reg[q].call.copy.version <= configMap.version BY <2>5 DEF Owned, CallOK
    <3>3. QED BY <2>2, <3>1, <3>2
  <2>6. \A n \in Wanted(o.locks) : configMap'.owner[n] = p BY <1>5, <2>2
  <2>7. ASSUME ~faults.pingLost, NEW q \in Procs, NEW n \in Names, Occupies(q, n)
        PROVE  configMap'.owner[n] = q \/ Late(q, n)
    <3>1. configMap.owner[n] = q \/ Late(q, n) BY <2>7 DEF Owned
    <3>2. \/ o.copy.owner[n] = configMap.owner[n]
          \/ o.copy.owner[n] = p /\ \A k \in Procs \ {p} : Occupies(k, n) => Late(k, n)
      BY <1>3, <1>4, <1>8, <2>7 DEF CallOK
    <3>3. QED BY <2>2, <2>7, <3>1, <3>2
  <2>8. QED BY <1>1, <1>8, <2>2, <2>3, <2>4, <2>5, <2>6, <2>7, WriteOwned
<1>9. QED BY <1>6, <1>7, <1>8 DEF RegistryUpdate

\* A call fails.
LEMMA RegistryFailsOwned ==
  ASSUME TypeOK, Owned, NEW p \in Procs, RegistryFails(p)
  PROVE  Owned'
<1>1. UNCHANGED <<scenario, configMap, proc, excluded, pipe>> BY DEF RegistryFails
<1>2. faults' = faults \/ faults' = [faults EXCEPT !.count = @ + 1] BY DEF RegistryFails
<1>3. Plainly BY <1>2, PlainFaults
<1>4. SetCall(p, [reg[p].call EXCEPT !.pc = "error"]) BY DEF RegistryFails
<1>5. QED BY <1>1, <1>3, <1>4, CallEndsOwned

\* A name is taken over: of a process that does not run it.
LEMMA TakesOwned ==
  ASSUME TypeOK, Owned, Onward, NEW p \in Procs, Local(p), Running(p), Asks(p), NEW n \in reg[p].call.left,
         NEW c \in RegistryCall, SetCall(p, c), Takes(reg[p].call, c, p, n),
         UNCHANGED <<scenario, configMap, proc, excluded, pipe>>,
         ~faults'.pingLost /\ reg[p].call.copy.version = configMap.version =>
             \A q \in Procs \ {p} : Occupies(q, n) => Late(q, n)',
         ~faults'.pingLost => \A q \in c.failed : proc[q] \in {"ended", "crashed"}
  PROVE  Owned'
<1> DEFINE o == reg[p].call
<1>1. o \in RegistryCall /\ o.left \subseteq Wanted(o.locks) /\ n \in Names BY CallLeft DEF Wanted
<1>2. CallOK(p) BY DEF Owned
<1>3. reg'[p].call = c /\ \A q \in Procs \ {p} : reg'[q].call = reg[q].call BY CallSet
<1>4. /\ c.pc = "names" /\ c.locks = o.locks /\ c.left = o.left \ {n} /\ c.changed
      /\ c.copy.exists = o.copy.exists /\ c.copy.version = o.copy.version
      /\ c.copy.owner = [o.copy.owner EXCEPT ![n] = p]
  BY DEF Takes
<1>5. o.copy.owner \in [Names -> Procs \cup {None}] BY <1>1 DEF RegistryCall, ConfigMap
<1>6. c.copy.owner[n] = p /\ \A k \in Names \ {n} : c.copy.owner[k] = o.copy.owner[k] BY <1>1, <1>4, <1>5
<1>7. configMap.exists /\ c.copy.exists /\ c.copy.version <= configMap.version BY <1>2, <1>4 DEF CallOK
<1>8. \A k \in Wanted(c.locks) \ c.left : c.changed /\ c.copy.owner[k] = p
  <2>1. \A k \in Wanted(o.locks) \ o.left : o.copy.owner[k] = p BY <1>2 DEF CallOK
  <2>2. Wanted(o.locks) \subseteq Names BY DEF Wanted
  <2>3. QED BY <1>4, <1>6, <2>1, <2>2
<1>9. \A q \in Procs, k \in Names : Occupies(q, k)' => Occupies(q, k)
  <2>1. ASSUME NEW k \in Names, Occupies(p, k)' PROVE Occupies(p, k)
    <3>1. Root(p)' = Root(p) BY DEF Root
    <3>2. QED BY <1>3, <1>4, <2>1, <3>1 DEF Occupies, Running, Holding
  <2>2. QED BY <1>3, <2>1, OccupiesSame
<1>10. ASSUME ~faults'.pingLost, c.copy.version = configMap.version, NEW k \in Names
       PROVE  \/ c.copy.owner[k] = configMap.owner[k]
              \/ /\ k \in Wanted(c.locks) \ c.left /\ c.copy.owner[k] = p
                 /\ \A q \in Procs \ {p} : Occupies(q, k)' => Late(q, k)'
  <2>1. CASE k = n BY <1>1, <1>4, <1>6, <1>9, <1>10, <2>1
  <2>2. CASE k # n
    <3>1. ~faults.pingLost BY <1>10 DEF Onward
    <3>2. \/ o.copy.owner[k] = configMap.owner[k]
          \/ /\ k \in Wanted(o.locks) \ o.left /\ o.copy.owner[k] = p
             /\ \A q \in Procs \ {p} : Occupies(q, k) => Late(q, k)
      BY <1>2, <1>4, <1>10, <3>1 DEF CallOK
    <3>3. \A q \in Procs : Late(q, k) => Late(q, k)' BY DEF Onward
    <3>4. QED BY <1>4, <1>6, <1>9, <2>2, <3>2, <3>3
  <2>3. QED BY <2>1, <2>2
<1>11. \A k \in Names : c.copy.owner[k] # None => proc[c.copy.owner[k]] \notin {"idle", "resolving"}
  BY <1>2, <1>6 DEF CallOK, Running
<1>12. CallOK(p)' BY <1>3, <1>4, <1>7, <1>8, <1>10, <1>11 DEF CallOK, Asks
<1>13. QED BY <1>4, <1>12, CallOwned

\* A name is found in use.
LEMMA FindsOwned ==
  ASSUME TypeOK, Owned, Onward, NEW p \in Procs, Local(p), Asks(p), NEW n \in reg[p].call.left,
         NEW lock \in {"InUse", "InUseByOtherInstance"},
         NEW c \in RegistryCall, SetCall(p, c), Finds(reg[p].call, c, n, lock),
         UNCHANGED <<scenario, configMap, proc, excluded, pipe>>, Plainly
  PROVE  Owned'
<1> DEFINE o == reg[p].call
<1>1. o \in RegistryCall /\ o.left \subseteq Wanted(o.locks) /\ n \in Names BY CallLeft DEF Wanted
<1>2. CallOK(p) BY DEF Owned
<1>3. reg'[p].call = c /\ \A q \in Procs \ {p} : reg'[q].call = reg[q].call BY CallSet
<1>4. /\ c.pc = "names" /\ c.locks = [o.locks EXCEPT ![n] = lock] /\ c.left = o.left \ {n} /\ c.changed = o.changed
      /\ c.copy = o.copy /\ c.failed = o.failed
  BY DEF Finds
<1>5. Wanted(c.locks) \ c.left = Wanted(o.locks) \ o.left
  <2>1. o.locks \in [Names -> Locks \cup {Absent}] BY <1>1 DEF RegistryCall
  <2>2. c.locks[n] = lock /\ \A k \in Names \ {n} : c.locks[k] = o.locks[k] BY <1>1, <1>4, <2>1
  <2>3. Wanted(c.locks) = Wanted(o.locks) \ {n} BY <2>2 DEF Wanted
  <2>4. QED BY <1>1, <1>4, <2>3
<1>6. \A q \in Procs, k \in Names : Occupies(q, k)' => Occupies(q, k)
  <2>1. ASSUME NEW k \in Names, Occupies(p, k)' PROVE Occupies(p, k)
    <3>1. Root(p)' = Root(p) BY DEF Root
    <3>2. QED BY <1>3, <1>4, <2>1, <3>1 DEF Occupies, Running, Holding
  <2>2. QED BY <1>3, <2>1, OccupiesSame
<1>7. \A q \in Procs, k \in Names : Late(q, k)' <=> Late(q, k) BY DEF Late, Plainly
<1>8. /\ configMap.exists /\ o.copy.exists /\ o.copy.version <= configMap.version
      /\ \A k \in Wanted(o.locks) \ o.left : o.changed /\ o.copy.owner[k] = p
      /\ ~faults.pingLost /\ o.copy.version = configMap.version => \A k \in Names :
          \/ o.copy.owner[k] = configMap.owner[k]
          \/ /\ k \in Wanted(o.locks) \ o.left /\ o.copy.owner[k] = p
             /\ \A q \in Procs \ {p} : Occupies(q, k) => Late(q, k)
      /\ ~faults.pingLost => \A q \in o.failed : proc[q] \in {"ended", "crashed"}
      /\ \A k \in Names : o.copy.owner[k] # None => proc[o.copy.owner[k]] \notin {"idle", "resolving"}
  BY <1>2 DEF CallOK
<1>9. ~faults'.pingLost /\ c.copy.version = configMap.version => \A k \in Names :
          \/ c.copy.owner[k] = configMap.owner[k]
          \/ /\ k \in Wanted(c.locks) \ c.left /\ c.copy.owner[k] = p
             /\ \A q \in Procs \ {p} : Occupies(q, k)' => Late(q, k)'
  BY <1>4, <1>5, <1>6, <1>7, <1>8 DEF Plainly
<1>10. CallOK(p)' BY <1>3, <1>4, <1>5, <1>8, <1>9 DEF CallOK, Asks, Plainly
<1>11. QED BY <1>4, <1>10, CallOwned

\* The owner of a name that is still to be looked at.
LEMMA OwnerOf ==
  ASSUME TypeOK, Owned, NEW p \in Procs, Local(p), Asks(p), NEW n \in reg[p].call.left
  PROVE  /\ n \in Names /\ reg[p].call.copy.owner[n] \in Procs \cup {None}
         /\ ~faults.pingLost /\ reg[p].call.copy.version = configMap.version =>
                \A q \in Procs : Occupies(q, n) => q = reg[p].call.copy.owner[n] \/ Late(q, n)
         /\ reg[p].call.copy.owner[n] # None => proc[reg[p].call.copy.owner[n]] \notin {"idle", "resolving"}
<1> DEFINE o == reg[p].call
<1>1. o \in RegistryCall /\ o.left \subseteq Wanted(o.locks) /\ n \in Names BY CallLeft DEF Wanted
<1>2. o.copy.owner[n] \in Procs \cup {None} BY <1>1 DEF RegistryCall, ConfigMap
<1>3. CallOK(p) BY DEF Owned
<1>4. ASSUME ~faults.pingLost, o.copy.version = configMap.version
      PROVE  \A q \in Procs : Occupies(q, n) => q = o.copy.owner[n] \/ Late(q, n)
  <2>1. o.copy.owner[n] = configMap.owner[n] BY <1>1, <1>3, <1>4 DEF CallOK
  <2>2. QED BY <1>1, <1>4, <2>1 DEF Owned
<1>5. o.copy.owner[n] # None => proc[o.copy.owner[n]] \notin {"idle", "resolving"} BY <1>1, <1>3 DEF CallOK
<1>6. QED BY <1>1, <1>2, <1>4, <1>5

\* A name of nobody, of the process itself, of a process that did not answer, or in use.
LEMMA RegistryNameOwned ==
  ASSUME TypeOK, Owned, NEW p \in Procs, Local(p), NEW n \in Names, RegistryName(p, n) \/ RegistryInUse(p, n)
  PROVE  Owned'
<1> DEFINE o == reg[p].call
           owner == o.copy.owner[n]
<1>1. Running(p) /\ Asks(p) /\ n \in o.left BY DEF RegistryName, RegistryInUse, Call, Asks
<1>2. o \in RegistryCall BY ProcTypes
<1>3. UNCHANGED <<scenario, configMap, proc, excluded, pipe, faults>> BY DEF RegistryName, RegistryInUse
<1>4. Plainly /\ Onward BY <1>3, OnwardPlain DEF Plainly
<1>5. CASE (owner = None \/ owner \in o.failed) /\ SetCall(p, TakeOver(o, p, n))
  <2> DEFINE c == TakeOver(o, p, n)
  <2>1. c \in RegistryCall BY <1>2, CallTypes
  <2>2. Takes(o, c, p, n) /\ c.failed = o.failed BY <1>2, TakesOver
  <2> HIDE DEF c
  <2>3. CallOK(p) BY DEF Owned
  <2>4. ~faults'.pingLost => \A q \in c.failed : proc[q] \in {"ended", "crashed"} BY <1>3, <2>2, <2>3 DEF CallOK
  <2>5. ASSUME ~faults'.pingLost, o.copy.version = configMap.version, NEW q \in Procs \ {p}, Occupies(q, n)
        PROVE  Late(q, n)'
    <3>1. q = owner \/ Late(q, n) BY <1>1, <1>3, <2>5, OwnerOf
    <3>2. owner # q
      <4>1. owner = None => owner # q BY PipelinesAssumption
      <4>2. owner \in o.failed => ~Running(owner) BY <1>3, <2>3, <2>5 DEF CallOK, Running
      <4>3. Running(q) BY <2>5 DEF Occupies
      <4>4. QED BY <1>5, <4>1, <4>2, <4>3
    <3>3. QED BY <1>3, <3>1, <3>2 DEF Late
  <2>6. QED BY <1>1, <1>3, <1>4, <1>5, <2>1, <2>2, <2>4, <2>5, TakesOwned DEF c
<1>6. ASSUME NEW lock \in {"InUse", "InUseByOtherInstance"}, SetCall(p, Refuse(o, n, lock)) PROVE Owned'
  <2>1. lock \in Locks BY DEF Locks
  <2>2. Refuse(o, n, lock) \in RegistryCall BY <1>2, <2>1, CallTypes
  <2>3. Finds(o, Refuse(o, n, lock), n, lock) BY <1>2, <2>1, FindsInUse
  <2>4. QED BY <1>1, <1>3, <1>4, <1>6, <2>2, <2>3, FindsOwned
<1>7. QED BY <1>5, <1>6 DEF RegistryName, RegistryInUse

\* The owner of a name does not answer.
LEMMA RegistryPingFailsOwned ==
  ASSUME TypeOK, Owned, NEW p \in Procs, Local(p), NEW n \in Names, RegistryPingFails(p, n)
  PROVE  Owned'
<1> DEFINE o == reg[p].call
           owner == o.copy.owner[n]
           c == [TakeOver(o, p, n) EXCEPT !.failed = @ \cup {owner}]
<1>1. Running(p) /\ Asks(p) /\ n \in o.left /\ owner # None /\ SetCall(p, c) BY DEF RegistryPingFails, Call, Asks
<1>2. o \in RegistryCall BY ProcTypes
<1>3. UNCHANGED <<scenario, configMap, proc, excluded, pipe>> BY DEF RegistryPingFails
<1>4. owner \in Procs /\ proc[owner] \notin {"idle", "resolving"} BY <1>1, OwnerOf
<1>5. /\ faults.pingLost => faults'.pingLost /\ faults'.late = faults.late
      /\ faults'.late = faults.late
      /\ Running(owner) => faults'.pingLost
  <2>1. CASE Running(owner)
    <3>1. faults' = [faults EXCEPT !.count = @ + 1, !.pingLost = TRUE] BY <2>1 DEF RegistryPingFails
    <3>2. QED BY <3>1 DEF TypeOK
  <2>2. CASE ~Running(owner)
    <3>1. faults' = faults BY <2>2 DEF RegistryPingFails
    <3>2. QED BY <2>2, <3>1
  <2>3. QED BY <2>1, <2>2
<1>6. Onward BY <1>3, <1>5 DEF Owned, Onward, Late
<1>7. c \in RegistryCall BY <1>2, <1>4, CallTypes
<1>8. Takes(o, c, p, n) /\ c.failed = o.failed \cup {owner} BY <1>2, <1>4, TakesOver
<1> HIDE DEF c
<1>9. ~Running(owner) => proc[owner] \in {"ended", "crashed"} BY <1>4 DEF TypeOK, Running
<1>10. ~faults'.pingLost => \A q \in c.failed : proc[q] \in {"ended", "crashed"}
  <2>1. CallOK(p) BY DEF Owned
  <2>2. QED BY <1>5, <1>8, <1>9, <2>1 DEF CallOK
<1>11. ASSUME ~faults'.pingLost, o.copy.version = configMap.version, NEW q \in Procs \ {p}, Occupies(q, n)
       PROVE  Late(q, n)'
  <2>1. q = owner \/ Late(q, n) BY <1>1, <1>5, <1>11, OwnerOf
  <2>2. q # owner BY <1>5, <1>11 DEF Occupies
  <2>3. QED BY <1>5, <2>1, <2>2 DEF Late
<1>12. QED BY <1>1, <1>3, <1>6, <1>7, <1>8, <1>10, <1>11, TakesOwned

\* excludeDependency has answered: the dependency is not occupied.
LEMMA RepliedFree ==
  ASSUME TypeOK, NEW q \in Procs, Local(q), NEW n \in Names, handler[q][n] = "replied"
  PROVE  ~Occupies(q, n)
<1> DEFINE P == pipe[q]
           call == reg[q].call
           root == Root(q)
<1>1. Inside(reg[q], excluded[q], P, handler[q], root, DepsOf(q), scenario.tolerant) BY DEF Local
<1>2. n # root /\ P[n].st = "dead" /\ (P[n].failed \/ P[n].dev # "active") BY <1>1 DEF Inside, Handled
<1>3. reg[q].known[n] = "InUse" BY <1>1, <1>2 DEF Inside, KnownOK
<1>4. ~(call.pc = "return" /\ call.locks[n] = "Locked")
  <2>1. call \in RegistryCall BY ProcTypes
  <2>2. CASE call.by = "exclude"
    <3>1. call.locks[n] = Absent BY <1>1, <1>2, <2>2 DEF Inside, CallKnown
    <3>2. QED BY <3>1 DEF Absent
  <2>3. CASE call.by \in Names
    <3>1. call.locks[n] = "Locked" => reg[q].known[n] = Absent BY <1>1, <2>3 DEF Inside, CallKnown
    <3>2. QED BY <1>3, <3>1 DEF Absent
  <2>4. CASE call.by = None BY <1>1, <2>4 DEF Inside, Calls
  <2>5. QED BY <2>1, <2>2, <2>3, <2>4 DEF RegistryCall
<1>5. \A m \in Names : n \notin P[m].launch BY <1>1, <1>2 DEF Inside, Tree
<1>6. QED BY <1>2, <1>4, <1>5 DEF Occupies, Holding, Alive

\* A dependency that is given away late.
LEMMA GivenLate ==
  ASSUME TypeOK, Owned, UNCHANGED <<scenario, proc>>, NEW q \in Procs, NEW n \in Names, Root(q) # n,
         faults'.pingLost = faults.pingLost, faults'.late = faults.late \cup {<<q, n>>}
  PROVE  Onward /\ Late(q, n)' /\ \A x \in Procs : Late(x, n) => Late(x, n)'
BY DEF Owned, Onward, Late

\* The owner has given a dependency up, or is not waited for any longer.
LEMMA RegistryExcludedOwned ==
  ASSUME TypeOK, Owned, \A q \in Procs : Local(q), NEW p \in Procs, NEW n \in Names, RegistryExcluded(p, n)
  PROVE  Owned'
<1> DEFINE o == reg[p].call
           owner == o.copy.owner[n]
           c == TakeOver(o, p, n)
<1>1. Running(p) /\ Asks(p) /\ n \in o.left /\ o.pc = "excluding" /\ SetCall(p, c) BY DEF RegistryExcluded, Call, Asks
<1>2. o \in RegistryCall BY ProcTypes
<1>3. UNCHANGED <<scenario, configMap, proc, excluded, pipe>> BY DEF RegistryExcluded
<1>4. CallOK(p) BY DEF Owned
<1>5. PICK q \in Procs : q = owner /\ Root(q) # n BY <1>1, <1>4 DEF CallOK
<1>6. c \in RegistryCall BY <1>2, CallTypes
<1>7. Takes(o, c, p, n) /\ c.failed = o.failed BY <1>2, TakesOver
<1> HIDE DEF c
<1>8. \/ faults' = faults /\ ~Occupies(q, n)
      \/ faults'.pingLost = faults.pingLost /\ faults'.late = faults.late \cup {<<q, n>>}
  <2>1. CASE ~Running(q) /\ faults' = faults BY <2>1 DEF Occupies
  <2>2. CASE handler[q][n] = "replied" /\ faults' = faults BY <2>2, RepliedFree
  <2>3. CASE \/ faults' = [faults EXCEPT !.late = @ \cup {<<q, n>>}]
             \/ faults' = [faults EXCEPT !.count = @ + 1, !.late = @ \cup {<<q, n>>}]
    BY <2>3 DEF TypeOK
  <2>4. QED BY <1>5, <2>1, <2>2, <2>3 DEF RegistryExcluded
<1>9. Onward /\ (\A x \in Procs : Late(x, n) => Late(x, n)') /\ (~Occupies(q, n) \/ Late(q, n)') /\ faults'.pingLost = faults.pingLost
  <2>1. CASE faults' = faults /\ ~Occupies(q, n) BY <1>3, <2>1, OnwardPlain DEF Plainly, Late
  <2>2. CASE faults'.pingLost = faults.pingLost /\ faults'.late = faults.late \cup {<<q, n>>} BY <1>3, <1>5, <2>2, GivenLate
  <2>3. QED BY <1>8, <2>1, <2>2
<1>10. ~faults'.pingLost => \A x \in c.failed : proc[x] \in {"ended", "crashed"} BY <1>4, <1>7, <1>9 DEF CallOK
<1>11. ASSUME ~faults'.pingLost, o.copy.version = configMap.version, NEW x \in Procs \ {p}, Occupies(x, n)
       PROVE  Late(x, n)'
  <2>1. x = owner \/ Late(x, n) BY <1>1, <1>9, <1>11, OwnerOf
  <2>2. QED BY <1>5, <1>9, <1>11, <2>1
<1>12. QED BY <1>1, <1>3, <1>6, <1>7, <1>9, <1>10, <1>11, TakesOwned

\* The owner is asked to give a dependency up.
LEMMA RegistryExcludeOwned ==
  ASSUME TypeOK, Owned, \A q \in Procs : Local(q), NEW p \in Procs, NEW n \in Names, RegistryExclude(p, n)
  PROVE  Owned'
<1> DEFINE o == reg[p].call
           owner == o.copy.owner[n]
<1>1. Running(p) /\ Asks(p) /\ n \in o.left /\ o.pc = "names" /\ o.by = "exclude" /\ owner \notin {None, p}
  BY DEF RegistryExclude, Call, Asks, ForceLeader
<1>2. o \in RegistryCall /\ o.left \subseteq Wanted(o.locks) BY <1>1, CallLeft
<1>3. UNCHANGED <<scenario, configMap, proc, excluded>> BY DEF RegistryExclude
<1>4. CallOK(p) BY DEF Owned
<1>5. PICK q \in Procs \ {p} : q = owner BY <1>1, OwnerOf
<1>6. CASE SetCall(p, Refuse(o, n, "InUseByOtherInstance")) /\ UNCHANGED <<pipe, faults>>
  <2>1. "InUseByOtherInstance" \in Locks BY DEF Locks
  <2>2. Refuse(o, n, "InUseByOtherInstance") \in RegistryCall BY <1>2, <2>1, CallTypes
  <2>3. Finds(o, Refuse(o, n, "InUseByOtherInstance"), n, "InUseByOtherInstance") BY <1>2, <2>1, FindsInUse
  <2>4. Plainly /\ Onward BY <1>3, <1>6, OnwardPlain DEF Plainly
  <2>5. QED BY <1>1, <1>3, <1>6, <2>2, <2>3, <2>4, FindsOwned
<1>7. CASE /\ Root(q) # n /\ SetCall(p, TakeOver(o, p, n)) /\ UNCHANGED pipe
           /\ faults' = [faults EXCEPT !.late = @ \cup {<<q, n>>}]
  <2> DEFINE c == TakeOver(o, p, n)
  <2>1. c \in RegistryCall BY <1>2, CallTypes
  <2>2. Takes(o, c, p, n) /\ c.failed = o.failed BY <1>2, TakesOver
  <2> HIDE DEF c
  <2>3. faults'.pingLost = faults.pingLost /\ faults'.late = faults.late \cup {<<q, n>>} BY <1>7 DEF TypeOK
  <2>4. Onward /\ Late(q, n)' /\ \A x \in Procs : Late(x, n) => Late(x, n)' BY <1>3, <1>7, <2>3, GivenLate
  <2>5. ~faults'.pingLost => \A x \in c.failed : proc[x] \in {"ended", "crashed"} BY <1>4, <2>2, <2>3 DEF CallOK
  <2>6. ASSUME ~faults'.pingLost, o.copy.version = configMap.version, NEW x \in Procs \ {p}, Occupies(x, n)
        PROVE  Late(x, n)'
    <3>1. x = owner \/ Late(x, n) BY <1>1, <2>3, <2>6, OwnerOf
    <3>2. QED BY <1>5, <2>4, <3>1
  <2>7. QED BY <1>1, <1>3, <1>7, <2>1, <2>2, <2>4, <2>5, <2>6, TakesOwned DEF c
<1>8. CASE /\ Root(q) # n /\ SetCall(p, [o EXCEPT !.pc = "excluding"]) /\ UNCHANGED faults
           /\ Update(q, n, [pipe[q][n] EXCEPT !.killed = TRUE])
  <2> DEFINE c == [o EXCEPT !.pc = "excluding"]
             r == [pipe[q][n] EXCEPT !.killed = TRUE]
  <2>1. /\ c \in RegistryCall /\ c.pc = "excluding" /\ c.by = o.by /\ c.locks = o.locks /\ c.left = o.left
        /\ c.copy = o.copy /\ c.failed = o.failed /\ c.changed = o.changed
    BY <1>2 DEF RegistryCall
  <2> HIDE DEF c
  <2>2. reg'[p].call = c /\ \A x \in Procs \ {p} : reg'[x].call = reg[x].call BY <1>8, <2>1, CallSet DEF c
  <2>3. Plainly /\ Onward BY <1>3, <1>8, OnwardPlain DEF Plainly
  <2>4. pipe \in [Procs -> [Names -> Pipeline]] BY DEF TypeOK
  <2>5. pipe'[q] = [pipe[q] EXCEPT ![n] = r] /\ \A x \in Procs \ {q} : pipe'[x] = pipe[x] BY <1>8, <2>4 DEF Update
  <2>6. Yields(pipe[q][n], r)
    <3>1. pipe[q][n] \in Pipeline BY <2>4
    <3>2. r \in Pipeline BY <3>1, PipelineTypes
    <3>3. r.launch = pipe[q][n].launch /\ r.st = pipe[q][n].st /\ r.dev = pipe[q][n].dev /\ r.failed = pipe[q][n].failed
      BY <3>1 DEF Pipeline
    <3> HIDE DEF r
    <3>4. QED BY <3>2, <3>3 DEF Yields
  <2> HIDE DEF r
  <2>7. ASSUME NEW m \in Names, Occupies(q, m)' PROVE Occupies(q, m)
    <3>1. Root(q) \in Names /\ Root(q)' = Root(q) /\ pipe[q] \in [Names -> Pipeline] BY <1>3, <2>4, RootType DEF Root
    <3>2. Running(q) /\ Holding(reg[q].call, excluded[q], pipe'[q], Root(q), m)
      BY <1>3, <1>5, <2>2, <2>7, <3>1 DEF Occupies, Running
    <3>3. Holding(reg[q].call, excluded[q], pipe[q], Root(q), m) BY <2>5, <2>6, <3>1, <3>2, HoldsLess
    <3>4. QED BY <3>2, <3>3 DEF Occupies
  <2>8. ASSUME NEW m \in Names, Occupies(p, m)' PROVE Occupies(p, m)
    <3>1. Root(p)' = Root(p) /\ pipe'[p] = pipe[p] BY <1>3, <1>5, <2>5 DEF Root
    <3>2. QED BY <1>3, <2>1, <2>2, <2>8, <3>1 DEF Occupies, Running, Holding
  <2>9. ASSUME NEW x \in Procs \ {p, q}, NEW m \in Names, Occupies(x, m)' PROVE Occupies(x, m)
    BY <1>3, <2>2, <2>5, <2>9, OccupiesSame
  <2>10. Recedes BY <2>7, <2>8, <2>9 DEF Recedes
  <2>11. \A m \in o.left : m = n
    <3>1. Inside(reg[p], excluded[p], pipe[p], handler[p], Root(p), DepsOf(p), scenario.tolerant) BY DEF Local
    <3>2. \A m \in Names : o.locks[m] # Absent => m = Root(p) BY <1>1, <3>1 DEF Inside, CallKnown
    <3>3. \A m \in o.left : m = Root(p) BY <1>2, <3>2 DEF Wanted, Absent
    <3>4. QED BY <1>1, <3>3
  <2>12. \A m \in c.left : c.copy.owner[m] \in Procs /\ scenario'.project[c.copy.owner[m]] # m
    <3>1. scenario'.project[q] # n BY <1>3, <1>8 DEF Root
    <3>2. c.left = o.left /\ c.copy.owner[n] = q BY <1>5, <2>1
    <3>3. QED BY <2>11, <3>1, <3>2
  <2>13. \A x \in Procs, m \in Names : Late(x, m)' <=> Late(x, m) BY <1>8 DEF Late
  <2>14. /\ configMap.exists /\ o.copy.exists /\ o.copy.version <= configMap.version
         /\ \A k \in Wanted(o.locks) \ o.left : o.changed /\ o.copy.owner[k] = p
         /\ ~faults.pingLost /\ o.copy.version = configMap.version => \A k \in Names :
             \/ o.copy.owner[k] = configMap.owner[k]
             \/ /\ k \in Wanted(o.locks) \ o.left /\ o.copy.owner[k] = p
                /\ \A x \in Procs \ {p} : Occupies(x, k) => Late(x, k)
         /\ ~faults.pingLost => \A x \in o.failed : proc[x] \in {"ended", "crashed"}
         /\ \A k \in Names : o.copy.owner[k] # None => proc[o.copy.owner[k]] \notin {"idle", "resolving"}
    BY <1>1, <1>4 DEF CallOK
  <2>15. ~faults'.pingLost /\ c.copy.version = configMap.version => \A k \in Names :
             \/ c.copy.owner[k] = configMap.owner[k]
             \/ /\ k \in Wanted(c.locks) \ c.left /\ c.copy.owner[k] = p
                /\ \A x \in Procs \ {p} : Occupies(x, k)' => Late(x, k)'
    BY <1>8, <2>1, <2>10, <2>13, <2>14 DEF Recedes
  <2>16. CallOK(p)'
    <3> DEFINE d == reg'[p].call
    <3>1. d = c /\ configMap' = configMap /\ proc' = proc /\ scenario' = scenario /\ faults' = faults BY <1>3, <1>8, <2>2
    <3>2. /\ configMap'.exists /\ d.copy.exists /\ d.copy.version <= configMap'.version
          /\ \A k \in Wanted(d.locks) \ d.left : d.changed /\ d.copy.owner[k] = p
      BY <2>1, <2>14, <3>1
    <3>3. d.by = "exclude" /\ \A m \in d.left : d.copy.owner[m] \in Procs /\ scenario'.project[d.copy.owner[m]] # m
      BY <1>1, <2>1, <2>12, <3>1
    <3>4. ~faults'.pingLost => \A x \in d.failed : proc'[x] \in {"ended", "crashed"} BY <2>1, <2>14, <3>1
    <3>5. \A k \in Names : d.copy.owner[k] # None => proc'[d.copy.owner[k]] \notin {"idle", "resolving"}
      BY <2>1, <2>14, <3>1
    <3>6. ~faults'.pingLost /\ d.copy.version = configMap'.version => \A k \in Names :
             \/ d.copy.owner[k] = configMap'.owner[k]
             \/ /\ k \in Wanted(d.locks) \ d.left /\ d.copy.owner[k] = p
                /\ \A x \in Procs \ {p} : Occupies(x, k)' => Late(x, k)'
      BY <2>15, <3>1
    <3>7. QED BY <3>2, <3>3, <3>4, <3>5, <3>6 DEF CallOK, Root
  <2>17. QED BY <1>3, <2>2, <2>3, <2>10, <2>16, OwnedCall
<1>9. QED BY <1>5, <1>6, <1>7, <1>8 DEF RegistryExclude
-----------------------------------------------------------------------------
\* Nothing happens.
LEMMA OwnedStutters == ASSUME TypeOK, Owned, UNCHANGED vars PROVE Owned'
<1>1. UNCHANGED <<scenario, configMap, proc, reg, excluded, pipe, faults>> BY DEF vars
<1>2. Onward BY <1>1, OnwardPlain DEF Plainly
<1>3. Recedes BY <1>1, OccupiesSame DEF Recedes
<1>4. QED BY <1>1, <1>2, <1>3, OwnedCalm

\* Every step of a call keeps what is said of the config map.
LEMMA RegistryOwned ==
  ASSUME TypeOK, Owned, \A q \in Procs : Local(q), NEW p \in Procs, Registry(p)
  PROVE  Owned'
<1>1. CASE RegistryGet(p) BY <1>1, RegistryGetOwned
<1>2. CASE RegistryCreate(p) BY <1>2, RegistryCreateOwned
<1>3. CASE RegistryUpdate(p) BY <1>3, RegistryUpdateOwned
<1>4. CASE RegistryFails(p) BY <1>4, RegistryFailsOwned
<1>5. ASSUME NEW n \in Names, RegistryName(p, n) \/ RegistryInUse(p, n) PROVE Owned' BY <1>5, RegistryNameOwned
<1>6. ASSUME NEW n \in Names, RegistryPingFails(p, n) PROVE Owned' BY <1>6, RegistryPingFailsOwned
<1>7. ASSUME NEW n \in Names, RegistryExclude(p, n) PROVE Owned' BY <1>7, RegistryExcludeOwned
<1>8. ASSUME NEW n \in Names, RegistryExcluded(p, n) PROVE Owned' BY <1>8, RegistryExcludedOwned
<1>9. QED BY <1>1, <1>2, <1>3, <1>4, <1>5, <1>6, <1>7, <1>8 DEF Registry

\* Every step keeps what is said of the config map and of the calls.
LEMMA OwnedNext ==
  ASSUME TypeOK, IInv, [Next]_vars
  PROVE  Owned'
<1>1. Owned /\ \A q \in Procs : Local(q) BY DEF IInv
<1>2. CASE UNCHANGED vars BY <1>1, <1>2, OwnedStutters
<1>3. ASSUME NEW p \in Procs, Start(p) \/ Resolve(p) \/ ResolveFails(p) PROVE Owned' BY <1>1, <1>3, ProcessOwned
<1>4. ASSUME NEW p \in Procs, Run(p) PROVE Owned' BY <1>1, <1>4, RunOwned
<1>5. ASSUME NEW p \in Procs, Crash(p) \/ Exit(p) PROVE Owned' BY <1>1, <1>5, GoneOwned
<1>6. ASSUME NEW p \in Procs, CloseRoot(p) PROVE Owned'
  <2>1. Root(p) \in Names BY RootType
  <2>2. QED BY <1>1, <1>6, <2>1, ClosingOwned
<1>7. ASSUME NEW p \in Procs, Exclude(p) PROVE Owned' BY <1>1, <1>7, BeginOwned
<1>8. ASSUME NEW p \in Procs, ExcludeReturns(p) PROVE Owned' BY <1>1, <1>8, ReturnOwned
<1>9. ASSUME NEW p \in Procs, Registry(p) PROVE Owned' BY <1>1, <1>9, RegistryOwned
<1>10. ASSUME NEW p \in Procs, NEW n \in Names, Job(p, n) PROVE Owned'
  <2>1. CASE RunDependencies(p, n) BY <1>1, <2>1, BeginOwned
  <2>2. CASE DependenciesLocked(p, n) BY <1>1, <2>2, ReturnOwned
  <2>3. CASE Launch(p, n) BY <1>1, <2>3, LaunchOwned
  <2>4. CASE \/ Cancelled(p, n) \/ ExcludedBefore(p, n) \/ CreateDeployments(p, n) \/ StartDev(p, n)
             \/ WaitForDependency(p, n) \/ Register(p, n) \/ RunJob(p, n) \/ (\E d \in Names : Returned(p, n, d))
             \/ Joined(p, n)
    BY <1>1, <2>4, JobsOwned
  <2>5. QED BY <1>10, <2>1, <2>2, <2>3, <2>4 DEF Job
<1>11. ASSUME NEW p \in Procs, NEW n \in Names, Server(p, n) PROVE Owned' BY <1>1, <1>11, ClosingOwned
<1>12. ASSUME NEW p \in Procs, NEW n \in Names, DevEnds(p, n) PROVE Owned' BY <1>1, <1>12, JobsOwned
<1>13. QED BY <1>2, <1>3, <1>4, <1>5, <1>6, <1>7, <1>8, <1>9, <1>10, <1>11, <1>12 DEF Next

\* The initial states.
LEMMA InitOwned == ASSUME Init PROVE Owned
<1>1. /\ configMap = NoConfigMap /\ faults.late = {} /\ \A p \in Procs : proc[p] = "idle" /\ reg[p].call = FreeCall
  BY DEF Init, NewRegistry
<1>2. \A n \in Names : configMap.owner[n] = None BY <1>1 DEF NoConfigMap
<1>3. \A p \in Procs, n \in Names : ~Occupies(p, n) /\ ~Late(p, n) BY <1>1 DEF Occupies, Running, Late
<1>4. \A p \in Procs : CallOK(p) BY <1>1 DEF CallOK, Asks, FreeCall, NoConfigMap
<1>5. QED BY <1>1, <1>2, <1>3, <1>4 DEF Owned

-----------------------------------------------------------------------------
\* The types and the inductive invariant hold in every state: nothing is said
\* of the number of processes, of dependencies, of failures or of retries.
THEOREM PipelinesInvariant == Spec => [](TypeOK /\ IInv)
<1>1. Init => TypeOK /\ IInv BY InitTypes, InitLocal, InitOwned DEF IInv
<1>2. TypeOK /\ IInv /\ [Next]_vars => TypeOK' /\ IInv'
  <2> SUFFICES ASSUME TypeOK, IInv, [Next]_vars PROVE TypeOK' /\ IInv' OBVIOUS
  <2>1. \A q \in Procs : Local(q) /\ CallOK(q) BY DEF IInv, Owned
  <2>2. \A q \in Procs : Calls(reg[q].call, excluded[q], pipe[q], Root(q)) BY <2>1 DEF Local, Inside
  <2>3. TypeOK' BY <2>1, <2>2, TypeStep
  <2>4. \A q \in Procs : Local(q)' BY <2>1, <2>3, LocalStep
  <2>5. QED BY <2>3, <2>4, OwnedNext DEF IInv
<1>3. QED BY <1>1, <1>2, PTL DEF Spec

\* What the processes keep of the cluster and of their pipelines is well-formed.
THEOREM PipelinesTypeCorrect == Spec => []TypeOK
BY PipelinesInvariant, PTL

\* Who runs a project or a dependency occupies it.
LEMMA RunsOccupies ==
  ASSUME TypeOK, NEW p \in Procs, Local(p), NEW n \in Names, Holds(p, n) \/ Runs(p, n)
  PROVE  Occupies(p, n)
<1>1. CASE Holds(p, n) BY <1>1 DEF Holds, Occupies, Holding
<1>2. CASE Runs(p, n)
  <2>1. Running(p)
    <3>1. CASE ~Running(p)
      <4>1. pipe[p][n] = NoPipeline BY <3>1 DEF Local, Quiet
      <4>2. QED BY <1>2, <4>1 DEF Runs, NoPipeline
    <3>2. QED BY <3>1
  <2>2. QED BY <1>2, <2>1 DEF Runs, Occupies, Holding, Alive
<1>3. QED BY <1>1, <1>2

\* The lock of the config map (dependency_registry.go): a project or dependency
\* is run by one process at a time, unless a ping was lost or the dependency was
\* given away before its owner had started it.
THEOREM LockHeldTheorem == Spec => []LockHeld
<1>1. TypeOK /\ IInv => LockHeld
  <2> SUFFICES ASSUME TypeOK, IInv, ~faults.pingLost, NEW p \in Procs, NEW q \in Procs, NEW n \in Names,
                      Holds(p, n) \/ Runs(p, n), Holds(q, n) \/ Runs(q, n), ~Late(p, n), ~Late(q, n)
               PROVE  p = q
    BY DEF LockHeld, Late
  <2>1. Occupies(p, n) /\ Occupies(q, n) BY RunsOccupies DEF IInv
  <2>2. QED BY <2>1 DEF IInv, Owned
<1>2. QED BY <1>1, PipelinesInvariant, PTL

\* excludeDependency answers after the dev pods of the pipeline have stopped: a
\* process that has taken over its project finds none of another process, unless
\* its pipeline had failed.
THEOREM TakeoverStopsTheorem == Spec => []TakeoverStops
<1>1. TypeOK /\ IInv => TakeoverStops
  <2> SUFFICES ASSUME TypeOK, IInv, ~faults.pingLost, NEW p \in Procs, NEW q \in Procs, NEW n \in Names,
                      Holds(q, n), Running(p), Root(p) # n, ~Late(p, n), pipe[p][n].dev = "active", ~pipe[p][n].failed
               PROVE  FALSE
    BY DEF TakeoverStops, Late
  <2>1. Occupies(q, n) BY RunsOccupies DEF IInv
  <2>2. Occupies(p, n) BY DEF Occupies, Holding
  <2>3. Root(q) = n BY DEF Holds
  <2>4. ~Late(q, n) BY <2>3 DEF IInv, Owned
  <2>5. p = q BY <2>1, <2>2, <2>4 DEF IInv, Owned
  <2>6. QED BY <2>3, <2>5
<1>2. QED BY <1>1, PipelinesInvariant, PTL

\* A pipeline waits along the edges of the registry, and AddEdge refuses the edge
\* that would close a circle: the pipelines of a process never wait for each
\* other in a circle, whichever dependencies they declare.
THEOREM NoCircularWaitTheorem == Spec => []NoCircularWait
<1>1. TypeOK /\ IInv => NoCircularWait
  <2> SUFFICES ASSUME TypeOK, IInv, NEW p \in Procs, NEW names \in (SUBSET Names) \ {{}},
                      \A n \in names : \E m \in names : <<n, m>> \in {e \in Names \X Names : e[2] \in WaitsFor(p, e[1])}
               PROVE  FALSE
    BY DEF NoCircularWait, Circular
  <2> DEFINE g == reg[p].graph
             P == pipe[p]
  <2>1. Edges(g, P, Root(p)) BY DEF IInv, Local, Inside
  <2>2. pipe[p] \in [Names -> Pipeline] BY DEF TypeOK
  <2>3. ASSUME NEW n \in Names PROVE WaitsFor(p, n) \subseteq P[n].waits \cup P[n].joining
    <3>1. P[n].waits \subseteq Names BY <2>2 DEF Pipeline
    <3>2. P[n].waits # {} => First(P[n].waits) \in P[n].waits BY <3>1, FirstIn
    <3>3. QED BY <3>2 DEF WaitsFor
  <2>4. ASSUME NEW n \in names PROVE \E m \in names : <<n, m>> \in g.edges
    <3>1. PICK m \in names : m \in WaitsFor(p, n) OBVIOUS
    <3>2. m \in P[n].waits \cup P[n].joining BY <2>3, <3>1
    <3>3. <<n, m>> \in g.edges BY <2>1, <3>2 DEF Edges
    <3>4. QED BY <3>3
  <2>5. Circular(g.edges) BY <2>4 DEF Circular
  <2>6. QED BY <2>1, <2>5 DEF Edges
<1>2. QED BY <1>1, PipelinesInvariant, PTL

\* The resolver: the children of what it has reached are the declared ones.
LEMMA AsDeclared ==
  ASSUME TypeOK, NEW p \in Procs, Local(p), Running(p), NEW n \in Names,
         n = Root(p) \/ \E m \in Names : n \in Deps(p, m), n \notin scenario.ignore \ {Root(p)}
  PROVE  Deps(p, n) = WantedBelow[n] \ {d \in {n} : n = Root(p)}
<1> DEFINE w == resolver[p]
           root == Root(p)
<1>1. Resolved(w, root, WantedBelow, scenario.ignore) /\ w.path = <<>> BY DEF Local, ResolverOK
<1>2. root \in Names /\ w \in Resolver BY RootType DEF TypeOK
<1>3. \A m \in Names : w.children[m] \subseteq Names /\ w.children[m] \subseteq w.graph.nodes
  BY <1>1, <1>2 DEF Resolver, Resolved
<1>4. \A m \in Names : Deps(p, m) \subseteq w.children[m] BY DEF Deps, ChildrenOf
<1>5. n \in w.graph.nodes BY <1>1, <1>3, <1>4 DEF Resolved, Rooted
<1>6. w.todo[n] = {}
  <2>1. Len(w.path) = 0 BY <1>1
  <2>2. QED BY <1>1, <2>1 DEF Resolved
<1>7. w.children[n] = WantedBelow[n] BY <1>1, <1>5, <1>6 DEF Resolved
<1>8. CASE n = root
  <2>1. Deps(p, n) = {m \in w.children[n] : <<n, m>> \in w.graph.edges} BY <1>8 DEF Deps, ChildrenOf
  <2>2. \A d \in w.children[n] : <<n, d>> \in w.graph.edges <=> d # n BY <1>1, <1>3, <1>8 DEF Resolved, Rooted
  <2>3. QED BY <1>7, <1>8, <2>1, <2>2
<1>9. CASE n # root BY <1>7, <1>9 DEF Deps, ChildrenOf
<1>10. QED BY <1>8, <1>9

\* resolveRecursive, startNewDependency and waitForDependency: what is declared
\* is resolved, is started once in a process, and is done before the pipeline
\* that declares it works, in every order in which pipelines are started, end,
\* fail and are cancelled.
THEOREM DependenciesInOrderTheorem == Spec => []DependenciesInOrder
<1>1. TypeOK /\ IInv => ResolvedAsDeclared
  <2> SUFFICES ASSUME TypeOK, IInv, NEW p \in Procs, Running(p)
               PROVE  LET reached == {n \in Names : n = Root(p) \/ \E m \in Names : n \in Deps(p, m)}
                      IN /\ \A n \in reached \ (scenario.ignore \ {Root(p)}) :
                              Deps(p, n) = WantedBelow[n] \ {d \in {n} : n = Root(p)}
                         /\ ~Circular(reg[p].graph.edges)
    BY DEF ResolvedAsDeclared
  <2>1. ~Circular(reg[p].graph.edges) BY DEF IInv, Local, Inside, Edges
  <2>2. QED BY <2>1, AsDeclared DEF IInv
<1>2. TypeOK /\ IInv => StartedOnce BY DEF IInv, Local, Inside, PipeOK, StartedOnce
<1>3. TypeOK /\ IInv => DependenciesFirst
  <2> SUFFICES ASSUME TypeOK, IInv, NEW p \in Procs, NEW n \in Names,
                      pipe[p][n].pc \in {"create_deployments", "start_dev"},
                      ~CtxDone(p, n), ~pipe[p][n].gaveUp, ~scenario.tolerant, NEW d \in Deps(p, n)
               PROVE  Done(p, d) \/ reg[p].known[d] = "InUseByOtherInstance" \/ <<n, d>> \notin reg[p].graph.edges
    BY DEF DependenciesFirst
  <2> DEFINE o == pipe[p][n]
  <2>1. Inside(reg[p], excluded[p], pipe[p], handler[p], Root(p), DepsOf(p), scenario.tolerant) BY DEF IInv, Local
  <2>2. PipeOK(o) /\ InTurn(reg[p].known, reg[p].graph, pipe[p], DepsOf(p)) BY <2>1 DEF Inside
  <2>3. o \in Pipeline BY DEF TypeOK
  <2>4. ~o.group /\ o.waits = {} /\ o.launch = {} /\ o.joining = {} BY <2>2, <2>3 DEF PipeOK, Pipeline
  <2>5. ~Ctx(pipe[p], n) BY DEF CtxDone, StartDone, Ctx
  <2>6. GoesOn(pipe[p], n) BY <2>4, <2>5 DEF GoesOn
  <2>7. d \in DepsOf(p)[n] BY DEF DepsOf
  <2>8. QED BY <2>2, <2>4, <2>6, <2>7 DEF InTurn, Done
<1>4. TypeOK /\ IInv => DependenciesInOrder BY <1>1, <1>2, <1>3 DEF DependenciesInOrder
<1>5. QED BY <1>4, PipelinesInvariant, PTL
=============================================================================
