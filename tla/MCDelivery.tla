------------------------------ MODULE MCDelivery ------------------------------
EXTENDS Delivery, TLC

CONSTANTS A, B, app, lib, web, db, o1, o2

Helm(v, i)       == [method |-> "helm", version |-> v, image |-> i, objects |-> {}]
Kubectl(v, i, s) == [method |-> "kubectl", version |-> v, image |-> i, objects |-> s]

\* web is a chart with the image app; db are manifests with the image
\* lib, of two objects or of one, or a chart.
MCConfigs ==
    [d \in {web, db} |->
        IF d = web THEN {Helm(1, app), Helm(2, app)}
        ELSE {Kubectl(1, lib, {o1, o2}), Helm(2, lib), Kubectl(3, lib, {o1})}]

\* The two users are alike.
Symmetry == Permutations({A, B})

\* Every checkout starts as the same one.
MCInit ==
    /\ Init
    /\ \A u \in Users : sources[u] = [i \in Images |-> 1] /\ mayPush[u]
    /\ \A u \in Users : configs[u] = (web :> Helm(1, app) @@ db :> Kubectl(1, lib, {o1, o2}))
MCSpec == MCInit /\ [][Next]_vars
=============================================================================
