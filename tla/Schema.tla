------------------------------- MODULE Schema -------------------------------
(***************************************************************************)
(* How the configuration structs of a version are written down: a schema   *)
(* is a function from the name of a struct to its fields, and a field has  *)
(* the shape of its yaml value and, where that holds structs, their name.  *)
(*                                                                         *)
(* A path is the sequence of keys that leads to a node of a configuration. *)
(* A list or a map of structs has one element, which adds no key.          *)
(***************************************************************************)
EXTENDS TLC, SequencesExt

Fields(keys, shape) == [k \in keys |-> [shape |-> shape, of |-> ""]]
Holding(structs, shape) == [k \in DOMAIN structs |-> [shape |-> shape, of |-> structs[k]]]

Scalars(keys)  == Fields(keys, "scalar")
Anything(keys) == Fields(keys, "any")
Lists(keys)    == Fields(keys, "list")
Maps(keys)     == Fields(keys, "map")

One(structs)    == Holding(structs, "map")
ListOf(structs) == Holding(structs, "list")
MapOf(structs)  == Holding(structs, "map")

\* The fields of an inlined struct are fields of the struct around it.
Inlined(names) == [s \in names |-> [shape |-> "inline", of |-> s]]

\* The structs a version takes over from the one before.
Same(schema, names) == [s \in names |-> schema[s]]

\* The nodes below a struct: a function from their paths to their shapes.
RECURSIVE NodesOf(_, _)
NodesOf(schema, struct) ==
    LET Below(k) ==
            LET f     == schema[struct][k]
                inner == IF f.of = "" THEN <<>> ELSE NodesOf(schema, f.of)
                moved == IF f.shape = "inline" THEN inner
                         ELSE [p \in {<<k>> \o q : q \in DOMAIN inner} |-> inner[Tail(p)]]
            IN  IF f.shape = "inline" THEN moved ELSE (<<k>> :> f.shape) @@ moved
        all == {Below(k) : k \in DOMAIN schema[struct]}
    IN  [p \in UNION {DOMAIN b : b \in all} |-> (CHOOSE b \in all : p \in DOMAIN b)[p]]
=============================================================================
