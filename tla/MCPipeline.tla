---------------------------- MODULE MCPipeline ------------------------------
(* Instances of APIPipeline for TLC. *)
EXTENDS APIPipeline

CONSTANTS a1, a2, a3, ghost

(* Every acyclic graph over three APIs (up to renaming: an API depends on  *)
(* earlier ones), a self-dependency, a cycle of two with an innocent third *)
(* API, a cycle behind a root, and a dependency no API of the pipeline has.*)
ThreeAPIs == {a1, a2, a3}
AllNames == ThreeAPIs \cup {ghost}
Graph(d1, d2, d3) ==
    [a \in ThreeAPIs |-> CASE a = a1 -> d1 [] a = a2 -> d2 [] OTHER -> d3]
Graphs3 ==
    {Graph({}, d2, d3) : d2 \in SUBSET {a1}, d3 \in SUBSET {a1, a2}}
    \cup {Graph({a1}, {}, {}), Graph({a2}, {a1}, {}), Graph({}, {a1, a3}, {a2}),
          Graph({}, {ghost}, {})}
Pipelines3 == [deps : Graphs3, required : SUBSET ThreeAPIs]

(* Two APIs, independent or chained, each of them required or not. *)
TwoAPIs == {a1, a2}
Pipelines2 == [deps : {[a \in TwoAPIs |-> {}],
                       [a \in TwoAPIs |-> IF a = a1 THEN {} ELSE {a1}]},
               required : SUBSET TwoAPIs]
=============================================================================
