-------------------------- MODULE MCServiceEngine ---------------------------
(* Instances of ServiceEngine for TLC. *)
EXTENDS ServiceEngine

CONSTANTS m1, m2

C(s, g, a) == [steps |-> s, gql |-> g, auth |-> a]

(* A REST and GraphQL service with a token; a GraphQL one without; a REST  *)
(* one whose output the builder rejects; one whose schema is rejected      *)
(* after its two managers started.                                         *)
Configs ==
    {C("ok", "ok", {m1}), C("none", "ok", {}), C("bad", "off", {m1}),
     C("ok", "bad", {m1, m2})}
=============================================================================
