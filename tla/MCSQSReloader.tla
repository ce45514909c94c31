--------------------------- MODULE MCSQSReloader ----------------------------
(* SQSReloader for TLC: two changes of the source and one redelivery. *)
EXTENDS SQSReloader

CONSTANTS m1, m2

C(s, g, a) == [steps |-> s, gql |-> g, auth |-> a]

(* A REST service with two tokens; a GraphQL one without steps or tokens.  *)
Configs == {C("ok", "off", {m1, m2}), C("none", "ok", {})}
=============================================================================
