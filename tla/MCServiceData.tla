--------------------------- MODULE MCServiceData ---------------------------
(* Configurations and requests of ServiceData for TLC. *)
EXTENDS ServiceData

CONSTANTS r1, r2, east, west

Plain == [p \in Position |-> "plain"]

(* What can stand at each place.  A name with an expression is no host     *)
(* name; everything else may read the request.                             *)
Choices(p) == {"env", "unset", "aws"} \cup (IF p = "name" THEN {} ELSE {"cel"})

Conf(t, auth) ==
    [text |-> t, steps |-> TRUE, graphql |-> TRUE, auth |-> auth, rules |-> FALSE,
     sound |-> TRUE, decodes |-> TRUE, kind |-> "config", output |-> "texts", fragile |-> {}]

(* A service with everything, one text of which is not plain; one that     *)
(* reads the request everywhere, has rules, no GraphQL and expressions     *)
(* that may fail; a gateway that is GraphQL only; ones whose output is     *)
(* nested; one whose enrichment cannot be decoded; and one that does not   *)
(* hold together.                                                          *)
Varied ==
    UNION {{Conf([Plain EXCEPT ![p] = t], p = "secret") : t \in Choices(p)} : p \in Position}
Reader ==
    [Conf([Plain EXCEPT !["param"] = "cel", !["secret"] = "aws"], TRUE)
        EXCEPT !.graphql = FALSE, !.kind = "dynamo"]
Fragile ==
    {[Reader EXCEPT !.text = [@ EXCEPT !["body"] = "cel"], !.rules = TRUE, !.fragile = {p}] :
        p \in {"rules", "param", "body"}}
Gateway ==
    [Conf([Plain EXCEPT !["field"] = "cel"], FALSE)
        EXCEPT !.steps = FALSE, !.fragile = {"field"}]
Nested ==
    {[Conf([Plain EXCEPT !["body"] = t, !["prose"] = "aws"], FALSE) EXCEPT !.output = o] :
        t \in {"unset", "cel"}, o \in {"number", "nested"}}
Undecodable == [Reader EXCEPT !.decodes = FALSE]
Broken == [Reader EXCEPT !.sound = FALSE]

Services == Varied \cup Fragile \cup Nested \cup {Reader, Gateway, Undecodable, Broken}

In(via, body, query, path) ==
    [via |-> via, body |-> body, query |-> query, path |-> path]

Requests ==
    {In("http", b, FALSE, FALSE) : b \in {"none", "object", "null", "array"}}
    \cup {In("http", "object", TRUE, TRUE), In("http", "none", TRUE, FALSE),
          In("http", "none", FALSE, TRUE), In("http", "null", FALSE, TRUE)}
    \cup {In("lambda", b, FALSE, FALSE) : b \in {"object", "null", "array"}}
    \cup {In("graphql", b, FALSE, FALSE) : b \in {"object", "null", "array"}}
=============================================================================
