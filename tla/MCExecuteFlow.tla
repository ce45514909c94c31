--------------------------- MODULE MCExecuteFlow ----------------------------
(* Configurations of ExecuteFlow for TLC. *)
EXTENDS ExecuteFlow, TLC

CONSTANTS s1, s2, s3, token, v1, f1

Check(needs) == <<Validation(needs)>>
Derive(needs, value, else) ==
    <<[kind |-> "transformation", needs |-> needs, value |-> value,
       else |-> else, target |-> v1]>>
Reads(n1, n2, n3) ==
    [s \in Source |-> CASE s = s1 -> n1 [] s = s2 -> n2 [] OTHER -> n3]

(* A token, then two sources in parallel, one of them with the token; a    *)
(* variable that may stay unset and is needed by the output.               *)
Aggregator ==
    [middlewares |-> <<{token}, {s1, s2}>>, needs |-> Reads({f1}, {token}, {}),
     remote |-> {s1, s2}, input |-> Check({f1}), processing |-> Check({s1}),
     transformations |-> Derive({s2}, {s1}, NoElse), output |-> Check({v1}),
     body |-> {s1, v1}, forwards |-> FALSE, url |-> {}]

(* The interceptor: a source, a token, and a target that both shape. *)
Interceptor ==
    [middlewares |-> <<{s1}, {token}>>, needs |-> Reads({f1}, {}, {}),
     remote |-> {s1}, input |-> Check({}), processing |-> Check({f1}),
     transformations |-> Derive({f1}, {s1}, {}), output |-> Check({v1}),
     body |-> {v1, token}, forwards |-> TRUE, url |-> {f1}]

(* Two enrichments: the second has a source that reads the first.          *)
Chained ==
    [middlewares |-> <<{s1}, {s2, s3}>>, needs |-> Reads({}, {s1}, {}),
     remote |-> {s1, s2}, input |-> <<>>, processing |-> Check({s2}),
     transformations |-> <<>>, output |-> <<>>,
     body |-> {s3}, forwards |-> FALSE, url |-> {}]

(* A source that needs another one of its own middleware, and a fixed one. *)
Tangled ==
    [middlewares |-> <<{s1, s2, s3}>>, needs |-> Reads({}, {s1}, {f1}),
     remote |-> {s1}, input |-> <<>>, processing |-> Check({s2}),
     transformations |-> <<>>, output |-> Check({s3}),
     body |-> {}, forwards |-> TRUE, url |-> {s1}]

(* Three sources, none of which reads another; one the response can do     *)
(* without.                                                                *)
Wide ==
    [middlewares |-> <<{s1, s2, s3}>>, needs |-> Reads({f1}, {}, {}),
     remote |-> {s1, s2, s3}, input |-> <<>>, processing |-> Check({s1, s3}),
     transformations |-> Derive({}, {s2}, {f1}), output |-> <<>>,
     body |-> {v1, s1}, forwards |-> FALSE, url |-> {}]

(* Without a flaw, and with one of each kind: a source whose parameter may *)
(* be of the wrong type, a rule and a transformation likewise, outputs     *)
(* that may not evaluate or marshal, and a config that does not decode.    *)
Flawless ==
    [undecodable |-> {}, fragileSources |-> {}, fragileRules |-> {}, fragileOutput |-> {}]

Flawed ==
    {[Aggregator @@ Flawless EXCEPT !.fragileSources = {s2}, !.fragileRules = {1, 3}],
     [Interceptor @@ Flawless EXCEPT !.fragileRules = {4}, !.fragileOutput = {"url"}],
     [Chained @@ Flawless EXCEPT !.undecodable = {2}],
     [Wide @@ Flawless EXCEPT !.fragileOutput = {"body"}]}

Configurations ==
    Flawed \cup {p @@ Flawless : p \in {Aggregator, Interceptor, Chained, Tangled, Wide}}
=============================================================================
