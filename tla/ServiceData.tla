---------------------------- MODULE ServiceData -----------------------------
(***************************************************************************)
(* Where the texts of a configuration go: read (pkg/engine/loader.go),     *)
(* injected (pkg/config/injector), validated, compiled into a service, and *)
(* used by requests that the transports (pkg/transport) made a payload of, *)
(* in calls of AWS, of the token provider and of the target.               *)
(*                                                                         *)
(* A text is plain; or has a placeholder for an environment variable that  *)
(* is set ("env") or not ("unset"), for SSM or a secret ("aws"), or for an *)
(* expression over the request ("cel").  Injected, it may be a "value", a  *)
(* "blank", or still "raw".                                                *)
(***************************************************************************)
EXTENDS AWSClients

CONSTANTS
    Request,        \* goroutines that serve a request
    loader,         \* the goroutine that loads and starts the service
    EnvRegion,      \* AWS_REGION
    Configurations, \* see Configuration
    Inputs          \* requests: [via, body, query, path]

VARIABLES
    conf,           \* the configuration and its environment
    boot,           \* how far the loader is
    at,             \* the position the injector is at
    text,           \* text[p]: the text at p, as injected so far
    req,            \* req[r]: the request r serves
    sent            \* history: the texts that left, where they stood

vars == <<once, awsCfg, dynamoClient, ask, used, conf, boot, at, text, req, sent>>

(* The kinds of place of a configuration, in the injector's order: a field *)
(* of the service, an auth manager's secret, a source's parameter that is  *)
(* a text and a text inside one that is none (a body, variables, a key), a *)
(* text of the output that is wrapped in ${...} as a whole or holds none,  *)
(* one with ${...} among other words, the target, and a parameter of a     *)
(* GraphQL field.  One text stands for all of its kind.                    *)
Order == <<"name", "secret", "param", "nested", "body", "prose", "url", "field">>
Position == {Order[i] : i \in 1..Len(Order)}
(* A string field of a struct: an error ends Load.  A text in a map: an    *)
(* error is dropped.  A list in such a map (the sources of a middleware),  *)
(* a map in it (its keys are no strings to yaml.v2) and a map of structs   *)
(* (GraphQL's types and queries): never looked at.                         *)
Strict == {"name", "url"}
Blind == {"param", "nested", "field"}
(* Where the texts are resolved again when a request runs. *)
Interpolated == {"param", "body", "url", "field"}

Written == {"plain", "env", "unset", "aws", "cel"}
Text == Written \cup {"value", "blank", "raw"}
Body == {"none", "object", "null", "array", "invalid"}
Input == [via : {"http", "lambda", "graphql"}, body : Body, query : BOOLEAN, path : BOOLEAN]

(* Besides its texts: whether it has steps, GraphQL, an auth manager and   *)
(* rules, whether the validator accepts it and its enrichment can be       *)
(* decoded; whether its output is a map of texts, has a number in it, or   *)
(* has its texts in maps and lists; the client its source needs; and where *)
(* an expression may fail on a value it does not expect.                   *)
Configuration ==
    [text : [Position -> Written], steps : BOOLEAN, graphql : BOOLEAN, auth : BOOLEAN,
     rules : BOOLEAN, sound : BOOLEAN, decodes : BOOLEAN, kind : Kind,
     output : {"texts", "number", "nested"},
     fragile : SUBSET {"rules", "param", "body", "url", "field"}]

ASSUME DataAssumption ==
    /\ Caller = Request \cup {loader}
    /\ loader \notin Request
    /\ EnvRegion \in Region
    /\ Configurations \subseteq Configuration
    /\ Inputs \subseteq Input

NoRequest == [pc |-> "none", in |-> [via |-> "http", body |-> "none",
              query |-> FALSE, path |-> FALSE], payload |-> "none",
              name |-> "absent", result |-> "none"]
Served == [pc : {"none", "received", "source", "sourced", "done"},
           in : Input, payload : Body, name : {"absent", "body", "query", "path"},
           result : {"none", "400", "500", "rejected", "panic", "200", "502",
                     "data", "field error"}]
Sending == [to : {"provider", "source", "target", "client"}, place : Position, text : Text]

TypeOK ==
    /\ ClientsTypeOK
    /\ boot \in {"reading", "injecting", "validating", "starting", "serving",
                "down", "valid", "invalid", "crashed"}
    /\ at \in 1..(Len(Order) + 1)
    /\ text \in [Position -> Text]
    /\ conf \in Configurations
    /\ req \in [Request -> Served]
    /\ \A r \in Request : req[r].pc = "done" <=> req[r].result # "none"
    /\ sent \subseteq Sending

Init ==
    /\ ClientsInit
    /\ conf \in Configurations
    /\ boot = "reading"
    /\ at = 1
    /\ text = conf.text
    /\ req = [r \in Request |-> NoRequest]
    /\ sent = {}

-----------------------------------------------------------------------------
(* Load: the file, the S3 object or the item's column is there, and is     *)
(* YAML, or Load fails.                                                    *)
ReadSource ==
    /\ boot = "reading"
    /\ boot' \in {"injecting", "down"}
    /\ UNCHANGED <<conf, at, text, req, sent, clientVars>>

(* The injector leaves the text at its position as `new` and goes on. *)
Leave(new) ==
    /\ text' = [text EXCEPT ![Order[at]] = new]
    /\ at' = at + 1
    /\ boot' = IF at = Len(Order) THEN "validating" ELSE boot

(* What the injector never looks at: a nested output, too. *)
Unseen(p) == p \in Blind \/ (p \in {"body", "prose"} /\ conf.output = "nested")

(* interpolateString, on what it can decide by itself. *)
Injected(t) == CASE t = "env" -> "value" [] t = "unset" -> "blank" [] OTHER -> t

Inject ==
    /\ boot = "injecting"
    /\ LET p == Order[at] IN
        /\ Unseen(p) \/ text[p] # "aws"
        /\ Leave(IF Unseen(p) THEN text[p] ELSE Injected(text[p]))
    /\ UNCHANGED <<conf, req, sent, clientVars>>

(* fetchValue: SSM or Secrets Manager, in the region of AWS_REGION. *)
LookUp ==
    /\ boot = "injecting"
    /\ ~Unseen(Order[at]) /\ text[Order[at]] = "aws"
    /\ ask[loader].pc = "idle"
    /\ Asks(loader, "config", EnvRegion)
    /\ UNCHANGED <<conf, boot, at, text, req, sent, once, awsCfg, dynamoClient, used>>

(* The lookup found a value, or it failed: then Load fails, or the         *)
(* placeholder stays in the map.                                           *)
LookUpFails ==
    IF Order[at] \in Strict
    THEN boot' = "down" /\ UNCHANGED <<text, at>>
    ELSE Leave("raw")

LookedUp ==
    /\ boot = "injecting"
    /\ ask[loader].pc \in {"ready", "failed"}
    /\ \/ ask[loader].pc = "ready" /\ Leave("value")
       \/ LookUpFails
    /\ ask' = [ask EXCEPT ![loader] = Idle]
    /\ UNCHANGED <<conf, req, sent, once, awsCfg, dynamoClient, used>>

(* Validate: the tags that say required, the uniqueness of the IDs and the *)
(* target's method (`sound`), steps or GraphQL.                            *)
Validate ==
    /\ boot = "validating"
    /\ boot' = IF /\ text["name"] # "blank"
                  /\ conf.sound
                  /\ conf.steps \/ conf.graphql
               THEN "starting" ELSE "down"
    /\ UNCHANGED <<conf, at, text, req, sent, clientVars>>

(* NewResponseBuilder compiles what normalizeExpression makes of a text of *)
(* the output: the inside of ${...}, where `ssm.x` names nothing; or the   *)
(* text between quotes, which compiles, a placeholder within it or not,    *)
(* unless it has quotes of its own.                                        *)
Compiles(p) == IF p = "body" /\ text[p] \in {"raw", "aws"} THEN {FALSE} ELSE BOOLEAN

(* Analyze, of `toolkit validate`, wants steps and an output of texts, and *)
(* compiles these as they stand: no ${...} and no blank is CEL, what is    *)
(* plain may be.  Its caller reports.                                      *)
Analyze ==
    /\ boot = "starting"
    /\ boot' \in IF ~conf.steps \/ conf.output # "texts" THEN {"crashed"}
                 ELSE IF conf.decodes /\ text["body"] \in {"plain", "value"}
                 THEN {"valid", "invalid"}
                 ELSE {"invalid"}
    /\ UNCHANGED <<conf, at, text, req, sent, clientVars>>

(* The text at p as it leaves in a call: resolved, where the request does  *)
(* that; as the injector left it, elsewhere.                               *)
Leaving(p) ==
    IF p \in Interpolated /\ text[p] \in {"env", "cel"} THEN "value" ELSE text[p]
Send(to, places) == {[to |-> to, place |-> p, text |-> Leaving(p)] : p \in places}

(* NewServiceEngine: the response builder, then the token managers, each   *)
(* of which fetches a token with the secret it was given.                  *)
StartService ==
    /\ boot = "starting"
    /\ \E ok \in IF conf.steps THEN Compiles("body") ELSE {TRUE},
          also \in IF conf.steps THEN Compiles("prose") ELSE {TRUE} :
        IF ok /\ also /\ conf.auth
        THEN /\ sent' = sent \cup Send("provider", {"secret"})
             /\ boot' \in {"serving", "down"}
        ELSE /\ boot' = IF ok /\ also THEN "serving" ELSE "down"
             /\ UNCHANGED sent
    /\ UNCHANGED <<conf, at, text, req, clientVars>>

-----------------------------------------------------------------------------
(* createRESTHandler: the body into a map, then the query's parameter,     *)
(* then the path's, and the map marshalled again.  The JSON null makes the *)
(* map nil, to which nothing can be assigned; what is not an object leaves *)
(* it empty.  handleREST of the Lambda transport passes the body on.       *)
Merged_NoPath(in) ==
    IF in.query THEN "query" ELSE IF in.body = "object" THEN "body" ELSE "absent"
Merged(in) ==
    IF in.path THEN "path" ELSE IF in.query THEN "query"
    ELSE IF in.body = "object" THEN "body" ELSE "absent"

HandlerPanics(in) == in.via = "http" /\ in.body = "null" /\ (in.query \/ in.path)
Payload(in) ==
    IF in.via = "http" THEN (IF in.body = "null" THEN "null" ELSE "object")
                       ELSE in.body
NameOf(in) ==
    IF in.via = "http" THEN Merged(in)
    ELSE IF in.body = "object" THEN "body" ELSE "absent"

Ends_Open(r, result) == req' = [req EXCEPT ![r].result = result]
Ends(r, result) == req' = [req EXCEPT ![r].pc = "done", ![r].result = result]

(* Which requests are given to the GraphQL engine. *)
Routed(in) == in.via = "graphql" => conf.graphql

Receive(r) ==
    /\ boot = "serving"
    /\ req[r].pc = "none"
    /\ \E in \in Inputs :
        /\ Routed(in)
        /\ req' = [req EXCEPT ![r] = [NoRequest EXCEPT
                !.in = in, !.payload = Payload(in), !.name = NameOf(in),
                !.pc = IF HandlerPanics(in) THEN "done" ELSE "received",
                !.result = IF HandlerPanics(in) THEN "panic" ELSE "none"]]
    /\ UNCHANGED <<conf, boot, at, text, sent, clientVars>>

(* interpolateString of the engine, when the request runs: env is the      *)
(* process's, what is not a CEL expression or reads an absent key fails.   *)
Resolves_KeepsMatch(t, name) == TRUE
Resolves(t, name) ==
    \/ t \in {"plain", "value", "blank", "env"}
    \/ t = "cel" /\ name # "absent"
(* An expression may also fail on what it reads: a type, another key. *)
Fails(p, name) == ~Resolves(text[p], name) \/ (p \in conf.fragile /\ text[p] = "cel")
(* The GraphQL resolver's env is an empty map. *)
FieldResolves(t) == t \in {"plain", "value", "blank", "cel"}

(* The enrichment, up to the call of its source: it is decoded, and the    *)
(* parameters that are texts are resolved.                                 *)
Enrich(r) ==
    \/ /\ ~conf.decodes \/ Fails("param", req[r].name)
       /\ Ends(r, "500")
       /\ UNCHANGED ask
    \/ /\ conf.decodes /\ Resolves(text["param"], req[r].name)
       /\ req' = [req EXCEPT ![r].pc = "source"]
       /\ \E region \in Region : Asks(r, conf.kind, region)

(* Execute, up to the call of its source.  A token is always there: a      *)
(* service whose managers have none never starts.                          *)
Execute(r) ==
    /\ req[r].pc = "received"
    /\ req[r].in.via # "graphql"
    /\ IF ~conf.steps THEN Ends(r, "500") /\ UNCHANGED ask
       ELSE IF req[r].payload \in {"array", "invalid"}
       THEN Ends(r, "400") /\ UNCHANGED ask
       ELSE Enrich(r)
    /\ UNCHANGED <<conf, boot, at, text, sent, once, awsCfg, dynamoClient, used>>

(* handleGraphQL: a body that is no object is refused, and the JSON null   *)
(* asks nothing.                                                           *)
Refused(in) == in.body \in {"none", "array", "invalid"}

(* The resolver of a field, up to the call of its source: every text of    *)
(* its parameters is resolved, however deep.                               *)
Resolve(r) ==
    /\ req[r].pc = "received"
    /\ req[r].in.via = "graphql"
    /\ \/ Refused(req[r].in) /\ Ends(r, "400") /\ UNCHANGED ask
       \/ /\ ~Refused(req[r].in)
          /\ \/ req[r].in.body = "null"
             \/ ~FieldResolves(text["field"])
             \/ "field" \in conf.fragile /\ text["field"] = "cel"
          /\ Ends(r, "field error")
          /\ UNCHANGED ask
       \/ /\ req[r].in.body = "object"
          /\ FieldResolves(text["field"])
          /\ req' = [req EXCEPT ![r].pc = "source"]
          /\ \E region \in Region : Asks(r, "dynamo", region)
    /\ UNCHANGED <<conf, boot, at, text, sent, once, awsCfg, dynamoClient, used>>

(* The source was called with its client, or there was none: the engine    *)
(* logs that and goes on, the resolver gives the field an error.           *)
Sourced(r) ==
    /\ req[r].pc = "source"
    /\ ask[r].pc \in {"ready", "failed"}
    /\ LET graphql == req[r].in.via = "graphql"
       IN  /\ sent' = IF ask[r].pc = "failed" THEN sent
                      ELSE sent \cup Send("source", IF graphql THEN {"field"}
                                                    ELSE {"param", "nested"})
           /\ IF ~graphql THEN req' = [req EXCEPT ![r].pc = "sourced"]
              ELSE \/ ask[r].pc = "ready" /\ Ends(r, "data")
                   \/ Ends(r, "field error")
    /\ ask' = [ask EXCEPT ![r] = Idle]
    /\ UNCHANGED <<conf, boot, at, text, once, awsCfg, dynamoClient, used>>

(* The rules and transformations, any of which may fail or reject.         *)
Judge(r) ==
    /\ \/ "rules" \in conf.fragile /\ Ends(r, "500")
       \/ conf.rules /\ Ends(r, "rejected")
    /\ UNCHANGED sent

(* Build the body and the headers, then the target's URL, if there is one. *)
BuildFails(r) ==
    /\ Fails("body", req[r].name) \/ Fails("url", req[r].name)
    /\ Ends(r, "500")
    /\ UNCHANGED sent

(* The rest of Execute: the answer goes to the client, or to the target.   *)
Finish(r) ==
    /\ req[r].pc = "sourced"
    /\ \/ Judge(r) \/ BuildFails(r)
       \/ /\ Resolves(text["body"], req[r].name) /\ text["url"] = "blank"
          /\ sent' = sent \cup Send("client", {"body", "prose"})
          /\ Ends(r, "200")
       \/ /\ \A p \in {"body", "url"} : Resolves(text[p], req[r].name)
          /\ text["url"] # "blank"
          /\ sent' = sent \cup Send("target", {"body", "prose", "url"})
          /\ Ends(r, "200") \/ Ends(r, "502")
    /\ UNCHANGED <<conf, boot, at, text, clientVars>>

AskStep(c) ==
    /\ ClientStep(c)
    /\ UNCHANGED <<conf, boot, at, text, req, sent>>

Next ==
    \/ ReadSource \/ Inject \/ LookUp \/ LookedUp \/ Validate \/ Analyze \/ StartService
    \/ \E c \in Caller : AskStep(c)
    \/ \E r \in Request :
        Receive(r) \/ Execute(r) \/ Resolve(r) \/ Sourced(r) \/ Finish(r)

Spec == Init /\ [][Next]_vars
-----------------------------------------------------------------------------
(* injector.go:97-163, service.go:441-489, builder.go:71-91: of the texts  *)
(* above, one still holding a placeholder leaves the process in three ways *)
(* only: as a client secret whose lookup was dropped or that is an         *)
(* expression, to the token provider; inside a parameter that is no text,  *)
(* to a source; and among other words in the output, to the client or the  *)
(* target, where one for the environment is nested.  Never as a parameter, *)
(* an address, a field or a value of the output of its own.                *)
Held == {"env", "unset", "aws", "cel", "raw"}
PlaceholdersAreDelimited ==
    \A s \in sent :
        s.text \in Held =>
            \/ /\ s.to = "provider" /\ s.place = "secret"
               /\ \/ s.text = "raw" /\ conf.text["secret"] = "aws"
                  \/ s.text = "cel"
            \/ s.to = "source" /\ s.place = "nested"
            \/ /\ s.to \in {"client", "target"} /\ s.place = "prose"
               /\ s.text \in {"raw", "cel"} \/ conf.output = "nested"

(* service.go:102-256, graphql/engine.go:148-223, http_server.go:75-108: a *)
(* request fails for a reason that its configuration or its input gives: a *)
(* placeholder that the injector does not see and CEL does not know, a     *)
(* parameter that is absent from body, query and path, an expression that  *)
(* may fail on what it reads, an enrichment that cannot be decoded, no     *)
(* steps, a body that is no object where the transport does not make it    *)
(* one, or the JSON null with a parameter to merge into it; and a request  *)
(* whose source has such a placeholder for a parameter never succeeds.     *)
(* Nor is a body that reads the request called valid by the analyzer,      *)
(* which crashes for a service without steps and for an output with a      *)
(* field that is no text (analyzer.go:52, :85).                            *)
FailureHasACause ==
    /\ boot = "crashed" => IF conf.steps THEN conf.output # "texts" ELSE conf.graphql
    /\ boot = "valid" =>
            /\ conf.text["body"] \in {"plain", "env", "aws"}
            /\ conf.output = "texts" /\ conf.decodes
    /\ \A r \in Request :
        LET in == req[r].in
            absent == in.body # "object" /\ (in.via = "http" => ~in.query /\ ~in.path)
        IN  CASE req[r].result = "400" -> in.via # "http" /\ in.body # "object"
              [] req[r].result = "500" ->
                    \/ ~conf.steps \/ ~conf.decodes \/ "rules" \in conf.fragile
                    \/ conf.text["param"] \in {"unset", "aws"}
                    \/ conf.text["body"] = "unset" /\ conf.output = "nested"
                    \/ \E p \in {"param", "body", "url"} :
                            conf.text[p] = "cel" /\ (absent \/ p \in conf.fragile)
              [] req[r].result = "rejected" -> conf.rules
              [] req[r].result = "panic" ->
                    in.via = "http" /\ in.body = "null" /\ (in.query \/ in.path)
              [] req[r].result \in {"200", "502"} ->
                    conf.decodes /\ conf.text["param"] \in {"plain", "env", "cel"}
              [] req[r].result = "data" -> conf.text["field"] \in {"plain", "cel"}
              [] OTHER -> TRUE
=============================================================================
