---------------------------- MODULE ExecuteFlow -----------------------------
(***************************************************************************)
(* pkg/engine/service.go: one request through Execute, under one           *)
(* configuration (ServiceEngine.tla lets the configuration change): the    *)
(* middlewares in order, each enrichment fanned out into one goroutine per *)
(* source, then the rules, the response, the forward to the target.        *)
(*                                                                         *)
(* A key stands for a datum an expression can read: a field of the input,  *)
(* the result of a source (detection.<name>), the token of an auth         *)
(* middleware, a variable.  Evaluating an expression that reads a key      *)
(* nobody provided is an error.  Otherwise its value is arbitrary, and a   *)
(* fragile expression may still fail: one that does not compile, that      *)
(* meets a value of the wrong type, a rule that gives no boolean, or a     *)
(* body that cannot be marshalled.                                         *)
(***************************************************************************)
EXTENDS Naturals, Sequences, FiniteSets

CONSTANTS
    Source,         \* the names of the enrichment sources
    Auth,           \* the auth_provider middlewares with an output_var
    Var,            \* the targets of the transformations
    Field,          \* the fields of the input
    Plans,          \* the configurations
    NoElse          \* a transformation without else_value

Key == Source \cup Auth \cup Var \cup Field

(* A middleware is the set of the keys it provides: sources, or one token. *)
Rule ==
    [kind : {"validation"}, needs : SUBSET Key]
    \cup [kind : {"transformation"}, needs : SUBSET Key, value : SUBSET Key,
          else : (SUBSET Key) \cup {NoElse}, target : Var]

Validation(needs) == [kind |-> "validation", needs |-> needs]

(* The names of the four kinds never meet: an expression says which kind   *)
(* it reads (detection.x, auth.x, vars.x, input.x).                        *)
ASSUME KeyAssumption == Field \cap (Source \cup Auth \cup Var) = {}

(* Two middlewares provide different keys; an enrichment has finitely many *)
(* sources.  Undecodable are the middlewares whose config decodeConfig     *)
(* refuses, fragile the sources (their parameters and headers), the rules  *)
(* and the outputs with a fragile expression.                              *)
ASSUME PlanAssumption ==
    \A p \in Plans :
        /\ p.middlewares \in Seq(SUBSET Key)
        /\ \A i \in DOMAIN p.middlewares :
              /\ IsFiniteSet(p.middlewares[i])
              /\ \/ p.middlewares[i] \subseteq Source
                 \/ \E a \in Auth : p.middlewares[i] = {a}
        /\ \A i, j \in DOMAIN p.middlewares :
              i # j => p.middlewares[i] \cap p.middlewares[j] = {}
        /\ p.needs \in [Source -> SUBSET Key]
        /\ p.remote \subseteq Source
        /\ p.input \in Seq(Rule) /\ p.processing \in Seq(Rule)
        /\ p.transformations \in Seq(Rule) /\ p.output \in Seq(Rule)
        /\ p.body \subseteq Key
        /\ p.forwards \in BOOLEAN /\ p.url \subseteq Key
        /\ p.undecodable \subseteq Nat
        /\ p.fragileSources \subseteq Source /\ p.fragileRules \subseteq Nat
        /\ p.fragileOutput \subseteq {"body", "url"}

VARIABLES
    plan,
    pc,         \* where the goroutine of the request is
    at,         \* the middleware, then the rule, that it is at
    src,        \* src[s]: where the goroutine of source s is
    errChan,    \* the channel of the parameter errors
    known,      \* the keys that have a value in execCtx
    passed,     \* the rules that were evaluated without ending the request
    skipped,    \* the transformations that left their target alone
    forwarded,  \* the target has been called
    expired,    \* the deadline of the context has passed
    answer

vars == <<plan, pc, at, src, errChan, known, passed, skipped, forwarded, expired, answer>>
rulesVars == <<passed, skipped>>
fanVars == <<src, errChan>>

(* Execute runs the four lists of rules in this order. *)
Rules == plan.input \o plan.processing \o plan.transformations \o plan.output

(* A source waits to resolve its parameters, is called, has its result,    *)
(* writes it into detection under the mutex; it ends with the key written, *)
(* with a parameter error, or in silence after a failed or late call.      *)
SourceState == {"none", "spawned", "calling", "result", "writing",
                "ended", "error", "failed", "late"}
Finished == {"none", "ended", "error", "failed", "late"}
Answer == {"none", "bad_json", "enrichment_failed", "evaluation_error", "rejected",
           "downstream_error", "built", "relayed"}

TypeOK ==
    /\ plan \in Plans
    /\ pc \in {"parse", "middlewares", "join", "rules", "build", "target",
               "calling", "metrics", "answered", "crashed"}
    /\ at \in 1..(Len(plan.middlewares) + Len(Rules) + 1)
    /\ src \in [Source -> SourceState]
    /\ \A i \in DOMAIN errChan : src[errChan[i]] = "error"
    /\ known \subseteq Key
    /\ passed \subseteq DOMAIN Rules
    /\ skipped \subseteq Var
    /\ forwarded \in BOOLEAN
    /\ expired \in BOOLEAN
    /\ answer \in Answer
    /\ (pc = "answered") <=> (answer # "none" /\ pc # "metrics")

(* The payload that the transport made: some of the fields are there. *)
Init ==
    /\ plan \in Plans
    /\ pc = "parse"
    /\ at = 1
    /\ src = [s \in Source |-> "none"]
    /\ errChan = <<>>
    /\ known \in SUBSET Field
    /\ passed = {} /\ skipped = {}
    /\ forwarded = FALSE
    /\ expired = FALSE
    /\ answer = "none"

Respond(a) == answer' = a /\ pc' = "answered"

(* An expression, or a text of several, by the keys it reads. *)
Evaluates(reads) == reads \subseteq known
MayFail(reads, fragile) == fragile \/ ~Evaluates(reads)

-----------------------------------------------------------------------------
Parse ==
    /\ pc = "parse"
    /\ \/ Respond("bad_json")
       \/ pc' = "middlewares" /\ UNCHANGED answer
    /\ UNCHANGED <<plan, at, fanVars, known, rulesVars, forwarded, expired>>

Current == plan.middlewares[at]

(* An auth middleware.  Get has an error only before a successful Start    *)
(* (AuthManager.tla), and the engine publishes none but managers that      *)
(* started (ServiceEngine.tla): the 500 of service.go:145-147 is never     *)
(* reached.  Middlewares of any other type (rate_limit) provide nothing.   *)
TakeToken ==
    /\ pc = "middlewares"
    /\ at <= Len(plan.middlewares)
    /\ Current \subseteq Auth
    /\ known' = known \cup Current
    /\ at' = at + 1
    /\ UNCHANGED <<plan, pc, fanVars, rulesVars, forwarded, expired, answer>>

(* An enrichment whose config does not decode ends the request; any other  *)
(* one starts a goroutine per source.                                      *)
FanOut ==
    /\ pc = "middlewares"
    /\ at <= Len(plan.middlewares)
    /\ ~(Current \subseteq Auth)
    /\ IF at \in plan.undecodable
       THEN Respond("enrichment_failed") /\ UNCHANGED src
       ELSE /\ src' = [s \in Source |-> IF s \in Current THEN "spawned" ELSE src[s]]
            /\ pc' = "join" /\ UNCHANGED answer
    /\ UNCHANGED <<plan, at, errChan, known, rulesVars, forwarded, expired>>

(* Parameters and headers are interpolated from what execCtx holds now;    *)
(* an error goes to the channel.  A call under a done context fails.       *)
ResolveFails(s) ==
    /\ MayFail(plan.needs[s], s \in plan.fragileSources)
    /\ src' = [src EXCEPT ![s] = "error"]
Resolved(s) ==
    /\ Evaluates(plan.needs[s])
    /\ src' = [src EXCEPT ![s] = IF expired /\ s \in plan.remote THEN "late" ELSE "calling"]
    /\ UNCHANGED errChan

Resolve_NoChannel(s) ==
    /\ src[s] = "spawned"
    /\ (ResolveFails(s) /\ UNCHANGED errChan) \/ Resolved(s)
    /\ UNCHANGED <<plan, pc, at, known, rulesVars, forwarded, expired, answer>>
Resolve(s) ==
    /\ src[s] = "spawned"
    /\ (ResolveFails(s) /\ errChan' = Append(errChan, s)) \/ Resolved(s)
    /\ UNCHANGED <<plan, pc, at, known, rulesVars, forwarded, expired, answer>>

SourceGoes(s, from, to) ==
    /\ src[s] = from
    /\ src' = [src EXCEPT ![s] = to]
    /\ UNCHANGED <<plan, pc, at, errChan, known, rulesVars, forwarded, expired, answer>>

CallAnswers(s) == SourceGoes(s, "calling", "result")

(* A failed call is logged and forgotten. *)
CallFails(s) == s \in plan.remote /\ SourceGoes(s, "calling", "failed")

(* The HTTP and AWS clients are given the context of the request. *)
CallTimesOut_Never(s) == FALSE
CallTimesOut(s) == s \in plan.remote /\ expired /\ SourceGoes(s, "calling", "late")

Writing == {s \in Source : src[s] = "writing"}

LockResult_NoMutex(s) == SourceGoes(s, "result", "writing")
LockResult(s) == Writing = {} /\ SourceGoes(s, "result", "writing")

WriteResult(s) ==
    /\ src[s] = "writing"
    /\ src' = [src EXCEPT ![s] = "ended"]
    /\ known' = known \cup {s}
    /\ UNCHANGED <<plan, pc, at, errChan, rulesVars, forwarded, expired, answer>>

(* wg.Wait, then the first error of the channel. *)
Join_NoReturn ==
    /\ pc = "join"
    /\ \A s \in Current : src[s] \in Finished
    /\ answer' = IF errChan # <<>> THEN "enrichment_failed" ELSE answer
    /\ pc' = "middlewares" /\ at' = at + 1
    /\ UNCHANGED <<plan, fanVars, known, rulesVars, forwarded, expired>>
Join ==
    /\ pc = "join"
    /\ \A s \in Current : src[s] \in Finished
    /\ IF errChan # <<>>
       THEN Respond("enrichment_failed") /\ UNCHANGED at
       ELSE pc' = "middlewares" /\ at' = at + 1 /\ UNCHANGED answer
    /\ UNCHANGED <<plan, fanVars, known, rulesVars, forwarded, expired>>

MiddlewaresDone ==
    /\ pc = "middlewares"
    /\ at > Len(plan.middlewares)
    /\ pc' = "rules"
    /\ at' = 1
    /\ UNCHANGED <<plan, fanVars, known, rulesVars, forwarded, expired, answer>>

-----------------------------------------------------------------------------
NextRule ==
    /\ passed' = passed \cup {at}
    /\ at' = at + 1
    /\ UNCHANGED <<pc, answer>>

(* EvaluateBool on a validation: an error, false, or true. *)
RuleFails ==
    /\ MayFail(Rules[at].needs, at \in plan.fragileRules)
    /\ Respond("evaluation_error")
    /\ UNCHANGED <<at, known, rulesVars>>

Validate_Continues ==
    /\ pc = "rules" /\ at <= Len(Rules)
    /\ Rules[at].kind = "validation"
    /\ \/ RuleFails
       \/ /\ Evaluates(Rules[at].needs)
          /\ (at' = at + 1 /\ UNCHANGED <<pc, answer, passed>>) \/ NextRule
          /\ UNCHANGED <<known, skipped>>
    /\ UNCHANGED <<plan, fanVars, forwarded, expired>>
Validate ==
    /\ pc = "rules" /\ at <= Len(Rules)
    /\ Rules[at].kind = "validation"
    /\ \/ RuleFails
       \/ /\ Evaluates(Rules[at].needs)
          /\ (Respond("rejected") /\ UNCHANGED <<at, passed>>) \/ NextRule
          /\ UNCHANGED <<known, skipped>>
    /\ UNCHANGED <<plan, fanVars, forwarded, expired>>

(* ExecuteTransformation: the condition chooses the value or else_value;   *)
(* with a false condition and no else_value the target stays as it is.     *)
Assign(reads, target) ==
    \/ Evaluates(reads) /\ NextRule /\ known' = known \cup {target}
    \/ /\ MayFail(reads, at \in plan.fragileRules)
       /\ Respond("evaluation_error") /\ UNCHANGED <<at, passed, known>>

Transform_SkipsElse ==
    /\ pc = "rules" /\ at <= Len(Rules)
    /\ Rules[at].kind = "transformation"
    /\ \/ RuleFails
       \/ /\ Evaluates(Rules[at].needs)
          /\ Assign(Rules[at].value, Rules[at].target) \/ (NextRule /\ UNCHANGED known)
          /\ UNCHANGED skipped
    /\ UNCHANGED <<plan, fanVars, forwarded, expired>>
Transform ==
    /\ pc = "rules" /\ at <= Len(Rules)
    /\ Rules[at].kind = "transformation"
    /\ \/ RuleFails
       \/ /\ Evaluates(Rules[at].needs)
          /\ \/ Assign(Rules[at].value, Rules[at].target)
             \/ Rules[at].else # NoElse /\ Assign(Rules[at].else, Rules[at].target)
          /\ UNCHANGED skipped
       \/ /\ Evaluates(Rules[at].needs)
          /\ Rules[at].else = NoElse
          /\ skipped' = skipped \cup {Rules[at].target}
          /\ NextRule /\ UNCHANGED known
    /\ UNCHANGED <<plan, fanVars, forwarded, expired>>

RulesDone ==
    /\ pc = "rules" /\ at > Len(Rules)
    /\ pc' = "build"
    /\ UNCHANGED <<plan, at, fanVars, known, rulesVars, forwarded, expired, answer>>

(* Responder.Build evaluates the body and the headers. *)
Build ==
    /\ pc = "build"
    /\ \/ /\ MayFail(plan.body, "body" \in plan.fragileOutput)
          /\ Respond("evaluation_error")
       \/ /\ Evaluates(plan.body)
          /\ IF plan.forwards
             THEN pc' = "target" /\ UNCHANGED answer
             ELSE pc' = "metrics" /\ answer' = "built"
    /\ UNCHANGED <<plan, at, fanVars, known, rulesVars, forwarded, expired>>

(* The interceptor: one call of the target, under the same context. *)
Forward ==
    /\ pc = "target"
    /\ \/ /\ MayFail(plan.url, "url" \in plan.fragileOutput)
          /\ Respond("evaluation_error") /\ UNCHANGED forwarded
       \/ /\ Evaluates(plan.url)
          /\ IF expired
             THEN Respond("downstream_error") /\ UNCHANGED forwarded
             ELSE pc' = "calling" /\ forwarded' = TRUE /\ UNCHANGED answer
    /\ UNCHANGED <<plan, at, fanVars, known, rulesVars, expired>>

TargetAnswers ==
    /\ pc = "calling"
    /\ pc' = "metrics"
    /\ answer' = "relayed"
    /\ UNCHANGED <<plan, at, fanVars, known, rulesVars, forwarded, expired>>

TargetFails ==
    /\ pc = "calling"
    /\ Respond("downstream_error")
    /\ UNCHANGED <<plan, at, fanVars, known, rulesVars, forwarded, expired>>

(* A metric that fails is logged: the answer stands. *)
Metrics ==
    /\ pc = "metrics"
    /\ pc' = "answered"
    /\ UNCHANGED <<plan, at, fanVars, known, rulesVars, forwarded, expired, answer>>

(* The deadline that the transport put on the context. *)
Expire ==
    /\ ~expired
    /\ expired' = TRUE
    /\ UNCHANGED <<plan, pc, at, fanVars, known, rulesVars, forwarded, answer>>

(* The Go runtime may end the program when a map is written while another  *)
(* goroutine reads or writes it.  The mutex orders the writers only: the   *)
(* readers of detection are the sources that interpolate from it and, past *)
(* the fan-out, Execute itself.                                            *)
Reading == {s \in Source : src[s] = "spawned" /\ plan.needs[s] \cap Source # {}}
ExecuteReads ==
    \/ pc = "rules" /\ at <= Len(Rules) /\ Rules[at].needs \cap Source # {}
    \/ pc = "build" /\ plan.body \cap Source # {}
    \/ pc = "target" /\ plan.url \cap Source # {}

Crash ==
    /\ pc # "answered" /\ pc # "crashed"
    /\ Writing # {}
    /\ Reading # {} \/ ExecuteReads \/ Cardinality(Writing) > 1
    /\ pc' = "crashed"
    /\ UNCHANGED <<plan, at, fanVars, known, rulesVars, forwarded, expired, answer>>

-----------------------------------------------------------------------------
SourceStep(s) ==
    \/ Resolve(s) \/ CallAnswers(s) \/ CallFails(s) \/ CallTimesOut(s)
    \/ LockResult(s) \/ WriteResult(s)

ExecuteStep ==
    \/ Parse \/ TakeToken \/ FanOut \/ Join \/ MiddlewaresDone
    \/ Validate \/ Transform \/ RulesDone \/ Build \/ Forward \/ Metrics

Next ==
    /\ pc \notin {"answered", "crashed"}
    /\ \/ ExecuteStep
       \/ \E s \in Source : SourceStep(s)
       \/ TargetAnswers \/ TargetFails
       \/ Expire \/ Crash

(* Goroutines are scheduled, the deadline comes, and a call whose context  *)
(* is done ends.  Neither the sources nor the target need ever answer.     *)
Running == pc \notin {"answered", "crashed"}
Fairness ==
    /\ WF_vars(Running /\ ExecuteStep)
    /\ \A s \in Source :
        WF_vars(Running /\ (Resolve(s) \/ CallTimesOut(s) \/ WriteResult(s)
                            \/ (s \notin plan.remote /\ CallAnswers(s))))
    /\ \A s \in Source : SF_vars(Running /\ LockResult(s))
    /\ WF_vars(Running /\ expired /\ TargetFails)
    /\ WF_vars(Running /\ Expire)

Spec == Init /\ [][Next]_vars /\ Fairness

-----------------------------------------------------------------------------
(* Every expression reads what an earlier stage provides, if all goes      *)
(* well: a source what earlier middlewares gave, a rule also what earlier  *)
(* transformations assigned.                                               *)
Before(i) == Field \cup UNION {plan.middlewares[j] : j \in 1..(i - 1)}
Assigned(i) ==
    {Rules[j].target : j \in {k \in 1..(i - 1) : Rules[k].kind = "transformation"}}
WellOrdered ==
    /\ \A i \in DOMAIN plan.middlewares :
        \A s \in plan.middlewares[i] \cap Source : plan.needs[s] \subseteq Before(i)
    /\ \A i \in DOMAIN Rules :
        LET there == Before(Len(plan.middlewares) + 1) \cup Assigned(i) IN
        /\ Rules[i].needs \subseteq there
        /\ Rules[i].kind = "transformation" =>
            /\ Rules[i].value \subseteq there
            /\ Rules[i].else = NoElse \/ Rules[i].else \subseteq there
    /\ plan.body \cup plan.url
        \subseteq Before(Len(plan.middlewares) + 1) \cup Assigned(Len(Rules) + 1)

(* The flaw of the configuration that an internal error is due to: where   *)
(* the request ended, and nowhere else.                                    *)
Blamed ==
    \/ /\ answer = "enrichment_failed"
       /\ at \in plan.undecodable \/ \E s \in plan.fragileSources : src[s] = "error"
    \/ answer = "evaluation_error" /\ at \in DOMAIN Rules /\ at \in plan.fragileRules
    \/ answer = "evaluation_error" /\ at \notin DOMAIN Rules /\ plan.fragileOutput # {}

(* An internal error (500) of a well-ordered configuration has a cause:    *)
(* a field the client left out, a source whose call failed or came too     *)
(* late, a transformation that did not apply, or a flaw of the very        *)
(* middleware, source, rule or output at which the request ended.          *)
ErrorsHaveACause ==
    (answer \in {"evaluation_error", "enrichment_failed"} /\ WellOrdered) =>
        \/ \E f \in Field : f \notin known
        \/ \E s \in Source : src[s] \in {"failed", "late"}
        \/ skipped # {}
        \/ Blamed

(* A parameter that cannot be resolved, in whichever goroutine, ends the   *)
(* request before the next middleware or any rule runs.                    *)
ParamErrorStopsRequest ==
    (\E s \in Source : src[s] = "error") =>
        /\ pc \in {"join", "crashed"} \/ answer = "enrichment_failed"
        /\ passed = {}

(* The target is called only for a request that every validation accepted, *)
(* those after the transformations included.                               *)
ForwardOnlyValidated ==
    forwarded => \A i \in DOMAIN Rules : i \in passed

(* The detection map is safe, but for one pattern: a middleware of several *)
(* sources, one of which interpolates detection.                           *)
CrashNeedsDetectionReference ==
    pc = "crashed" =>
        \E i \in DOMAIN plan.middlewares :
            /\ Cardinality(plan.middlewares[i]) > 1
            /\ \E s \in plan.middlewares[i] \cap Source : plan.needs[s] \cap Source # {}

(* Every request ends, whether or not its sources and its target answer. *)
RequestEnds == <>~Running

(* README.md:186, on_timeout: a request in which a call ran into the       *)
(* deadline is answered with the configured 504, not with data missing.    *)
TimeoutIsReported ==
    (\E s \in Source : src[s] = "late") => answer \notin {"built", "relayed"}
=============================================================================
