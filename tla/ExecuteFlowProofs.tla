------------------------- MODULE ExecuteFlowProofs --------------------------
(***************************************************************************)
(* What ExecuteFlow promises of one request, for every configuration: any  *)
(* number of middlewares, of sources in each, and of rules.                *)
(***************************************************************************)
EXTENDS ExecuteFlow, FiniteSetTheorems, TLAPS

Middlewares == plan.middlewares

(* Where the request is, and what it has passed when it is there. *)
Staged ==
    /\ pc \in {"parse", "middlewares", "join", "rules", "build", "target",
               "calling", "metrics", "answered", "crashed"}
    /\ at \in 1..(Len(Middlewares) + Len(Rules) + 1)
    /\ pc = "parse" => at = 1
    /\ pc = "middlewares" => at <= Len(Middlewares) + 1
    /\ pc = "join" => at <= Len(Middlewares)
    /\ pc = "rules" => at <= Len(Rules) + 1
    /\ pc \in {"build", "target"} => at > Len(Rules)
    /\ answer \in Answer
    /\ answer = "none" <=> pc \notin {"metrics", "answered"}

Passing ==
    /\ passed \subseteq DOMAIN Rules
    /\ pc \in {"parse", "middlewares", "join", "crashed"} => passed = {}
    /\ answer = "enrichment_failed" => passed = {}
    /\ pc = "rules" => passed = 1..(at - 1)
    /\ pc \in {"build", "target"} \/ forwarded => passed = DOMAIN Rules

Errors ==
    /\ errChan \in Seq(Source)
    /\ \A i \in DOMAIN errChan : src[errChan[i]] = "error"
    /\ \A s \in Source : src[s] = "error" => errChan # <<>>
    /\ errChan # <<>> => pc \in {"join", "crashed"} \/ answer = "enrichment_failed"

(* Goroutines live inside the fan-out of the current middleware, and one   *)
(* of them at a time holds the mutex.                                      *)
Fanned ==
    /\ \A s \in Source : src[s] \notin Finished =>
          /\ pc \in {"join", "crashed"}
          /\ at \in DOMAIN Middlewares
          /\ s \in Middlewares[at]
    /\ \A s, t \in Source : src[s] = "writing" /\ src[t] = "writing" => s = t
    /\ pc = "join" => Middlewares[at] \subseteq Source

Values ==
    /\ plan \in Plans
    /\ src \in [Source -> SourceState]
    /\ known \subseteq Key
    /\ skipped \subseteq Var
    /\ forwarded \in BOOLEAN
    /\ expired \in BOOLEAN

FlowInv ==
    Values /\ Staged /\ Passing /\ Errors /\ Fanned /\ CrashNeedsDetectionReference

-----------------------------------------------------------------------------
(* What the assumptions say of the configuration of a request. *)
LEMMA PlanType ==
    ASSUME plan \in Plans
    PROVE  /\ Middlewares \in Seq(SUBSET Key)
           /\ Rules \in Seq(Rule)
           /\ \A i \in DOMAIN Middlewares :
                /\ IsFiniteSet(Middlewares[i])
                /\ ~(Middlewares[i] \subseteq Auth) => Middlewares[i] \subseteq Source
           /\ \A i, j \in DOMAIN Middlewares :
                i # j => Middlewares[i] \cap Middlewares[j] = {}
           /\ plan.needs \in [Source -> SUBSET Key]
           /\ plan.fragileSources \subseteq Source
<1>1. /\ plan.input \in Seq(Rule) /\ plan.processing \in Seq(Rule)
      /\ plan.transformations \in Seq(Rule) /\ plan.output \in Seq(Rule)
  BY PlanAssumption
<1>2. Rules \in Seq(Rule)
  BY <1>1, SMT DEF Rules
<1> QED
  BY <1>2, PlanAssumption DEF Middlewares

(* Two members make a set of more than one. *)
LEMMA TwoMembers ==
    ASSUME NEW S, IsFiniteSet(S), NEW a \in S, NEW b \in S, a # b
    PROVE  Cardinality(S) > 1
<1>1. IsFiniteSet({a}) /\ Cardinality({a}) = 1
  BY FS_Singleton
<1>2. Cardinality({a} \cup {b}) = 2
  BY <1>1, FS_AddElement
<1>3. {a} \cup {b} \in SUBSET S
  OBVIOUS
<1>4. Cardinality({a} \cup {b}) <= Cardinality(S)
  BY <1>3, FS_Subset
<1>5. Cardinality(S) \in Nat
  BY FS_CardinalityType
<1> QED
  BY <1>2, <1>4, <1>5

(* The configuration of a request never changes. *)
LEMMA PlanStays ==
    ASSUME plan' = plan
    PROVE  Middlewares' = Middlewares /\ Rules' = Rules
BY DEF Middlewares, Rules

LEMMA InitFlow == Init => FlowInv
<1> SUFFICES ASSUME Init PROVE FlowInv
  OBVIOUS
<1>1. plan \in Plans
  BY DEF Init
<1>2. Middlewares \in Seq(SUBSET Key) /\ Rules \in Seq(Rule)
  BY <1>1, PlanType
<1>a. known \subseteq Key
  BY Zenon DEF Init, Key
<1>b. src \in [Source -> SourceState]
  BY DEF Init, SourceState
<1>3. Values
  BY <1>1, <1>a, <1>b DEF Init, Values
<1>4. Staged
  BY <1>2, SMT DEF Init, Staged, Answer
<1>5. Passing /\ Errors /\ Fanned /\ CrashNeedsDetectionReference
  BY <1>2, SMT DEF Init, Passing, Errors, Fanned, CrashNeedsDetectionReference, Finished
<1> QED
  BY <1>3, <1>4, <1>5 DEF FlowInv

(* A step of a source's goroutine: the request waits in Join. *)
LEMMA SourceFlow ==
    ASSUME FlowInv, pc \notin {"answered", "crashed"}, NEW s \in Source, SourceStep(s)
    PROVE  FlowInv'
<1>1. src[s] \notin Finished
  BY SMT DEF SourceStep, Resolve, ResolveFails, Resolved, CallAnswers, CallFails, CallTimesOut, LockResult,
     WriteResult, SourceGoes, Finished
<1>2. pc = "join" /\ at \in DOMAIN Middlewares /\ s \in Middlewares[at]
  BY <1>1 DEF FlowInv, Fanned
<1>3. UNCHANGED <<plan, pc, at, passed, skipped, forwarded, expired, answer>>
  BY Zenon DEF SourceStep, Resolve, ResolveFails, Resolved, CallAnswers, CallFails, CallTimesOut, LockResult,
     WriteResult, SourceGoes, rulesVars
<1>4. PICK v \in SourceState :
        /\ v # "none"
        /\ src' = [src EXCEPT ![s] = v]
        /\ v = "error" => errChan' = Append(errChan, s)
        /\ v # "error" => errChan' = errChan
        /\ v = "writing" => Writing = {}
  <2>1. CASE Resolve(s)
    <3>1. CASE Resolved(s)
      <4>1. CASE expired /\ s \in plan.remote
        BY <2>1, <3>1, <4>1, Zenon DEF Resolve, Resolved, SourceState
      <4>2. CASE ~(expired /\ s \in plan.remote)
        BY <2>1, <3>1, <4>2, Zenon DEF Resolve, Resolved, SourceState
      <4> QED
        BY <4>1, <4>2
    <3>2. CASE ResolveFails(s) /\ errChan' = Append(errChan, s)
      BY <2>1, <3>2, Zenon DEF Resolve, ResolveFails, MayFail, Evaluates, SourceState
    <3> QED
      BY <2>1, <3>1, <3>2, Zenon DEF Resolve
  <2>2. CASE CallAnswers(s) \/ CallFails(s) \/ CallTimesOut(s)
    BY <2>2, SMT DEF CallAnswers, CallFails, CallTimesOut, SourceGoes, SourceState
  <2>3. CASE LockResult(s)
    BY <2>3, SMT DEF LockResult, SourceGoes, SourceState
  <2>4. CASE WriteResult(s)
    BY <2>4, SMT DEF WriteResult, SourceState
  <2> QED
    BY <2>1, <2>2, <2>3, <2>4 DEF SourceStep
<1>5. known' \subseteq Key
  <2>1. known' = known \/ known' = known \cup {s}
    BY Zenon DEF SourceStep, Resolve, ResolveFails, Resolved, CallAnswers, CallFails, CallTimesOut, LockResult,
       WriteResult, SourceGoes
  <2> QED
    BY <2>1, Zenon DEF FlowInv, Values, Key
<1>6. Middlewares' = Middlewares /\ Rules' = Rules
  BY <1>3, PlanStays
<1>7. src \in [Source -> SourceState] /\ errChan \in Seq(Source)
  BY DEF FlowInv, Values, Errors
<1>8. Values'
  BY <1>3, <1>4, <1>5, <1>7, SMT DEF FlowInv, Values
<1>9. Staged' /\ Passing'
  BY <1>3, <1>6 DEF FlowInv, Staged, Passing
<1>10. Errors'
  <2>1. errChan' \in Seq(Source)
    BY <1>4, <1>7
  <2>2. ASSUME NEW i \in DOMAIN errChan'
        PROVE  src'[errChan'[i]] = "error"
    <3>1. \A j \in DOMAIN errChan : errChan[j] \in Source /\ src[errChan[j]] = "error"
      BY <1>7 DEF FlowInv, Errors
    <3>2. \A j \in DOMAIN errChan : src'[errChan[j]] = "error"
      BY <1>1, <1>4, <1>7, <3>1, SMT DEF Finished
    <3>3. CASE v = "error"
      BY <1>4, <1>7, <3>2, <3>3, <2>2, SMT
    <3>4. CASE v # "error"
      BY <1>4, <3>2, <3>4, <2>2
    <3> QED
      BY <3>3, <3>4
  <2>3. ASSUME NEW t \in Source, src'[t] = "error"
        PROVE  errChan' # <<>>
    BY <1>4, <1>7, <2>3, SMT DEF FlowInv, Errors
  <2> QED
    BY <1>2, <1>3, <2>1, <2>2, <2>3 DEF Errors
<1>11. Fanned'
  <2>1. ASSUME NEW t \in Source, src'[t] \notin Finished
        PROVE  t \in Middlewares[at]
    BY <1>2, <1>4, <1>7, <2>1, SMT DEF FlowInv, Fanned
  <2>2. ASSUME NEW t \in Source, NEW u \in Source, src'[t] = "writing", src'[u] = "writing"
        PROVE  t = u
    BY <1>4, <1>7, <2>2, SMT DEF FlowInv, Fanned, Writing
  <2> QED
    BY <1>2, <1>3, <1>6, <2>1, <2>2 DEF FlowInv, Fanned
<1>12. CrashNeedsDetectionReference'
  BY <1>2, <1>3 DEF CrashNeedsDetectionReference
<1> QED
  BY <1>8, <1>9, <1>10, <1>11, <1>12 DEF FlowInv

(* Past the fan-out no goroutine is left. *)
LEMMA NobodyLeft ==
    ASSUME FlowInv, pc \notin {"join", "crashed"}, NEW s \in Source
    PROVE  src[s] \in Finished
BY DEF FlowInv, Fanned

(* The steps of Execute up to its rules. *)
LEMMA MiddlewareFlow ==
    ASSUME FlowInv, Parse \/ TakeToken \/ FanOut \/ Join \/ MiddlewaresDone
    PROVE  FlowInv'
<1>1. plan \in Plans
  BY DEF FlowInv, Values
<1>2. plan' = plan
  BY Zenon DEF Parse, TakeToken, FanOut, Join, MiddlewaresDone
<1>3. /\ Middlewares' = Middlewares /\ Rules' = Rules
      /\ Middlewares \in Seq(SUBSET Key) /\ Rules \in Seq(Rule)
  BY <1>1, <1>2, PlanStays, PlanType
<1>4. Current = Middlewares[at]
  BY DEF Current, Middlewares
<1>a. ~FanOut => pc' # "join"
  BY SMT DEF Parse, TakeToken, Join, MiddlewaresDone, Respond
<1>5. CASE Parse
  <2>1. Staged'
    BY <1>3, <1>5, SMT DEF FlowInv, Staged, Parse, Respond, Answer
  <2>2. Passing' /\ Errors' /\ CrashNeedsDetectionReference'
    BY <1>3, <1>5, SMT DEF FlowInv, Staged, Passing, Errors, Parse, Respond, fanVars, rulesVars,
       CrashNeedsDetectionReference
  <2>3. Values' /\ Fanned'
    <3>1. pc # "join" /\ pc # "crashed" /\ pc' # "join"
      BY <1>5, <1>a DEF Parse, FanOut
    <3> QED
      BY <1>3, <1>5, <3>1, NobodyLeft DEF FlowInv, Values, Fanned, Parse, fanVars, rulesVars, Finished
  <2> QED
    BY <2>1, <2>2, <2>3 DEF FlowInv
<1>6. CASE TakeToken
  <2>1. Staged'
    BY <1>3, <1>6, SMT DEF FlowInv, Staged, TakeToken, Middlewares
  <2>2. Passing' /\ Errors' /\ CrashNeedsDetectionReference'
    BY <1>3, <1>6, SMT DEF FlowInv, Staged, Passing, Errors, TakeToken, fanVars, rulesVars,
       CrashNeedsDetectionReference
  <2>3. known' \subseteq Key
    BY <1>6, Zenon DEF FlowInv, Values, TakeToken, Key
  <2>4. Values' /\ Fanned'
    BY <1>3, <1>6, <2>3, NobodyLeft DEF FlowInv, Values, Fanned, TakeToken, fanVars, rulesVars, Finished
  <2> QED
    BY <2>1, <2>2, <2>4 DEF FlowInv
<1>7. CASE FanOut /\ at \notin plan.undecodable
  <2>1. at \in DOMAIN Middlewares /\ pc = "middlewares" /\ pc' = "join"
    BY <1>3, <1>7, SMT DEF FlowInv, Staged, FanOut, Middlewares
  <2>2. Middlewares[at] \subseteq Source
    BY <1>1, <1>4, <1>7, <2>1, PlanType DEF FanOut
  <2>3. src' = [s \in Source |-> IF s \in Middlewares[at] THEN "spawned" ELSE src[s]]
    BY <1>4, <1>7 DEF FanOut
  <2>4. Staged'
    BY <1>3, <1>7, <2>1, SMT DEF FlowInv, Staged, FanOut
  <2>5. errChan = <<>>
    BY <2>1, SMT DEF FlowInv, Errors, Staged
  <2>6. Errors'
    <3>1. \A s \in Source : src'[s] # "error"
      BY <2>3, <2>5, SMT DEF FlowInv, Errors
    <3>2. errChan' = <<>>
      BY <1>7, <2>5 DEF FanOut
    <3> QED
      BY <3>1, <3>2, SMT DEF Errors
  <2>7. Passing' /\ CrashNeedsDetectionReference'
    BY <1>3, <1>7, <2>1, SMT DEF FlowInv, Passing, FanOut, rulesVars, CrashNeedsDetectionReference
  <2>8. Values'
    <3>1. src' \in [Source -> SourceState]
      BY <2>3, SMT DEF FlowInv, Values, SourceState
    <3> QED
      BY <1>7, <3>1 DEF FlowInv, Values, FanOut, rulesVars
  <2>9. Fanned'
    <3>1. \A s \in Source : src[s] \in Finished
      BY <2>1, NobodyLeft
    <3>2. \A s \in Source : src'[s] \notin Finished => s \in Middlewares[at]
      BY <2>3, <3>1
    <3>3. \A s \in Source : src'[s] # "writing"
      BY <2>3, <3>1, SMT DEF Finished
    <3> QED
      BY <1>3, <1>7, <2>1, <2>2, <3>2, <3>3 DEF Fanned, FanOut
  <2> QED
    BY <2>4, <2>6, <2>7, <2>8, <2>9 DEF FlowInv
<1>b. CASE FanOut /\ at \in plan.undecodable
  <2>1. /\ pc = "middlewares" /\ pc' = "answered" /\ answer' = "enrichment_failed"
        /\ UNCHANGED <<plan, at, src, errChan, known, passed, skipped, forwarded, expired>>
    BY <1>b, Zenon DEF FanOut, Respond, rulesVars
  <2>2. Staged'
    BY <1>3, <2>1, SMT DEF FlowInv, Staged, Answer
  <2>3. Passing' /\ Errors' /\ CrashNeedsDetectionReference'
    BY <1>3, <2>1, SMT DEF FlowInv, Staged, Passing, Errors, CrashNeedsDetectionReference
  <2>4. Values' /\ Fanned'
    BY <1>3, <2>1, NobodyLeft DEF FlowInv, Values, Fanned, Finished
  <2> QED
    BY <2>2, <2>3, <2>4 DEF FlowInv
<1>8. CASE Join
  <2>1. pc = "join" /\ at \in DOMAIN Middlewares /\ UNCHANGED <<src, errChan>>
    BY <1>3, <1>8, SMT DEF FlowInv, Staged, Join, fanVars
  <2>2. \A s \in Source : src[s] \in Finished
    BY <1>4, <1>8, <2>1 DEF FlowInv, Fanned, Join
  <2>3. Staged'
    BY <1>3, <1>8, <2>1, SMT DEF FlowInv, Staged, Join, Respond, Answer
  <2>4. Passing'
    BY <1>3, <1>8, <2>1, SMT DEF FlowInv, Staged, Passing, Join, Respond, rulesVars
  <2>5. Errors'
    BY <1>8, <2>1, SMT DEF FlowInv, Errors, Join, Respond
  <2>6. Values' /\ Fanned' /\ CrashNeedsDetectionReference'
    <3>1. pc' # "crashed"
      BY <1>8, SMT DEF Join, Respond
    <3>2. CrashNeedsDetectionReference'
      BY <3>1 DEF CrashNeedsDetectionReference
    <3>3. pc' # "join"
      BY <1>8, SMT DEF Join, Respond
    <3> QED
      BY <1>8, <2>1, <2>2, <3>2, <3>3 DEF FlowInv, Values, Fanned, Join, fanVars, rulesVars, Finished
  <2> QED
    BY <2>3, <2>4, <2>5, <2>6 DEF FlowInv
<1>9. CASE MiddlewaresDone
  <2>1. Staged'
    BY <1>3, <1>9, SMT DEF FlowInv, Staged, MiddlewaresDone
  <2>2. Passing' /\ Errors' /\ CrashNeedsDetectionReference'
    BY <1>3, <1>9, SMT DEF FlowInv, Staged, Passing, Errors, MiddlewaresDone, fanVars, rulesVars,
       CrashNeedsDetectionReference
  <2>3. Values' /\ Fanned'
    BY <1>3, <1>9, NobodyLeft DEF FlowInv, Values, Fanned, MiddlewaresDone, fanVars, rulesVars, Finished
  <2> QED
    BY <2>1, <2>2, <2>3 DEF FlowInv
<1> QED
  BY <1>5, <1>6, <1>7, <1>8, <1>9, <1>b

(* The steps of Execute from its rules to its answer, and a crash. *)
LEMMA RuleFlow ==
    ASSUME FlowInv, Validate \/ Transform
    PROVE  FlowInv'
<1>1. plan \in Plans /\ pc = "rules" /\ at \in DOMAIN Rules
  BY SMT DEF FlowInv, Values, Staged, Validate, Transform
<1>2. UNCHANGED <<plan, src, errChan, forwarded, expired>>
  BY Zenon DEF Validate, Transform, fanVars
<1>3. /\ Middlewares' = Middlewares /\ Rules' = Rules
      /\ Middlewares \in Seq(SUBSET Key) /\ Rules \in Seq(Rule)
  BY <1>1, <1>2, PlanStays, PlanType
<1>4. \/ /\ pc' = "answered" /\ answer' \in {"evaluation_error", "rejected"}
         /\ UNCHANGED <<at, passed>>
      \/ /\ passed' = passed \cup {at} /\ at' = at + 1
         /\ UNCHANGED <<pc, answer>>
  <2>1. CASE Validate
    BY <2>1, Zenon DEF Validate, RuleFails, Respond, NextRule, rulesVars
  <2>2. CASE Transform
    BY <2>2, Zenon DEF Transform, RuleFails, Respond, NextRule, Assign, rulesVars
  <2> QED
    BY <2>1, <2>2
<1>5. Rules[at].kind = "transformation" => Rules[at].target \in Var
  <2>1. Rules[at] \in Rule
    BY <1>1, <1>3
  <2> QED
    BY <2>1, SMT DEF Rule
<1>6. known' \subseteq Key /\ skipped' \subseteq Var
  <2>1. CASE Validate
    BY <2>1 DEF FlowInv, Values, Validate, RuleFails, rulesVars
  <2>2. CASE Transform
    <3>1. known' = known \/ known' = known \cup {Rules[at].target}
      BY <2>2, Zenon DEF Transform, RuleFails, Assign
    <3>2. skipped' = skipped \/ skipped' = skipped \cup {Rules[at].target}
      BY <2>2, Zenon DEF Transform, RuleFails, rulesVars
    <3>3. Rules[at].target \in Var
      BY <1>5, <2>2 DEF Transform
    <3>4. known' \subseteq Key
      BY <3>1, <3>3, Zenon DEF FlowInv, Values, Key
    <3>5. skipped' \subseteq Var
      BY <3>2, <3>3 DEF FlowInv, Values
    <3> QED
      BY <3>4, <3>5
  <2> QED
    BY <2>1, <2>2
<1>7. Values'
  BY <1>2, <1>6 DEF FlowInv, Values
<1>8. Staged'
  BY <1>1, <1>3, <1>4, SMT DEF FlowInv, Staged, Answer
<1>9. Passing'
  <2>1. passed = 1..(at - 1) /\ at \in Nat /\ at >= 1
    BY <1>1, <1>3 DEF FlowInv, Staged, Passing
  <2>2. passed \cup {at} = 1..at
    BY <2>1
  <2>3. passed \cup {at} \subseteq DOMAIN Rules
    BY <1>1, <1>3, <2>2, SMT
  <2>4. forwarded => passed = DOMAIN Rules
    BY DEF FlowInv, Passing
  <2>5. forwarded => passed' = DOMAIN Rules
    BY <1>4, <2>3, <2>4
  <2>6. answer' # "enrichment_failed" /\ pc' \in {"rules", "answered"}
    <3>1. answer = "none"
      BY <1>1, SMT DEF FlowInv, Staged
    <3> QED
      BY <1>1, <1>4, <3>1, SMT
  <2>7. pc' = "rules" => passed' = 1..(at' - 1)
    <3>1. pc' = "rules" => passed' = 1..at /\ at' = at + 1
      BY <1>4, <2>2
    <3>2. (at + 1) - 1 = at
      BY <2>1
    <3> QED
      BY <3>1, <3>2
  <2>8. passed' \subseteq DOMAIN Rules
    BY <1>4, <2>3 DEF FlowInv, Passing
  <2> QED
    BY <1>2, <1>3, <2>5, <2>6, <2>7, <2>8 DEF Passing
<1>10. Errors'
  BY <1>1, <1>2, <1>4, SMT DEF FlowInv, Staged, Errors
<1>11. Fanned'
  <2>1. pc' # "join" /\ pc # "join" /\ pc # "crashed"
    BY <1>1, <1>4
  <2> QED
    BY <1>1, <1>2, <2>1, NobodyLeft DEF FlowInv, Fanned, Finished
<1>12. CrashNeedsDetectionReference'
  BY <1>1, <1>4, SMT DEF CrashNeedsDetectionReference
<1> QED
  BY <1>7, <1>8, <1>9, <1>10, <1>11, <1>12 DEF FlowInv

LEMMA AnswerFlow ==
    ASSUME FlowInv,
           RulesDone \/ Build \/ Forward \/ Metrics \/ TargetAnswers \/ TargetFails
    PROVE  FlowInv'
<1>1. /\ plan \in Plans /\ pc \in {"rules", "build", "target", "calling", "metrics"}
      /\ pc' \notin {"parse", "middlewares", "join", "rules", "crashed"}
  BY SMT DEF FlowInv, Values, RulesDone, Build, Forward, Metrics, TargetAnswers,
     TargetFails, Respond
<1>2. UNCHANGED <<plan, at, src, errChan, known, passed, skipped, expired>>
  BY Zenon DEF RulesDone, Build, Forward, Metrics, TargetAnswers, TargetFails,
     fanVars, rulesVars
<1>3. /\ Middlewares' = Middlewares /\ Rules' = Rules
      /\ Middlewares \in Seq(SUBSET Key) /\ Rules \in Seq(Rule)
  BY <1>1, <1>2, PlanStays, PlanType
<1>4. Staged'
  BY <1>1, <1>2, <1>3, SMT DEF FlowInv, Staged, Answer, RulesDone, Build, Forward,
     Metrics, TargetAnswers, TargetFails, Respond
<1>5. Values'
  <2>1. forwarded' \in BOOLEAN
    <3>1. UNCHANGED forwarded \/ forwarded' = TRUE
      BY Zenon DEF RulesDone, Build, Forward, Metrics, TargetAnswers, TargetFails
    <3> QED
      BY <3>1, Zenon DEF FlowInv, Values
  <2> QED
    BY <1>2, <2>1 DEF FlowInv, Values
<1>6. Passing'
  <2>1. CASE RulesDone
    BY <1>2, <1>3, <2>1, SMT DEF FlowInv, Staged, Passing, RulesDone
  <2>2. CASE ~RulesDone
    BY <1>1, <1>2, <1>3, <2>2, SMT DEF FlowInv, Staged, Passing, Build, Forward,
       Metrics, TargetAnswers, TargetFails, Respond
  <2> QED
    BY <2>1, <2>2
<1>7. Errors'
  <2>1. errChan = <<>> \/ (pc = "metrics" /\ UNCHANGED answer /\ answer = "enrichment_failed")
    BY <1>1, SMT DEF FlowInv, Staged, Errors, RulesDone, Build, Forward,
       Metrics, TargetAnswers, TargetFails, Respond
  <2> QED
    BY <1>2, <2>1, SMT DEF FlowInv, Errors
<1>8. Fanned'
  BY <1>1, <1>2, NobodyLeft DEF FlowInv, Fanned, Finished
<1>9. CrashNeedsDetectionReference'
  BY <1>1 DEF CrashNeedsDetectionReference
<1> QED
  BY <1>4, <1>5, <1>6, <1>7, <1>8, <1>9 DEF FlowInv

(* Only a source writes the map, and sources live in the fan-out. *)
LEMMA CrashInJoin ==
    ASSUME FlowInv, Crash
    PROVE  pc = "join"
BY SMT DEF FlowInv, Fanned, Crash, Writing, Finished

(* A crash: somebody writes, hence the request is in the fan-out and the   *)
(* writer is alone, hence the reader is another source of the middleware.  *)
LEMMA CrashFlow ==
    ASSUME FlowInv, Crash
    PROVE  FlowInv'
<1>1. PICK w \in Source : src[w] = "writing"
  BY DEF Crash, Writing
<1>2. plan \in Plans /\ pc = "join" /\ at \in DOMAIN Middlewares /\ w \in Middlewares[at]
  BY <1>1, SMT DEF FlowInv, Values, Fanned, Crash, Finished
<1>3. Writing = {w}
  BY <1>1 DEF FlowInv, Fanned, Writing
<1>4. Cardinality(Writing) = 1
  BY <1>3, FS_Singleton
<1>5. Reading # {}
  BY <1>2, <1>4, SMT DEF Crash, ExecuteReads
<1>6. PICK r \in Source : src[r] = "spawned" /\ plan.needs[r] \cap Source # {}
  BY <1>5 DEF Reading
<1>7. r \in Middlewares[at] /\ r # w
  BY <1>1, <1>2, <1>6, SMT DEF FlowInv, Fanned, Finished
<1>8. Cardinality(Middlewares[at]) > 1
  BY <1>2, <1>7, PlanType, TwoMembers
<1>9. UNCHANGED <<plan, at, src, errChan, known, passed, skipped, forwarded, expired, answer>>
      /\ pc' = "crashed"
  BY DEF Crash, fanVars, rulesVars
<1>10. Middlewares' = Middlewares /\ Rules' = Rules
  BY <1>9, PlanStays
<1>11. CrashNeedsDetectionReference'
  BY <1>2, <1>6, <1>7, <1>8, <1>9 DEF CrashNeedsDetectionReference, Middlewares
<1>12. Values' /\ Staged' /\ Passing' /\ Errors' /\ Fanned'
  BY <1>2, <1>9, <1>10, SMT DEF FlowInv, Values, Staged, Passing, Errors, Fanned
<1> QED
  BY <1>11, <1>12 DEF FlowInv

LEMMA StepFlow == FlowInv /\ [Next]_vars => FlowInv'
<1> SUFFICES ASSUME FlowInv, [Next]_vars PROVE FlowInv'
  OBVIOUS
<1>1. CASE ExecuteStep
  BY <1>1, MiddlewareFlow, RuleFlow, AnswerFlow, Zenon DEF ExecuteStep
<1>2. CASE pc \notin {"answered", "crashed"} /\ \E s \in Source : SourceStep(s)
  BY <1>2, SourceFlow
<1>3. CASE TargetAnswers \/ TargetFails
  BY <1>3, AnswerFlow
<1>4. CASE Crash
  BY <1>4, CrashFlow
<1>5. CASE Expire \/ UNCHANGED vars
  <2>1. /\ UNCHANGED <<plan, pc, at, src, errChan, known, passed, skipped, forwarded, answer>>
        /\ expired' \in BOOLEAN
    BY <1>5 DEF FlowInv, Values, Expire, vars, fanVars, rulesVars
  <2>2. Middlewares' = Middlewares /\ Rules' = Rules
    BY <2>1, PlanStays
  <2> QED
    BY <2>1, <2>2 DEF FlowInv, Values, Staged, Passing, Errors, Fanned,
       CrashNeedsDetectionReference
<1> QED
  BY <1>1, <1>2, <1>3, <1>4, <1>5, Zenon DEF Next

LEMMA FlowHolds == Spec => []FlowInv
BY InitFlow, StepFlow, PTL DEF Spec

-----------------------------------------------------------------------------
(* The state of a request has its type. *)
THEOREM TypeCorrect == Spec => []TypeOK
<1>1. FlowInv => TypeOK
  BY SMT DEF FlowInv, Values, Staged, Passing, Errors, TypeOK, Middlewares
<1> QED
  BY <1>1, FlowHolds, PTL

(* A parameter that cannot be resolved, in whichever goroutine, ends the   *)
(* request before the next middleware or any rule runs.                    *)
THEOREM ParamErrorStops == Spec => []ParamErrorStopsRequest
<1>1. FlowInv => ParamErrorStopsRequest
  BY SMT DEF FlowInv, Passing, Errors, ParamErrorStopsRequest
<1> QED
  BY <1>1, FlowHolds, PTL

(* The target is called only for a request that passed every rule. *)
THEOREM OnlyValidatedIsForwarded == Spec => []ForwardOnlyValidated
<1>1. FlowInv => ForwardOnlyValidated
  BY DEF FlowInv, Passing, ForwardOnlyValidated
<1> QED
  BY <1>1, FlowHolds, PTL

(* The program can end only under a configuration of one pattern: several  *)
(* sources in a middleware, one of which reads detection.                  *)
THEOREM CrashIsDelimited == Spec => []CrashNeedsDetectionReference
<1>1. FlowInv => CrashNeedsDetectionReference
  BY DEF FlowInv
<1> QED
  BY <1>1, FlowHolds, PTL

-----------------------------------------------------------------------------
(* Where an internal error comes from.  As long as nothing outside the     *)
(* code failed, every stage finds what the earlier ones were to provide.   *)
Obtained ==
    /\ Field \subseteq known
    /\ \A s \in Source : src[s] \notin {"failed", "late"}
    /\ skipped = {}
    /\ \A s \in plan.fragileSources : src[s] # "error"

Supplied ==
    /\ errChan = <<>>
    /\ answer \in {"evaluation_error", "enrichment_failed"} => Blamed
    /\ \A j \in DOMAIN Middlewares :
          \/ pc \in {"rules", "build", "target"}
          \/ pc \in {"parse", "middlewares", "join"} /\ j < at
          => Middlewares[j] \subseteq known
    /\ \A j \in passed : Rules[j].kind = "transformation" => Rules[j].target \in known

(* A source is started once, so that the trace of its failure stays. *)
Started ==
    /\ pc \in {"parse", "middlewares", "join"} =>
          \A s \in Source : src[s] # "none" =>
              \E j \in DOMAIN Middlewares :
                  /\ j < at \/ (pc = "join" /\ j = at)
                  /\ s \in Middlewares[j]
    /\ pc = "join" => \A s \in Middlewares[at] : src[s] # "none"
    /\ \A s \in Source : src[s] = "ended" => s \in known

Provision == Started /\ (WellOrdered /\ Obtained => Supplied)

(* What a well-ordered configuration reads has been supplied. *)
LEMMA SourceReads ==
    ASSUME FlowInv, WellOrdered, Obtained, Supplied, pc = "join",
           at \in DOMAIN Middlewares, NEW s \in Source, s \in Middlewares[at]
    PROVE  plan.needs[s] \subseteq known
<1>1. Middlewares \in Seq(SUBSET Key)
  BY PlanType DEF FlowInv, Values
<1>2. plan.needs[s] \subseteq Before(at)
  BY DEF WellOrdered, Middlewares
<1>3. ASSUME NEW j \in 1..(at - 1)
      PROVE  Middlewares[j] \subseteq known
  <2>1. j \in DOMAIN Middlewares /\ j < at
    BY <1>1, SMT
  <2> QED
    BY <2>1 DEF Supplied
<1>4. Before(at) \subseteq known
  BY <1>3 DEF Before, Obtained, Middlewares
<1> QED
  BY <1>2, <1>4

LEMMA RuleReads ==
    ASSUME FlowInv, Obtained, Supplied, NEW i \in Nat,
           \A j \in 1..(i - 1) : j \in passed,
           pc \in {"rules", "build", "target"}
    PROVE  Before(Len(plan.middlewares) + 1) \cup Assigned(i) \subseteq known
<1>1. Middlewares \in Seq(SUBSET Key)
  BY PlanType DEF FlowInv, Values
<1>2. ASSUME NEW j \in 1..((Len(plan.middlewares) + 1) - 1)
      PROVE  plan.middlewares[j] \subseteq known
  <2>1. j \in DOMAIN Middlewares
    BY <1>1, SMT DEF Middlewares
  <2> QED
    BY <2>1 DEF Supplied, Middlewares
<1>3. Before(Len(plan.middlewares) + 1) \subseteq known
  BY <1>2 DEF Before, Obtained
<1>4. Assigned(i) \subseteq known
  BY DEF Assigned, Supplied
<1> QED
  BY <1>3, <1>4

(* What an enrichment provides are sources. *)
LEMMA SourceOnly ==
    ASSUME FlowInv, at \in DOMAIN Middlewares, pc = "join"
    PROVE  \A s \in Middlewares[at] : s \in Source
BY DEF FlowInv, Fanned

LEMMA OrderStays == ASSUME plan' = plan PROVE WellOrdered' = WellOrdered
<1>1. Rules' = Rules
  BY PlanStays
<1>2. \A i : Before(i)' = Before(i)
  BY Zenon DEF Before
<1>3. \A i : Assigned(i)' = Assigned(i)
  BY <1>1, Zenon DEF Assigned
<1> QED
  BY <1>1, <1>2, <1>3 DEF WellOrdered

(* Before the request is answered there is nothing to blame. *)
LEMMA Unanswered ==
    ASSUME FlowInv, pc \notin {"metrics", "answered"}
    PROVE  answer = "none" /\ answer \notin {"evaluation_error", "enrichment_failed"}
BY SMT DEF FlowInv, Staged

LEMMA BlameStays ==
    ASSUME UNCHANGED <<plan, at, src, answer>>
    PROVE  Blamed' = Blamed
<1>1. Rules' = Rules
  BY PlanStays
<1> QED
  BY <1>1, Zenon DEF Blamed

LEMMA SourceProvision ==
    ASSUME FlowInv, Provision, pc \notin {"answered", "crashed"},
           NEW s \in Source, SourceStep(s)
    PROVE  Provision'
<1>1. src[s] \notin Finished
  BY SMT DEF SourceStep, Resolve, ResolveFails, Resolved, CallAnswers, CallFails, CallTimesOut, LockResult,
     WriteResult, SourceGoes, Finished
<1>2. pc = "join" /\ at \in DOMAIN Middlewares /\ s \in Middlewares[at]
  BY <1>1 DEF FlowInv, Fanned
<1>3. UNCHANGED <<plan, pc, at, passed, skipped, forwarded, expired, answer>>
  BY Zenon DEF SourceStep, Resolve, ResolveFails, Resolved, CallAnswers, CallFails, CallTimesOut, LockResult,
     WriteResult, SourceGoes, rulesVars
<1>4. PICK v \in SourceState :
        /\ v # "none"
        /\ src' = [src EXCEPT ![s] = v]
        /\ v = "ended" => known' = known \cup {s}
        /\ v # "ended" => known' = known
        /\ errChan' # errChan => v = "error"
        /\ v = "error" => ~(plan.needs[s] \subseteq known) \/ s \in plan.fragileSources
  <2>1. CASE Resolve(s)
    <3>1. CASE Resolved(s)
      <4>1. CASE expired /\ s \in plan.remote
        BY <2>1, <3>1, <4>1, Zenon DEF Resolve, Resolved, SourceState
      <4>2. CASE ~(expired /\ s \in plan.remote)
        BY <2>1, <3>1, <4>2, Zenon DEF Resolve, Resolved, SourceState
      <4> QED
        BY <4>1, <4>2
    <3>2. CASE ResolveFails(s) /\ errChan' = Append(errChan, s)
      BY <2>1, <3>2, Zenon DEF Resolve, ResolveFails, MayFail, Evaluates, SourceState
    <3> QED
      BY <2>1, <3>1, <3>2, Zenon DEF Resolve
  <2>2. CASE CallAnswers(s) \/ CallFails(s) \/ CallTimesOut(s)
    BY <2>2, SMT DEF CallAnswers, CallFails, CallTimesOut, SourceGoes, SourceState
  <2>3. CASE LockResult(s)
    BY <2>3, SMT DEF LockResult, SourceGoes, SourceState
  <2>4. CASE WriteResult(s)
    BY <2>4, SMT DEF WriteResult, SourceState
  <2> QED
    BY <2>1, <2>2, <2>3, <2>4 DEF SourceStep
<1>5. Middlewares' = Middlewares /\ Rules' = Rules /\ WellOrdered' = WellOrdered
  BY <1>3, PlanStays, OrderStays
<1>6. src \in [Source -> SourceState]
  BY DEF FlowInv, Values
<1>7. known \subseteq known'
  BY <1>4
<1>8. Started'
  <2>1. \A t \in Source : t # s => src'[t] = src[t]
    BY <1>4, <1>6
  <2>2. src'[s] = v
    BY <1>4, <1>6
  <2>3. \A t \in Source : src'[t] # "none" =>
            \E j \in DOMAIN Middlewares : (j < at \/ j = at) /\ t \in Middlewares[j]
    BY <1>2, <2>1 DEF Provision, Started
  <2>4. \A t \in Middlewares[at] : src'[t] # "none"
    <3>1. \A t \in Middlewares[at] : t \in Source
      BY <1>2, SourceOnly
    <3> QED
      BY <1>2, <1>4, <2>1, <2>2, <3>1 DEF Provision, Started
  <2>5. \A t \in Source : src'[t] = "ended" => t \in known'
    BY <1>4, <1>7, <2>1, <2>2 DEF Provision, Started
  <2> QED
    BY <1>2, <1>3, <1>5, <2>3, <2>4, <2>5 DEF Started
<1>9. ASSUME WellOrdered, Obtained'
      PROVE  Supplied'
  <2>1. Field \subseteq known
    <3>1. s \notin Field
      BY KeyAssumption
    <3> QED
      BY <1>4, <1>9, <3>1 DEF Obtained
  <2>2. \A t \in Source : src[t] \notin {"failed", "late"}
    BY <1>1, <1>4, <1>6, <1>9, SMT DEF Obtained, Finished
  <2>a. \A t \in plan.fragileSources : src[t] # "error"
    BY <1>1, <1>3, <1>4, <1>6, <1>9, PlanType DEF Obtained, Finished, FlowInv, Values
  <2>3. Obtained /\ Supplied
    BY <1>3, <1>9, <2>1, <2>2, <2>a DEF Obtained, Provision
  <2>4. plan.needs[s] \subseteq known
    BY <1>2, <1>9, <2>3, SourceReads
  <2>5. errChan' = errChan
    <3>1. v = "error" => s \notin plan.fragileSources
      BY <1>3, <1>4, <1>6, <1>9 DEF Obtained
    <3> QED
      BY <1>4, <2>4, <3>1
  <2>6. answer' = "none"
    BY <1>2, <1>3, Unanswered
  <2> QED
    BY <1>3, <1>5, <1>7, <2>3, <2>5, <2>6 DEF Supplied
<1> QED
  BY <1>5, <1>8, <1>9 DEF Provision

LEMMA MiddlewareProvision ==
    ASSUME FlowInv, Provision, Parse \/ TakeToken \/ FanOut \/ Join \/ MiddlewaresDone
    PROVE  Provision'
<1>1. plan' = plan /\ skipped' = skipped /\ passed' = passed
  BY Zenon DEF Parse, TakeToken, FanOut, Join, MiddlewaresDone, rulesVars
<1>2. /\ Middlewares' = Middlewares /\ Rules' = Rules /\ WellOrdered' = WellOrdered
      /\ Middlewares \in Seq(SUBSET Key)
  BY <1>1, PlanStays, OrderStays, PlanType DEF FlowInv, Values
<1>3. Current = Middlewares[at] /\ errChan' = errChan
  BY Zenon DEF Current, Middlewares, Parse, TakeToken, FanOut, Join, MiddlewaresDone, fanVars
<1>9. answer = "none"
  BY Unanswered, SMT DEF Parse, TakeToken, FanOut, Join, MiddlewaresDone
<1>4. CASE Parse
  <2>1. Started'
    BY <1>2, <1>4, SMT DEF Provision, Started, Parse, Respond, fanVars
  <2>2. Obtained' = Obtained
    BY <1>4, Zenon DEF Obtained, Parse, fanVars, rulesVars
  <2>3. Supplied => Supplied'
    BY <1>1, <1>2, <1>3, <1>4, <1>9, SMT DEF FlowInv, Staged, Supplied, Parse, Respond
  <2> QED
    BY <1>2, <2>1, <2>2, <2>3 DEF Provision
<1>5. CASE TakeToken
  <2>1. at \in DOMAIN Middlewares /\ at' = at + 1 /\ UNCHANGED <<pc, src, answer>>
    BY <1>2, <1>5, SMT DEF FlowInv, Staged, TakeToken, Middlewares, fanVars
  <2>2. known' = known \cup Middlewares[at] /\ pc = "middlewares"
    BY <1>3, <1>5 DEF TakeToken
  <2>3. Started'
    BY <1>2, <2>1, <2>2, SMT DEF Provision, Started
  <2>4. Obtained' => Obtained
    <3>1. Field \cap Middlewares[at] = {}
      BY <1>3, <1>5, KeyAssumption DEF TakeToken
    <3> QED
      BY <1>1, <2>1, <2>2, <3>1 DEF Obtained
  <2>5. Supplied => Supplied'
    <3>1. \A j \in DOMAIN Middlewares : j < at + 1 => j < at \/ j = at
      BY <1>2, <2>1, SMT
    <3> QED
      BY <1>1, <1>2, <1>3, <1>9, <2>1, <2>2, <3>1 DEF Supplied
  <2> QED
    BY <1>2, <2>3, <2>4, <2>5 DEF Provision
<1>6. CASE FanOut /\ at \notin plan.undecodable
  <2>1. at \in DOMAIN Middlewares /\ pc = "middlewares" /\ pc' = "join"
        /\ UNCHANGED <<at, known, answer>>
    BY <1>2, <1>6, SMT DEF FlowInv, Staged, FanOut, Middlewares
  <2>2. src' = [s \in Source |-> IF s \in Middlewares[at] THEN "spawned" ELSE src[s]]
    BY <1>3, <1>6 DEF FanOut
  <2>3. \A s \in Middlewares[at] : s \in Source /\ src[s] = "none" /\ src'[s] = "spawned"
    <3>1. ASSUME NEW s \in Middlewares[at]
          PROVE  s \in Source /\ src[s] = "none" /\ src'[s] = "spawned"
      <4>1. s \in Source
        BY <1>3, <1>6, <2>1, PlanType DEF FanOut, FlowInv, Values
      <4>2. ASSUME NEW j \in DOMAIN Middlewares, j < at
            PROVE  s \notin Middlewares[j]
        <5>1. j # at
          BY <1>2, <2>1, <4>2, SMT
        <5> QED
          BY <2>1, <5>1, PlanType DEF FlowInv, Values
      <4> QED
        BY <2>1, <2>2, <4>1, <4>2 DEF Provision, Started
    <3> QED
      BY <3>1
  <2>4. Started'
    <3>1. \A s \in Source : src'[s] # "none" =>
              \E j \in DOMAIN Middlewares : (j < at \/ j = at) /\ s \in Middlewares[j]
      BY <2>1, <2>2 DEF Provision, Started
    <3>2. \A s \in Source : src'[s] = "ended" => s \in known
      BY <2>2 DEF Provision, Started
    <3> QED
      BY <1>2, <2>1, <2>3, <3>1, <3>2 DEF Started
  <2>5. Obtained' => Obtained
    <3>1. plan.fragileSources \subseteq Source
      BY PlanType DEF FlowInv, Values
    <3>2. \A s \in Source : src'[s] = "spawned" \/ src'[s] = src[s]
      BY <2>2
    <3>3. \A s \in Source : s \in Middlewares[at] => src[s] = "none"
      BY <2>3
    <3>4. \A s \in Source : src'[s] \notin {"failed", "late"} => src[s] \notin {"failed", "late"}
      BY <2>2, <3>3
    <3>5. \A s \in Source : src'[s] # "error" => src[s] # "error"
      BY <2>2, <3>3
    <3> QED
      BY <1>1, <2>1, <3>1, <3>4, <3>5 DEF Obtained
  <2>6. Supplied => Supplied'
    BY <1>1, <1>2, <1>3, <1>9, <2>1 DEF Supplied
  <2> QED
    BY <1>2, <2>4, <2>5, <2>6 DEF Provision
<1>b. CASE FanOut /\ at \in plan.undecodable
  <2>1. /\ pc = "middlewares" /\ pc' = "answered" /\ answer' = "enrichment_failed"
        /\ UNCHANGED <<plan, at, src, known, skipped>>
    BY <1>b, Zenon DEF FanOut, Respond, rulesVars
  <2>2. Started'
    BY <2>1, SMT DEF Provision, Started
  <2>3. Obtained' = Obtained
    BY <2>1 DEF Obtained
  <2>4. Blamed'
    BY <1>b, <2>1 DEF Blamed
  <2>5. Supplied => Supplied'
    BY <1>1, <1>2, <1>3, <2>1, <2>4 DEF Supplied
  <2> QED
    BY <1>2, <2>2, <2>3, <2>5 DEF Provision
<1>7. CASE Join
  <2>1. pc = "join" /\ at \in DOMAIN Middlewares /\ UNCHANGED <<src, known>>
    BY <1>2, <1>7, SMT DEF FlowInv, Staged, Join, fanVars
  <2>2. \/ /\ errChan # <<>> /\ pc' = "answered" /\ at' = at
           /\ answer' = "enrichment_failed"
        \/ /\ errChan = <<>> /\ pc' = "middlewares" /\ at' = at + 1
           /\ UNCHANGED answer
    BY <1>7, Zenon DEF Join, Respond
  <2>3. \A j \in DOMAIN Middlewares : j < at + 1 <=> j < at \/ j = at
    BY <1>2, <2>1, SMT
  <2>4. Started'
    BY <1>2, <2>1, <2>2, <2>3, SMT DEF Provision, Started
  <2>5. Obtained' = Obtained
    BY <1>1, <2>1 DEF Obtained
  <2>6. ASSUME Obtained, Supplied
        PROVE  Supplied'
    <3>1. ASSUME NEW s \in Middlewares[at]
          PROVE  s \in known
      <4>1. s \in Source /\ src[s] # "none"
        BY <2>1, SourceOnly DEF Provision, Started
      <4>2. src[s] \in Finished
        BY <1>3, <1>7 DEF Join
      <4>3. src[s] # "error" /\ src[s] \notin {"failed", "late"}
        BY <2>6, <4>1 DEF FlowInv, Errors, Obtained, Supplied
      <4>4. src[s] = "ended"
        BY <4>1, <4>2, <4>3 DEF Finished
      <4> QED
        BY <4>1, <4>4 DEF Provision, Started
    <3>2. errChan = <<>>
      BY <2>6 DEF Supplied
    <3> QED
      BY <1>1, <1>2, <1>3, <1>9, <2>1, <2>2, <2>3, <2>6, <3>1, <3>2 DEF Supplied
  <2> QED
    BY <1>2, <2>4, <2>5, <2>6 DEF Provision
<1>8. CASE MiddlewaresDone
  <2>1. UNCHANGED <<src, known, answer>> /\ pc = "middlewares" /\ pc' = "rules"
    BY <1>8 DEF MiddlewaresDone, fanVars
  <2>2. \A j \in DOMAIN Middlewares : j < at
    BY <1>2, <1>8, SMT DEF FlowInv, Staged, MiddlewaresDone, Middlewares
  <2>3. Started'
    BY <1>2, <2>1, SMT DEF Provision, Started
  <2>4. Obtained' = Obtained
    BY <1>1, <2>1 DEF Obtained
  <2>5. Supplied => Supplied'
    BY <1>1, <1>2, <1>3, <1>9, <2>1, <2>2 DEF Supplied
  <2> QED
    BY <1>2, <2>3, <2>4, <2>5 DEF Provision
<1> QED
  BY <1>4, <1>5, <1>6, <1>7, <1>8, <1>b

(* What a step of the rules does: it goes on, or it ends the request with  *)
(* a rejection or with an error of an expression of this rule.             *)
LEMMA RuleOutcome ==
    ASSUME Validate \/ Transform
    PROVE  /\ pc = "rules" /\ at <= Len(Rules)
           /\ UNCHANGED <<plan, src, errChan>>
           /\ \/ /\ NextRule /\ UNCHANGED <<known, skipped>>
                 /\ Rules[at].kind = "validation"
              \/ /\ NextRule /\ UNCHANGED skipped
                 /\ known' = known \cup {Rules[at].target}
                 /\ Rules[at].kind = "transformation"
              \/ /\ NextRule /\ UNCHANGED known
                 /\ skipped' = skipped \cup {Rules[at].target}
              \/ /\ Respond("rejected") /\ UNCHANGED <<at, passed, known, skipped>>
              \/ /\ Respond("evaluation_error") /\ UNCHANGED <<at, passed, known, skipped>>
                 /\ \/ at \in plan.fragileRules
                    \/ ~(Rules[at].needs \subseteq known)
                    \/ /\ Rules[at].kind = "transformation"
                       /\ \/ ~(Rules[at].value \subseteq known)
                          \/ Rules[at].else # NoElse /\ ~(Rules[at].else \subseteq known)
<1>1. CASE Validate
  <2>1. /\ pc = "rules" /\ at <= Len(Rules) /\ Rules[at].kind = "validation"
        /\ UNCHANGED <<plan, src, errChan>>
    BY <1>1, Zenon DEF Validate, fanVars
  <2>2. \/ RuleFails
        \/ (Respond("rejected") \/ NextRule) /\ UNCHANGED <<known, skipped>>
    BY <1>1, Zenon DEF Validate
  <2>3. Respond("rejected") \/ NextRule =>
            (Respond("rejected") /\ UNCHANGED <<at, passed>>) \/ NextRule
    BY <1>1, <2>1, Zenon DEF Validate, RuleFails, Respond, NextRule
  <2>4. CASE RuleFails
    BY <2>1, <2>4, Zenon DEF RuleFails, MayFail, Evaluates, rulesVars
  <2> QED
    BY <2>1, <2>2, <2>3, <2>4, Zenon
<1>2. CASE Transform
  <2>1. /\ pc = "rules" /\ at <= Len(Rules) /\ Rules[at].kind = "transformation"
        /\ UNCHANGED <<plan, src, errChan>>
    BY <1>2, Zenon DEF Transform, fanVars
  <2>2. \/ RuleFails
        \/ Assign(Rules[at].value, Rules[at].target) /\ UNCHANGED skipped
        \/ /\ Rules[at].else # NoElse /\ Assign(Rules[at].else, Rules[at].target)
           /\ UNCHANGED skipped
        \/ /\ NextRule /\ UNCHANGED known
           /\ skipped' = skipped \cup {Rules[at].target}
    BY <1>2, Zenon DEF Transform
  <2>3. CASE RuleFails
    BY <2>1, <2>3, Zenon DEF RuleFails, MayFail, Evaluates, rulesVars
  <2>4. CASE Assign(Rules[at].value, Rules[at].target) /\ UNCHANGED skipped
    BY <2>1, <2>4, Zenon DEF Assign, MayFail, Evaluates
  <2>5. CASE /\ Rules[at].else # NoElse /\ Assign(Rules[at].else, Rules[at].target)
             /\ UNCHANGED skipped
    BY <2>1, <2>5, Zenon DEF Assign, MayFail, Evaluates
  <2> QED
    BY <2>1, <2>2, <2>3, <2>4, <2>5, Zenon
<1> QED
  BY <1>1, <1>2

LEMMA RuleProvision ==
    ASSUME FlowInv, Provision, Validate \/ Transform
    PROVE  Provision'
<1>1. pc = "rules" /\ at \in DOMAIN Rules
  BY SMT DEF FlowInv, Staged, Validate, Transform
<1>2. UNCHANGED <<plan, src, errChan>> /\ known \subseteq known' /\ skipped \subseteq skipped'
  BY RuleOutcome, Zenon
<1>3. /\ Middlewares' = Middlewares /\ Rules' = Rules /\ WellOrdered' = WellOrdered
      /\ Rules \in Seq(Rule)
  BY <1>2, PlanStays, OrderStays, PlanType DEF FlowInv, Values
<1>4. Rules[at] \in Rule
  BY <1>1, <1>3
<1>5. pc' \in {"rules", "answered"}
  BY <1>1, RuleOutcome, Zenon DEF Respond, NextRule
<1>6. Started'
  BY <1>2, <1>5, SMT DEF Provision, Started
<1>7. ASSUME WellOrdered, Obtained'
      PROVE  Supplied'
  <2>1. Field \subseteq known /\ skipped = {} /\ skipped' = {}
    <3>1. known' = known \/ known' = known \cup {Rules[at].target}
      BY RuleOutcome, Zenon
    <3>2. known' # known => Rules[at].target \in Var
      <4>1. known' # known => Rules[at].kind = "transformation"
        BY RuleOutcome, Zenon
      <4> QED
        BY <1>4, <4>1, SMT DEF Rule
    <3> QED
      BY <1>2, <1>7, <3>1, <3>2, KeyAssumption DEF Obtained
  <2>2. Obtained /\ Supplied
    BY <1>2, <1>7, <2>1 DEF Obtained, Provision
  <2>3. Before(Len(plan.middlewares) + 1) \cup Assigned(at) \subseteq known
    <3>1. at \in Nat /\ \A j \in 1..(at - 1) : j \in passed
      BY <1>1, <1>3 DEF FlowInv, Passing
    <3> QED
      BY <1>1, <2>2, <3>1, RuleReads
  <2>4. /\ Rules[at].needs \subseteq known
        /\ Rules[at].kind = "transformation" =>
              /\ Rules[at].value \subseteq known
              /\ Rules[at].else = NoElse \/ Rules[at].else \subseteq known
    BY <1>1, <1>7, <2>3 DEF WellOrdered
  <2>5. answer = "none"
    BY <1>1, Unanswered
  <2>6. CASE /\ Respond("evaluation_error") /\ UNCHANGED <<at, passed, known, skipped>>
             /\ at \in plan.fragileRules
    <3>1. Blamed'
      BY <1>1, <1>2, <1>3, <2>6 DEF Blamed, Respond
    <3> QED
      BY <1>2, <1>3, <1>5, <1>1, <2>2, <2>6, <3>1 DEF Supplied
  <2>7. CASE Respond("rejected") /\ UNCHANGED <<at, passed, known, skipped>>
    <3>1. answer' = "rejected"
      BY <2>7 DEF Respond
    <3> QED
      BY <1>1, <1>2, <1>3, <1>5, <2>2, <2>7, <3>1 DEF Supplied
  <2>8. CASE /\ NextRule
             /\ Rules[at].kind = "transformation" => Rules[at].target \in known'
    <3>1. answer' = "none" /\ passed' = passed \cup {at}
      BY <2>5, <2>8 DEF NextRule
    <3> QED
      BY <1>1, <1>2, <1>3, <1>5, <2>2, <2>8, <3>1 DEF Supplied
  <2>9. ~(skipped' = skipped \cup {Rules[at].target})
    BY <2>1
  <2> QED
    <3>1. \/ NextRule /\ Rules[at].kind = "validation"
          \/ NextRule /\ known' = known \cup {Rules[at].target}
          \/ Respond("rejected") /\ UNCHANGED <<at, passed, known, skipped>>
          \/ /\ Respond("evaluation_error") /\ UNCHANGED <<at, passed, known, skipped>>
             /\ at \in plan.fragileRules
      BY <2>4, <2>9, RuleOutcome, Zenon
    <3>2. "validation" # "transformation"
      OBVIOUS
    <3> QED
      BY <2>6, <2>7, <2>8, <3>1, <3>2
<1> QED
  BY <1>3, <1>6, <1>7 DEF Provision

LEMMA AnswerProvision ==
    ASSUME FlowInv, Provision,
           RulesDone \/ Build \/ Forward \/ Metrics \/ TargetAnswers \/ TargetFails
    PROVE  Provision'
<1>1. /\ pc \in {"rules", "build", "target", "calling", "metrics"}
      /\ pc' \notin {"parse", "middlewares", "join", "rules", "crashed"}
  BY SMT DEF RulesDone, Build, Forward, Metrics, TargetAnswers, TargetFails, Respond
<1>a. pc' \in {"build", "target"} => pc \in {"rules", "build", "target"}
  BY SMT DEF RulesDone, Build, Forward, Metrics, TargetAnswers, TargetFails, Respond
<1>2. UNCHANGED <<plan, at, src, errChan, known, passed, skipped, expired>>
  BY Zenon DEF RulesDone, Build, Forward, Metrics, TargetAnswers, TargetFails,
     fanVars, rulesVars
<1>3. /\ Middlewares' = Middlewares /\ Rules' = Rules /\ WellOrdered' = WellOrdered
      /\ Rules \in Seq(Rule)
  BY <1>2, PlanStays, OrderStays, PlanType DEF FlowInv, Values
<1>4. Started' /\ (Obtained' = Obtained)
  BY <1>1, <1>2, SMT DEF Provision, Started, Obtained
<1>5. ASSUME WellOrdered, Obtained
      PROVE  Supplied'
  <2>1. Supplied
    BY <1>5 DEF Provision
  <2>2. CASE Build \/ Forward
    <3>1. Len(Rules) + 1 \in Nat /\ \A j \in 1..((Len(Rules) + 1) - 1) : j \in passed
      BY <1>3, <2>2, SMT DEF FlowInv, Passing, Build, Forward
    <3>2. plan.body \cup plan.url \subseteq known
      <4>1. pc \in {"rules", "build", "target"}
        BY <2>2 DEF Build, Forward
      <4>2. Before(Len(plan.middlewares) + 1) \cup Assigned(Len(Rules) + 1) \subseteq known
        BY <1>5, <2>1, <3>1, <4>1, RuleReads
      <4> QED
        BY <1>5, <4>2 DEF WellOrdered
    <3>3. answer = "none"
      BY <2>2, Unanswered, SMT DEF Build, Forward
    <3>4. answer' \in {"evaluation_error", "enrichment_failed"} => Blamed'
      <4>1. ASSUME answer' = "evaluation_error" PROVE plan.fragileOutput # {}
        <5>1. plan.body \subseteq known /\ plan.url \subseteq known
          BY <3>2
        <5>2. CASE Build
          BY <3>3, <4>1, <5>1, <5>2, Zenon DEF Build, Evaluates, MayFail
        <5>3. CASE Forward
          BY <3>3, <4>1, <5>1, <5>3, Zenon DEF Forward, Respond, Evaluates, MayFail
        <5> QED
          BY <2>2, <5>2, <5>3
      <4>2. answer' # "enrichment_failed"
        BY <2>2, <3>3, SMT DEF Build, Forward, Respond
      <4>3. at' \notin DOMAIN Rules'
        BY <1>2, <1>3, <2>2, SMT DEF FlowInv, Staged, Build, Forward
      <4> QED
        BY <1>2, <4>1, <4>2, <4>3 DEF Blamed
    <3> QED
      BY <1>1, <1>a, <1>2, <1>3, <2>1, <3>4 DEF Supplied
  <2>3. CASE RulesDone \/ Metrics \/ TargetAnswers \/ TargetFails
    <3>1. answer' \in {"evaluation_error", "enrichment_failed"} => Blamed'
      <4>1. UNCHANGED answer \/ answer' \notin {"evaluation_error", "enrichment_failed"}
        BY <2>3, SMT DEF RulesDone, Metrics, TargetAnswers, TargetFails, Respond
      <4>2. UNCHANGED answer => Blamed' = Blamed
        BY <1>2, BlameStays
      <4> QED
        BY <2>1, <4>1, <4>2 DEF Supplied
    <3> QED
      BY <1>1, <1>a, <1>2, <1>3, <2>1, <3>1 DEF Supplied
  <2> QED
    BY <2>2, <2>3
<1> QED
  BY <1>3, <1>4, <1>5 DEF Provision

LEMMA StepProvision == FlowInv /\ Provision /\ [Next]_vars => Provision'
<1> SUFFICES ASSUME FlowInv, Provision, [Next]_vars PROVE Provision'
  OBVIOUS
<1>1. CASE ExecuteStep
  BY <1>1, MiddlewareProvision, RuleProvision, AnswerProvision, Zenon DEF ExecuteStep
<1>2. CASE pc \notin {"answered", "crashed"} /\ \E s \in Source : SourceStep(s)
  BY <1>2, SourceProvision
<1>3. CASE TargetAnswers \/ TargetFails
  BY <1>3, AnswerProvision
<1>4. CASE Crash \/ Expire \/ UNCHANGED vars
  <2>1. /\ UNCHANGED <<plan, at, src, errChan, known, passed, skipped, answer>>
        /\ pc' = pc \/ (pc = "join" /\ pc' = "crashed")
    BY <1>4, CrashInJoin DEF Crash, Expire, vars, fanVars, rulesVars
  <2>2. Middlewares' = Middlewares /\ Rules' = Rules /\ WellOrdered' = WellOrdered
    BY <2>1, PlanStays, OrderStays
  <2>3. Blamed' = Blamed
    BY <2>1, BlameStays
  <2> QED
    BY <2>1, <2>2, <2>3 DEF Provision, Started, Obtained, Supplied
<1> QED
  BY <1>1, <1>2, <1>3, <1>4, Zenon DEF Next

LEMMA ProvisionHolds == Spec => []Provision
<1>1. Init => Provision
  <2> SUFFICES ASSUME Init PROVE Provision
    OBVIOUS
  <2>2. Middlewares \in Seq(SUBSET Key)
    BY PlanType DEF Init
  <2>3. Started
    BY SMT DEF Init, Started
  <2>4. Supplied
    BY <2>2, SMT DEF Init, Supplied
  <2> QED
    BY <2>3, <2>4 DEF Provision
<1> QED
  BY <1>1, FlowHolds, StepProvision, PTL DEF Spec

(* An internal error of a well-ordered configuration has a cause, whatever *)
(* its middlewares and rules: a field left out, a source that failed or    *)
(* came too late, a transformation that did not apply, or a flaw of the    *)
(* very place where the request ended.                                     *)
THEOREM ErrorsAreCaused == Spec => []ErrorsHaveACause
<1>1. FlowInv /\ Provision => ErrorsHaveACause
  <2> SUFFICES ASSUME FlowInv, Provision, WellOrdered, ~Blamed,
                      answer \in {"evaluation_error", "enrichment_failed"},
                      Field \subseteq known, skipped = {},
                      \A s \in Source : src[s] \notin {"failed", "late"}
               PROVE  FALSE
    BY DEF ErrorsHaveACause
  <2>1. plan.fragileSources \subseteq Source
    BY PlanType DEF FlowInv, Values
  <2>2. ASSUME NEW s \in plan.fragileSources, src[s] = "error"
        PROVE  answer = "enrichment_failed"
    <3>1. pc \in {"join", "crashed"} \/ answer = "enrichment_failed"
      BY <2>1, <2>2 DEF FlowInv, Errors
    <3> QED
      BY <3>1, Unanswered, SMT
  <2>3. Obtained
    BY <2>2 DEF Obtained, Blamed
  <2> QED
    BY <2>3 DEF Provision, Supplied
<1> QED
  BY <1>1, FlowHolds, ProvisionHolds, PTL
=============================================================================
