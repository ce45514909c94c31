------------------------ MODULE ServiceEngineProofs -------------------------
(***************************************************************************)
(* What holds of the engine for any number of reloaders, requests,         *)
(* middlewares and configurations.                                         *)
(***************************************************************************)
EXTENDS ServiceEngine, TLAPS

LEMMA InitType == Init => TypeOK
<1> SUFFICES ASSUME Init PROVE TypeOK
  OBVIOUS
<1> USE EngineAssumption
<1>1. PICK b \in Config :
        /\ b.steps # "bad" /\ b.gql # "bad"
        /\ source = [ver |-> 0, body |-> b]
        /\ body = [n \in Gen |-> b]
        /\ engine = [cfg |-> 0, rm |-> 0, auth |-> 0, metric |-> 0,
                     gql |-> IF b.gql = "ok" THEN 0 ELSE Nil,
                     resp |-> IF b.steps = "ok" THEN 0 ELSE Nil]
        /\ running = {0} \X b.auth
  BY DEF Init
<1>2. 0 \in Gen /\ 0 \in 0..MaxVersion /\ b.auth \in SUBSET MW
  BY DEF Gen
<1>3. source \in [ver : 0..MaxVersion, body : Config] /\ body \in [Gen -> Config]
  BY <1>1, <1>2
<1>4. engine \in Published /\ running \subseteq Manager
  BY <1>1, <1>2 DEF Published, Manager
<1>5. reload \in [Reloader -> Reload] /\ ver \in [Gen -> 0..MaxVersion]
  BY <1>2 DEF Init, NoReload, Reload
<1>6. rest \in [Rest -> RestRequest] /\ graph \in [Graph -> GraphRequest]
  BY DEF Init, NoRequest, NoGraph, RestRequest, GraphRequest, Stage
<1> QED BY <1>2, <1>3, <1>4, <1>5, <1>6 DEF Init, TypeOK

(* Where a REST request can go, it is a request again. *)
LEMMA AdvanceType ==
    ASSUME TypeOK, NEW x \in Rest, NEW pc \in Stage, NEW saw \in SUBSET Gen, Advance(x, pc, saw)
    PROVE  rest' \in [Rest -> RestRequest]
<1>1. rest[x] \in RestRequest /\ "done" \in Stage
  BY DEF TypeOK, Stage
<1>2. [NoRequest EXCEPT !.pc = "done"] \in RestRequest
  BY <1>1 DEF NoRequest, RestRequest
<1>3. rest[x].saw \cup saw \in SUBSET Gen
  BY <1>1 DEF RestRequest
<1>4. [rest[x] EXCEPT !.pc = pc, !.saw = rest[x].saw \cup saw] \in RestRequest
  BY <1>1, <1>3 DEF RestRequest
<1> QED BY <1>2, <1>4 DEF Advance, TypeOK

LEMMA EngineTypes ==
    ASSUME TypeOK
    PROVE  /\ engine.cfg \in Gen /\ engine.rm \in Gen /\ engine.auth \in Gen /\ engine.metric \in Gen
           /\ \A n \in Gen : body[n] \in Config /\ body[n].auth \in SUBSET MW
           /\ \A r \in Reloader : reload[r] \in Reload
           /\ source.body \in Config /\ source.body.auth \in SUBSET MW
<1>1. \A b \in Config : b.auth \in SUBSET MW
  BY EngineAssumption
<1>2. engine \in Published /\ body \in [Gen -> Config] /\ source.body \in Config
  BY DEF TypeOK
<1> QED BY <1>1, <1>2 DEF TypeOK, Published

LEMMA RestType ==
    ASSUME TypeOK, NEW x \in Rest, RestStep(x)
    PROVE  rest' \in [Rest -> RestRequest] /\ UNCHANGED <<engineVars, graph>>
<1> USE EngineTypes
<1>1. CASE RestBegin(x)
  <2>1. \E pc \in {"middlewares", "done"} : Advance(x, pc, {engine.cfg})
    BY <1>1 DEF RestBegin
  <2> QED BY <1>1, <2>1, AdvanceType DEF RestBegin, Stage
<1>2. CASE RestMiddlewares(x)
  <2>1. CASE Advance(x, "done", {})
    BY <1>2, <2>1, AdvanceType DEF RestMiddlewares, Stage
  <2>2. CASE rest' = [rest EXCEPT ![x].pc = "input", ![x].saw = @ \cup {engine.cfg},
                                  ![x].todo = body[engine.cfg].auth]
    <3>1. rest[x] \in RestRequest /\ "input" \in Stage
      BY DEF TypeOK, Stage
    <3>2. rest[x].saw \cup {engine.cfg} \in SUBSET Gen /\ body[engine.cfg].auth \in SUBSET MW
      BY <3>1 DEF RestRequest
    <3>3. [rest[x] EXCEPT !.pc = "input", !.saw = @ \cup {engine.cfg},
                          !.todo = body[engine.cfg].auth] \in RestRequest
      BY <3>1, <3>2 DEF RestRequest
    <3> QED BY <1>2, <2>2, <3>3 DEF RestMiddlewares, TypeOK
  <2> QED BY <1>2, <2>1, <2>2 DEF RestMiddlewares
<1>3. ASSUME NEW mw \in MW, RestToken(x, mw)
      PROVE  rest' \in [Rest -> RestRequest] /\ UNCHANGED <<engineVars, graph>>
  <2>1. rest[x] \in RestRequest /\ rest \in [Rest -> RestRequest] /\ engine.auth \in Gen
    BY DEF TypeOK
  <2>2. PICK todo, saw, tokens :
            /\ todo = rest[x].todo \ {mw} /\ saw = rest[x].saw \cup {engine.auth}
            /\ tokens = IF mw \in body[engine.auth].auth
                        THEN rest[x].tokens \cup {mw} ELSE rest[x].tokens
    OBVIOUS
  <2>3. todo \in SUBSET MW /\ saw \in SUBSET Gen /\ tokens \in SUBSET MW
    BY <2>1, <2>2 DEF RestRequest
  <2>4. rest' = [rest EXCEPT ![x] = [rest[x] EXCEPT !.todo = todo, !.saw = saw, !.tokens = tokens]]
    BY <1>3, <2>2 DEF RestToken
  <2>5. [rest[x] EXCEPT !.todo = todo, !.saw = saw, !.tokens = tokens] \in RestRequest
    BY <2>1, <2>3 DEF RestRequest
  <2> QED BY <1>3, <2>1, <2>4, <2>5, ZenonT(30) DEF RestToken
<1>4. ASSUME NEW stage, NEW next \in Stage, RestRules(x, stage, next)
      PROVE  rest' \in [Rest -> RestRequest] /\ UNCHANGED <<engineVars, graph>>
  <2>1. \/ Advance(x, "panic", {engine.cfg})
        \/ \E pc \in {next, "done"} : Advance(x, pc, {engine.cfg, engine.rm})
    BY <1>4 DEF RestRules
  <2> QED BY <1>4, <2>1, AdvanceType DEF RestRules, Stage
<1>5. CASE RestBuild(x)
  <2>1. \E pc \in {"panic", "target", "done"} : Advance(x, pc, {})
    BY <1>5 DEF RestBuild
  <2> QED BY <1>5, <2>1, AdvanceType DEF RestBuild, Stage
<1>6. CASE RestTarget(x)
  <2>1. \E pc \in {"panic", "metrics", "done"} : Advance(x, pc, {engine.cfg})
    BY <1>6 DEF RestTarget
  <2> QED BY <1>6, <2>1, AdvanceType DEF RestTarget, Stage
<1>7. CASE RestMetrics(x)
  <2>1. \E pc \in {"panic", "done"} : Advance(x, pc, {engine.cfg, engine.metric})
    BY <1>7 DEF RestMetrics
  <2> QED BY <1>7, <2>1, AdvanceType DEF RestMetrics, Stage
<1> QED BY <1>1, <1>2, <1>3, <1>4, <1>5, <1>6, <1>7 DEF RestStep, Stage

LEMMA GraphType ==
    ASSUME TypeOK, NEW x \in Graph, GraphStep(x)
    PROVE  graph' \in [Graph -> GraphRequest] /\ UNCHANGED <<engineVars, rest>>
<1> USE EngineTypes
<1>1. CASE GraphLock(x)
  <2>1. graph[x] \in GraphRequest /\ engine.cfg \in Gen
    BY DEF TypeOK
  <2>2. [graph[x] EXCEPT !.pc = "locked", !.gen = engine.cfg] \in GraphRequest
    BY <2>1 DEF GraphRequest
  <2> QED BY <1>1, <2>2, Zenon DEF GraphLock, TypeOK
<1>2. CASE GraphUnlock(x)
  <2>1. body[graph[x].gen].auth \cap body[engine.auth].auth \in SUBSET MW
    OBVIOUS
  <2> QED BY <1>2, <2>1, ZenonT(30) DEF GraphUnlock, TypeOK, GraphRequest
<1>3. CASE GraphBadBody(x)
  BY <1>3 DEF GraphBadBody, TypeOK, GraphRequest, NoGraph
<1>4. CASE GraphExecute(x)
  BY <1>4 DEF GraphExecute, TypeOK, GraphRequest, NoGraph
<1> QED BY <1>1, <1>2, <1>3, <1>4 DEF GraphStep

LEMMA FailType ==
    ASSUME TypeOK, NEW r \in Reloader, Fail(r), UNCHANGED <<rest, graph>>
    PROVE  TypeOK'
<1>1. NoReload \in Reload
  BY EngineAssumption DEF NoReload, Reload, Gen
<1> QED BY <1>1 DEF Fail, TypeOK, Reload

LEMMA NextType == TypeOK /\ [Next]_vars => TypeOK'
<1> SUFFICES ASSUME TypeOK, [Next]_vars PROVE TypeOK'
  OBVIOUS
<1> USE EngineTypes
<1>1. ASSUME NEW b \in Config, Publish(b), UNCHANGED <<rest, graph>> PROVE TypeOK'
  <2>1. source.ver \in 0..MaxVersion /\ source.ver + 1 \in 0..MaxVersion
    BY <1>1, EngineAssumption DEF Publish, TypeOK
  <2> QED BY <1>1, <2>1 DEF Publish, TypeOK
<1>2. ASSUME NEW r \in Reloader, LoadOK(r), UNCHANGED <<rest, graph>> PROVE TypeOK'
  <2>1. loads + 1 \in Gen /\ source.ver \in 0..MaxVersion
    BY <1>2, EngineAssumption DEF LoadOK, TypeOK, Gen
  <2>2. [pc |-> "managers", gen |-> loads + 1, todo |-> source.body.auth, old |-> {}] \in Reload
    BY <2>1 DEF Reload
  <2> QED BY <1>2, <2>1, <2>2 DEF LoadOK, TypeOK
<1>3. ASSUME NEW r \in Reloader, NEW mw \in MW, StartManager(r, mw), UNCHANGED <<rest, graph>>
      PROVE  TypeOK'
  <2>1. <<reload[r].gen, mw>> \in Manager
    BY DEF Reload, Manager
  <2> QED BY <1>3, <2>1 DEF StartManager, TypeOK, Reload
<1>4. ASSUME NEW r \in Reloader, StartFails(r) \/ BuildGraphQL(r), UNCHANGED <<rest, graph>>
      PROVE  TypeOK'
  <2>1. \/ Fail(r)
        \/ /\ reload' = [reload EXCEPT ![r].pc = "lock"]
           /\ UNCHANGED <<source, loads, body, ver, engine, failed, running, stopped>>
    BY <1>4 DEF StartFails, BuildGraphQL
  <2> QED BY <1>4, <2>1, FailType DEF TypeOK, Reload
<1>5. ASSUME NEW r \in Reloader, ManagersStarted(r), UNCHANGED <<rest, graph>> PROVE TypeOK'
  BY <1>5 DEF ManagersStarted, TypeOK, Reload
<1>6. ASSUME NEW r \in Reloader, Swap(r), UNCHANGED <<rest, graph>> PROVE TypeOK'
  <2>1. NewFields(reload[r].gen) \in Published
    BY DEF NewFields, Published, Reload, TypeOK
  <2>2. Managers(engine.auth) \in SUBSET Manager
    BY DEF Managers, Manager
  <2> QED BY <1>6, <2>1, <2>2, ZenonT(30) DEF Swap, TypeOK, Reload
<1>7. ASSUME NEW r \in Reloader, NEW m \in Manager, StopOld(r, m), UNCHANGED <<rest, graph>>
      PROVE  TypeOK'
  BY <1>7 DEF StopOld, TypeOK, Reload
<1>8. ASSUME NEW r \in Reloader, ReloadReturns(r), UNCHANGED <<rest, graph>> PROVE TypeOK'
  <2>1. NoReload \in Reload
    BY EngineAssumption DEF NoReload, Reload, Gen
  <2> QED BY <1>8, <2>1 DEF ReloadReturns, TypeOK
<1>9. ASSUME NEW x \in Rest, RestStep(x) PROVE TypeOK'
  BY <1>9, RestType DEF TypeOK, engineVars
<1>10. ASSUME NEW x \in Graph, GraphStep(x) PROVE TypeOK'
  BY <1>10, GraphType DEF TypeOK, engineVars
<1>11. CASE UNCHANGED vars
  BY <1>11 DEF vars, engineVars, TypeOK
<1> QED
  BY <1>1, <1>2, <1>3, <1>4, <1>5, <1>6, <1>7, <1>8, <1>9, <1>10, <1>11 DEF Next, ReloadStep

(* Every field the engine publishes, every Reload and every request keeps  *)
(* its type, for any number of them.                                       *)
THEOREM TypeCorrect == Spec => []TypeOK
BY InitType, NextType, PTL DEF Spec

-----------------------------------------------------------------------------
(* The phases in which the generation of a Reload is not published. *)
Early == {"managers", "graphql", "lock"}

(* The published fields are of one generation; the Reloads in progress     *)
(* have generations of their own, not yet published, not failed.           *)
Generations ==
    /\ engine.cfg \in 0..loads /\ failed \subseteq 0..loads /\ engine.cfg \notin failed
    /\ engine.rm = engine.cfg /\ engine.auth = engine.cfg /\ engine.metric = engine.cfg
    /\ \A r \in Reloader : reload[r].pc # "idle" => reload[r].gen \in 0..loads
    /\ \A r \in Reloader :
        reload[r].pc \in Early => reload[r].gen # engine.cfg /\ reload[r].gen \notin failed
    /\ \A r, s \in Reloader :
        r # s /\ reload[r].pc # "idle" /\ reload[s].pc # "idle" => reload[r].gen # reload[s].gen

LEMMA InitGenerations == Init => Generations
<1> SUFFICES ASSUME Init PROVE Generations
  OBVIOUS
<1>1. /\ engine.cfg = 0 /\ engine.rm = 0 /\ engine.auth = 0 /\ engine.metric = 0
      /\ loads = 0 /\ failed = {}
  BY DEF Init
<1>2. \A r \in Reloader : reload[r].pc = "idle"
  BY DEF Init, NoReload
<1> QED BY <1>1, <1>2 DEF Generations, Early

(* A step of the requests leaves the engine alone. *)
LEMMA RequestsLeaveEngine ==
    ASSUME TypeOK, (\E x \in Rest : RestStep(x)) \/ (\E x \in Graph : GraphStep(x)) \/ UNCHANGED vars
    PROVE  UNCHANGED engineVars
BY RestType, GraphType DEF vars

LEMMA NextGenerations == TypeOK /\ Generations /\ [Next]_vars => Generations'
<1> SUFFICES ASSUME TypeOK, Generations, [Next]_vars PROVE Generations'
  OBVIOUS
<1>a. loads \in Nat /\ \A r \in Reloader : reload[r] \in Reload
  BY EngineAssumption DEF TypeOK, Gen
<1>1. ASSUME NEW b \in Config, Publish(b) PROVE Generations'
  BY <1>1 DEF Publish, Generations
<1>2. ASSUME NEW r \in Reloader, LoadOK(r) PROVE Generations'
  <2>1. /\ loads' = loads + 1 /\ UNCHANGED <<engine, failed>>
        /\ \A s \in Reloader : s # r => reload'[s] = reload[s]
        /\ reload'[r].pc = "managers" /\ reload'[r].gen = loads + 1
    BY <1>2 DEF LoadOK, TypeOK
  <2>2. \A n \in 0..loads : n \in 0..(loads + 1) /\ n # loads + 1
    BY <1>a
  <2> QED BY <2>1, <2>2, <1>a DEF Generations, Early
<1>3. ASSUME NEW r \in Reloader, NEW mw \in MW, StartManager(r, mw) PROVE Generations'
  BY <1>3, <1>a DEF StartManager, Generations, TypeOK, Reload
<1>4. ASSUME NEW r \in Reloader, Fail(r), reload[r].pc \in Early PROVE Generations'
  <2>1. /\ failed' = failed \cup {reload[r].gen} /\ UNCHANGED <<engine, loads>>
        /\ \A s \in Reloader : s # r => reload'[s] = reload[s]
        /\ reload'[r].pc = "idle"
    BY <1>4 DEF Fail, NoReload, TypeOK
  <2>2. reload[r].pc # "idle"
    BY <1>4 DEF Early
  <2> QED BY <1>4, <2>1, <2>2, ZenonT(30) DEF Generations, Early
<1>5. ASSUME NEW r \in Reloader, ManagersStarted(r) PROVE Generations'
  BY <1>5, <1>a DEF ManagersStarted, Generations, TypeOK, Reload, Early
<1>6. ASSUME NEW r \in Reloader, BuildGraphQL(r) PROVE Generations'
  <2>1. CASE Fail(r)
    BY <1>6, <2>1, <1>4 DEF BuildGraphQL, Early
  <2>2. CASE ~Fail(r)
    BY <1>6, <2>2, <1>a DEF BuildGraphQL, Generations, TypeOK, Reload, Early
  <2> QED BY <2>1, <2>2
<1>7. ASSUME NEW r \in Reloader, Swap(r) PROVE Generations'
  <2>1. /\ UNCHANGED <<loads, failed>>
        /\ engine'.cfg = reload[r].gen /\ engine'.rm = reload[r].gen
        /\ engine'.auth = reload[r].gen /\ engine'.metric = reload[r].gen
        /\ reload[r].pc = "lock" /\ reload'[r].pc = "stopping"
        /\ reload'[r].gen = reload[r].gen
        /\ \A s \in Reloader : s # r => reload'[s] = reload[s]
    BY <1>7, <1>a DEF Swap, NewFields, TypeOK, Reload
  <2> QED BY <2>1 DEF Generations, Early
<1>8. ASSUME NEW r \in Reloader, NEW m \in Manager, StopOld(r, m) PROVE Generations'
  BY <1>8, <1>a DEF StopOld, Generations, TypeOK, Reload
<1>9. ASSUME NEW r \in Reloader, ReloadReturns(r) PROVE Generations'
  <2>1. /\ UNCHANGED <<loads, failed, engine>> /\ reload'[r].pc = "idle"
        /\ \A s \in Reloader : s # r => reload'[s] = reload[s]
    BY <1>9 DEF ReloadReturns, NoReload, TypeOK
  <2> QED BY <2>1 DEF Generations, Early
<1>10. CASE UNCHANGED engineVars
  BY <1>10 DEF engineVars, Generations
<1> QED
  BY <1>1, <1>2, <1>3, <1>4, <1>5, <1>6, <1>7, <1>8, <1>9, <1>10, RequestsLeaveEngine
  DEF Next, ReloadStep, StartFails, Early

-----------------------------------------------------------------------------
(* Managers that a Reload may stop: of a generation that was published and *)
(* is not any more.                                                        *)
Retired == {m \in Manager :
    /\ m[1] \in 0..loads /\ m[1] # engine.cfg
    /\ \A r \in Reloader : reload[r].pc \in Early => m[1] # reload[r].gen}

StopOnce ==
    /\ stopped \subseteq Retired
    /\ \A r \in Reloader : reload[r].old \subseteq Retired \ stopped
    /\ \A r \in Reloader : reload[r].pc # "stopping" => reload[r].old = {}
    /\ \A r, s \in Reloader : r # s => reload[r].old \cap reload[s].old = {}

(* What a Reload has started by the time it swaps the fields. *)
Started ==
    /\ \A r \in Reloader : reload[r].pc \in Early =>
        /\ reload[r].todo \subseteq body[reload[r].gen].auth
        /\ Managers(reload[r].gen) \subseteq running \cup ({reload[r].gen} \X reload[r].todo)
    /\ \A r \in Reloader : reload[r].pc \in {"graphql", "lock"} => reload[r].todo = {}
    /\ \A r \in Reloader : reload[r].pc = "lock" => body[reload[r].gen].gql # "bad"

Serving ==
    LET n == engine.cfg IN
    /\ engine.gql = IF body[n].gql = "off" THEN Nil ELSE n
    /\ body[n].steps = "ok" => engine.resp = n
    /\ Managers(n) \subseteq running

(* Every refresh loop has an owner, or lost it to a failure. *)
Owned ==
    \A m \in running :
        /\ m[1] \in 0..loads /\ m[2] \in body[m[1]].auth
        /\ \/ m[1] = engine.cfg
           \/ m[1] \in failed
           \/ \E r \in Reloader :
                \/ reload[r].pc \in Early /\ m[1] = reload[r].gen
                \/ reload[r].pc = "stopping" /\ m \in reload[r].old

Kept == StopOnce /\ Started /\ Serving /\ Owned

LEMMA InitKept == Init => Kept
<1> SUFFICES ASSUME Init PROVE Kept
  OBVIOUS
<1>1. PICK b \in Config :
        /\ b.gql # "bad"
        /\ body = [n \in Gen |-> b]
        /\ engine = [cfg |-> 0, rm |-> 0, auth |-> 0, metric |-> 0,
                     gql |-> IF b.gql = "ok" THEN 0 ELSE Nil,
                     resp |-> IF b.steps = "ok" THEN 0 ELSE Nil]
        /\ running = {0} \X b.auth
  BY DEF Init
<1>2. 0 \in Gen /\ b.gql \in {"off", "ok", "bad"} /\ body[0] = b /\ loads = 0
  BY <1>1, EngineAssumption DEF Gen, Init
<1>3. /\ \A r \in Reloader : reload[r].pc = "idle" /\ reload[r].old = {}
      /\ stopped = {}
  BY DEF Init, NoReload
<1>4. StopOnce
  BY <1>3 DEF StopOnce
<1>5. Started
  BY <1>3 DEF Started, Early
<1>6. Serving
  BY <1>1, <1>2 DEF Serving, Managers
<1>7. Owned
  BY <1>1, <1>2 DEF Owned
<1> QED BY <1>4, <1>5, <1>6, <1>7 DEF Kept

(* The part of the step of one Reload that leaves the others alone. *)
LEMMA OthersKept ==
    ASSUME TypeOK, NEW r \in Reloader, NEW q, reload' = [reload EXCEPT ![r] = q]
    PROVE  reload'[r] = q /\ \A s \in Reloader : s # r => reload'[s] = reload[s]
BY DEF TypeOK

LEMMA LoadKept ==
    ASSUME TypeOK, Generations, Kept, NEW r \in Reloader, LoadOK(r)
    PROVE  Kept'
<1> DEFINE n == loads + 1
<1>0. /\ loads \in Nat /\ n \in Gen /\ body \in [Gen -> Config] /\ \A k \in 0..loads : k \in Gen /\ k # n
      /\ running \subseteq Manager
  BY EngineAssumption DEF TypeOK, LoadOK, Gen
<1>1. /\ loads' = n /\ UNCHANGED <<engine, failed, running, stopped>>
      /\ body'[n] = source.body
      /\ \A k \in 0..loads : k \in 0..loads' /\ body'[k] = body[k] /\ k # n
  BY <1>0 DEF LoadOK
<1>2. /\ reload'[r] = [pc |-> "managers", gen |-> n, todo |-> source.body.auth, old |-> {}]
      /\ \A s \in Reloader : s # r => reload'[s] = reload[s]
  BY DEF LoadOK, TypeOK
<1>3. engine.cfg \in 0..loads /\ reload[r].pc = "idle"
      /\ \A s \in Reloader : reload[s].pc # "idle" => reload[s].gen \in 0..loads
  BY DEF Generations, LoadOK
<1> HIDE DEF n
<1>4. Retired \subseteq Retired'
  BY <1>1, <1>2 DEF Retired, Early, Manager
<1>5. StopOnce'
  BY <1>1, <1>2, <1>4 DEF Kept, StopOnce
<1>6. Started'
  <2>1. ASSUME NEW s \in Reloader, s # r, reload'[s].pc # "idle"
        PROVE  body'[reload'[s].gen] = body[reload[s].gen] /\ reload'[s] = reload[s]
    BY <1>1, <1>2, <1>3, <2>1
  <2>2. /\ reload'[r].todo = body'[reload'[r].gen].auth
        /\ reload'[r].pc = "managers"
    BY <1>1, <1>2
  <2> QED BY <1>1, <2>1, <2>2 DEF Kept, Started, Early, Managers
<1>7. Serving'
  BY <1>1, <1>3 DEF Kept, Serving, Managers
<1>8. Owned'
  <2> SUFFICES ASSUME NEW m \in running
               PROVE  /\ m[1] \in 0..loads' /\ m[2] \in body'[m[1]].auth
                      /\ \/ m[1] = engine.cfg
                         \/ m[1] \in failed
                         \/ \E s \in Reloader :
                              \/ reload'[s].pc \in Early /\ m[1] = reload'[s].gen
                              \/ reload'[s].pc = "stopping" /\ m \in reload'[s].old
    BY <1>1 DEF Owned
  <2>1. ASSUME NEW s \in Reloader, reload[s].pc \in Early \/ reload[s].pc = "stopping"
        PROVE  reload'[s] = reload[s]
    BY <1>2, <1>3, <2>1 DEF Early
  <2> QED BY <1>1, <2>1 DEF Kept, Owned
<1> QED BY <1>5, <1>6, <1>7, <1>8 DEF Kept

LEMMA StartKept ==
    ASSUME TypeOK, Generations, Kept, NEW r \in Reloader, NEW mw \in MW, StartManager(r, mw)
    PROVE  Kept'
<1>0. loads \in Nat /\ reload[r] \in Reload /\ reload[r].pc = "managers" /\ mw \in reload[r].todo
  BY EngineAssumption DEF TypeOK, StartManager, Gen
<1> DEFINE g == reload[r].gen
<1>1. /\ UNCHANGED <<loads, body, engine, failed, stopped>>
      /\ running' = running \cup {<<g, mw>>}
  BY DEF StartManager
<1>2. /\ reload'[r] = [reload[r] EXCEPT !.todo = @ \ {mw}]
      /\ \A s \in Reloader : s # r => reload'[s] = reload[s]
  BY DEF StartManager, TypeOK
<1>3. /\ reload'[r].pc = "managers" /\ reload'[r].gen = g /\ reload'[r].old = reload[r].old
      /\ reload'[r].todo = reload[r].todo \ {mw}
  BY <1>0, <1>2 DEF Reload
<1>4. g \in 0..loads /\ mw \in body[g].auth
  BY <1>0 DEF Generations, Kept, Started, Early
<1> HIDE DEF g
<1>5. \A s \in Reloader : reload'[s].pc = reload[s].pc /\ reload'[s].gen = reload[s].gen
                          /\ reload'[s].old = reload[s].old
  BY <1>0, <1>2, <1>3 DEF g
<1>6. StopOnce'
  <2>1. Retired' = Retired
    BY <1>1, <1>5 DEF Retired
  <2> QED BY <1>1, <1>5, <2>1 DEF Kept, StopOnce
<1>7. Started'
  <2>1. Managers(g) \subseteq running' \cup ({g} \X reload'[r].todo)
    <3>1. Managers(g) \subseteq running \cup ({g} \X reload[r].todo)
      BY <1>0 DEF Kept, Started, Early, g
    <3> QED BY <3>1, <1>1, <1>3
  <2>2. /\ \A s \in Reloader : s # r => reload'[s].todo = reload[s].todo
        /\ reload'[r].todo \subseteq body[g].auth
    BY <1>0, <1>2, <1>3 DEF Kept, Started, Early, g
  <2> QED BY <1>0, <1>1, <1>3, <1>5, <2>1, <2>2 DEF Kept, Started, Managers
<1>8. Serving'
  BY <1>1 DEF Kept, Serving, Managers
<1>9. Owned'
  <2>1. reload'[r].pc \in Early /\ g = reload'[r].gen
    BY <1>3 DEF Early
  <2> QED BY <1>1, <1>4, <1>5, <2>1 DEF Kept, Owned
<1> QED BY <1>6, <1>7, <1>8, <1>9 DEF Kept

LEMMA FailKept ==
    ASSUME TypeOK, Generations, Kept, NEW r \in Reloader, reload[r].pc \in Early, Fail(r)
    PROVE  Kept'
<1>1. /\ UNCHANGED <<loads, body, engine, running, stopped>>
      /\ failed' = failed \cup {reload[r].gen}
  BY DEF Fail
<1>2. /\ reload'[r].pc = "idle" /\ reload'[r].old = {}
      /\ \A s \in Reloader : s # r => reload'[s] = reload[s]
  BY DEF Fail, TypeOK, NoReload
<1>3. StopOnce'
  <2>1. Retired \subseteq Retired'
    BY <1>1, <1>2 DEF Retired, Early
  <2> QED BY <1>1, <1>2, <2>1 DEF Kept, StopOnce
<1>4. Started'
  BY <1>1, <1>2 DEF Kept, Started, Early, Managers
<1>5. Serving'
  BY <1>1 DEF Kept, Serving, Managers
<1>6. Owned'
  BY <1>1, <1>2 DEF Kept, Owned, Early
<1> QED BY <1>3, <1>4, <1>5, <1>6 DEF Kept

(* ManagersStarted, and BuildGraphQL when it succeeds. *)
LEMMA PhaseKept ==
    ASSUME TypeOK, Kept, NEW r \in Reloader, NEW pc \in {"graphql", "lock"},
           reload[r].pc \in Early, reload[r].todo = {},
           pc = "lock" => body[reload[r].gen].gql # "bad",
           reload' = [reload EXCEPT ![r].pc = pc],
           UNCHANGED <<loads, body, engine, failed, running, stopped>>
    PROVE  Kept'
<1>1. reload[r] \in Reload
  BY DEF TypeOK
<1>2. /\ reload'[r].pc = pc
      /\ \A s \in Reloader : s # r => reload'[s] = reload[s]
      /\ \A s \in Reloader : /\ reload'[s].gen = reload[s].gen /\ reload'[s].old = reload[s].old
                             /\ reload'[s].todo = reload[s].todo
  BY <1>1 DEF TypeOK, Reload
<1>3. \A s \in Reloader : /\ reload'[s].pc \in Early <=> reload[s].pc \in Early
                          /\ reload'[s].pc = "stopping" <=> reload[s].pc = "stopping"
  BY <1>2 DEF Early
<1>4. StopOnce'
  <2>1. Retired' = Retired
    BY <1>2, <1>3 DEF Retired
  <2> QED BY <1>2, <1>3, <2>1 DEF Kept, StopOnce
<1>5. Started'
  BY <1>2, <1>3 DEF Kept, Started, Managers
<1>6. Serving'
  BY DEF Kept, Serving, Managers
<1>7. Owned'
  BY <1>2, <1>3 DEF Kept, Owned
<1> QED BY <1>4, <1>5, <1>6, <1>7 DEF Kept

LEMMA SwapKept ==
    ASSUME TypeOK, Generations, Kept, NEW r \in Reloader, Swap(r)
    PROVE  Kept'
<1> DEFINE g == reload[r].gen
           c == engine.cfg
<1>1. /\ UNCHANGED <<loads, body, failed, running, stopped>>
      /\ engine' = NewFields(g) /\ reload[r].pc = "lock" /\ reload[r].todo = {}
      /\ body[g].gql \in {"off", "ok"} /\ reload[r].pc \in Early
  <2>1. body[g] \in Config
    BY DEF TypeOK, Reload
  <2> QED BY <2>1, EngineAssumption DEF Swap, Kept, Started, Early
<1>2. reload[r] \in Reload
  BY DEF TypeOK
<1>3. /\ reload'[r].pc = "stopping" /\ reload'[r].gen = g /\ reload'[r].old = Managers(c)
      /\ reload'[r].todo = {}
      /\ \A s \in Reloader : s # r => reload'[s] = reload[s]
  BY <1>1, <1>2 DEF Swap, TypeOK, Reload, Generations
<1>4. /\ c \in 0..loads /\ g \in 0..loads /\ g # c /\ engine'.cfg = g
      /\ \A s \in Reloader : reload[s].pc \in Early => reload[s].gen # c
      /\ \A s \in Reloader : s # r /\ reload[s].pc \in Early => reload[s].gen # g
  BY <1>1 DEF Generations, NewFields, Early
<1>5. Managers(c) \subseteq Manager /\ \A m \in Managers(c) : m[1] = c /\ m[2] \in body[c].auth
  <2>1. c \in Gen /\ body[c].auth \in SUBSET MW
    BY EngineTypes
  <2> QED BY <2>1 DEF Managers, Manager
<1> HIDE DEF g, c
<1>6. StopOnce'
  <2>1. Retired \subseteq Retired'
    BY <1>1, <1>3, <1>4 DEF Retired, Early, g
  <2>2. Managers(c) \subseteq Retired' /\ Managers(c) \cap Retired = {}
    BY <1>1, <1>3, <1>4, <1>5 DEF Retired, Early, c
  <2> QED BY <1>1, <1>3, <2>1, <2>2 DEF Kept, StopOnce
<1>7. Started'
  BY <1>1, <1>3 DEF Kept, Started, Managers, Early
<1>8. Serving'
  <2>1. Managers(g) \subseteq running
    BY <1>1 DEF Kept, Started, g
  <2>2. engine'.gql = (IF body[g].gql = "off" THEN Nil ELSE g) /\ (body[g].steps = "ok" => engine'.resp = g)
    BY <1>1 DEF NewFields
  <2> QED BY <1>1, <1>4, <2>1, <2>2 DEF Serving, Managers
<1>9. Owned'
  <2> SUFFICES ASSUME NEW m \in running
               PROVE  /\ m[1] \in 0..loads /\ m[2] \in body[m[1]].auth
                      /\ \/ m[1] = engine'.cfg
                         \/ m[1] \in failed
                         \/ \E s \in Reloader :
                              \/ reload'[s].pc \in Early /\ m[1] = reload'[s].gen
                              \/ reload'[s].pc = "stopping" /\ m \in reload'[s].old
    BY <1>1 DEF Owned
  <2>1. m[1] \in 0..loads /\ m[2] \in body[m[1]].auth
    BY DEF Kept, Owned
  <2>2. CASE m[1] = c
    <3>1. m \in Managers(c)
      BY <2>1, <2>2 DEF Managers, TypeOK, Manager
    <3> QED BY <1>3, <2>1, <3>1
  <2>3. CASE m[1] \in failed
    BY <2>1, <2>3
  <2>4. ASSUME NEW s \in Reloader, reload[s].pc \in Early, m[1] = reload[s].gen
        PROVE  \/ m[1] = engine'.cfg
               \/ \E q \in Reloader : reload'[q].pc \in Early /\ m[1] = reload'[q].gen
    BY <1>3, <1>4, <2>4 DEF g
  <2>5. ASSUME NEW s \in Reloader, reload[s].pc = "stopping", m \in reload[s].old
        PROVE  \E q \in Reloader : reload'[q].pc = "stopping" /\ m \in reload'[q].old
    BY <1>1, <1>3, <2>5
  <2> QED BY <2>1, <2>2, <2>3, <2>4, <2>5 DEF Kept, Owned, c
<1> QED BY <1>6, <1>7, <1>8, <1>9 DEF Kept

LEMMA StopKept ==
    ASSUME TypeOK, Generations, Kept, NEW r \in Reloader, NEW m \in Manager, StopOld(r, m)
    PROVE  Kept'
<1>1. /\ UNCHANGED <<loads, body, engine, failed>>
      /\ running' = running \ {m} /\ stopped' = stopped \cup {m}
      /\ reload[r].pc = "stopping" /\ m \in reload[r].old
  BY DEF StopOld
<1>2. reload[r] \in Reload
  BY DEF TypeOK
<1>3. /\ reload'[r].old = reload[r].old \ {m}
      /\ \A s \in Reloader : s # r => reload'[s] = reload[s]
      /\ \A s \in Reloader : /\ reload'[s].pc = reload[s].pc /\ reload'[s].gen = reload[s].gen
                             /\ reload'[s].todo = reload[s].todo
  BY <1>2 DEF StopOld, TypeOK, Reload
<1>4. m \in Retired
  BY <1>1 DEF Kept, StopOnce
<1>5. StopOnce'
  <2>1. Retired' = Retired
    BY <1>1, <1>3 DEF Retired
  <2> QED BY <1>1, <1>3, <1>4, <2>1 DEF Kept, StopOnce
<1>6. Started'
  <2>1. ASSUME NEW s \in Reloader, reload[s].pc \in Early
        PROVE  m \notin Managers(reload[s].gen)
    BY <1>4, <2>1 DEF Retired, Managers
  <2> QED BY <1>1, <1>3, <2>1 DEF Kept, Started, Managers
<1>7. Serving'
  <2>1. m \notin Managers(engine.cfg)
    BY <1>4 DEF Retired, Managers
  <2> QED BY <1>1, <2>1 DEF Kept, Serving, Managers
<1>8. Owned'
  BY <1>1, <1>3 DEF Kept, Owned
<1> QED BY <1>5, <1>6, <1>7, <1>8 DEF Kept

LEMMA ReturnKept ==
    ASSUME TypeOK, Generations, Kept, NEW r \in Reloader, ReloadReturns(r)
    PROVE  Kept'
<1>1. /\ UNCHANGED <<loads, body, engine, failed, running, stopped>>
      /\ reload[r].pc = "stopping" /\ reload[r].old = {}
      /\ reload'[r].pc = "idle" /\ reload'[r].old = {}
      /\ \A s \in Reloader : s # r => reload'[s] = reload[s]
  BY DEF ReloadReturns, NoReload, TypeOK
<1>2. StopOnce'
  <2>1. Retired \subseteq Retired'
    BY <1>1 DEF Retired, Early
  <2> QED BY <1>1, <2>1 DEF Kept, StopOnce
<1>3. Started'
  BY <1>1 DEF Kept, Started, Managers, Early
<1>4. Serving'
  BY <1>1 DEF Kept, Serving, Managers
<1>5. Owned'
  BY <1>1 DEF Kept, Owned, Early
<1> QED BY <1>2, <1>3, <1>4, <1>5 DEF Kept

LEMMA NextKept == TypeOK /\ Generations /\ Kept /\ [Next]_vars => Kept'
<1> SUFFICES ASSUME TypeOK, Generations, Kept, [Next]_vars PROVE Kept'
  OBVIOUS
<1>1. CASE UNCHANGED <<loads, body, engine, reload, failed, running, stopped>>
  BY <1>1 DEF Kept, StopOnce, Started, Serving, Owned, Retired, Managers
<1>2. ASSUME NEW r \in Reloader, StartFails(r) PROVE Kept'
  BY <1>2, FailKept DEF StartFails, Early
<1>3. ASSUME NEW r \in Reloader, ManagersStarted(r) PROVE Kept'
  BY <1>3, PhaseKept DEF ManagersStarted, Early
<1>4. ASSUME NEW r \in Reloader, BuildGraphQL(r) PROVE Kept'
  <2>1. reload[r].pc \in Early /\ reload[r].todo = {}
    BY <1>4 DEF BuildGraphQL, Early, Kept, Started
  <2> QED BY <1>4, <2>1, FailKept, PhaseKept DEF BuildGraphQL
<1>5. ASSUME NEW b \in Config, Publish(b) PROVE Kept'
  BY <1>1, <1>5 DEF Publish
<1>6. CASE (\E x \in Rest : RestStep(x)) \/ (\E x \in Graph : GraphStep(x)) \/ UNCHANGED vars
  BY <1>1, <1>6, RequestsLeaveEngine DEF engineVars
<1> QED
  BY <1>2, <1>3, <1>4, <1>5, <1>6, LoadKept, StartKept, SwapKept, StopKept, ReturnKept
  DEF Next, ReloadStep

-----------------------------------------------------------------------------
(* The read lock keeps the generation that its holder walks. *)
Reading ==
    \A x \in Graph :
        /\ graph[x].pc \in {"locked", "decode"} => graph[x].gen \in 0..loads
        /\ graph[x].pc = "locked" => graph[x].gen = engine.cfg
        /\ graph[x].pc = "decode" => graph[x].tokens = body[graph[x].gen].auth

LEMMA InitReading == Init => Reading
BY DEF Init, Reading, NoGraph

(* What a step of a Reload or of the operator can do to the requests. *)
LEMMA EngineSteps ==
    ASSUME TypeOK, Generations, [Next]_vars,
           ~(\E x \in Rest : RestStep(x)), ~(\E x \in Graph : GraphStep(x))
    PROVE  /\ UNCHANGED <<rest, graph>>
           /\ \A n \in 0..loads : n \in 0..loads' /\ body'[n] = body[n]
           /\ engine' # engine => \A x \in Graph : graph[x].pc # "locked"
           /\ engine.resp # Nil => engine'.resp # Nil
<1>0. loads \in Nat /\ \A n \in 0..loads : n \in Gen
  BY EngineAssumption DEF TypeOK, Gen
<1>1. ASSUME NEW r \in Reloader, LoadOK(r)
      PROVE  engine' = engine /\ \A n \in 0..loads : n \in 0..loads' /\ body'[n] = body[n]
  <2>1. \A n \in 0..loads : n \in 0..(loads + 1) /\ n # loads + 1
    BY <1>0
  <2> QED BY <1>0, <1>1, <2>1 DEF LoadOK, TypeOK
<1>2. ASSUME NEW r \in Reloader, Swap(r)
      PROVE  /\ UNCHANGED <<loads, body>>
             /\ \A x \in Graph : graph[x].pc # "locked"
             /\ engine.resp # Nil => engine'.resp # Nil
  <2>1. reload[r].gen \in Nat
    BY EngineAssumption DEF TypeOK, Reload, Gen
  <2> QED BY <1>2, <2>1, EngineAssumption DEF Swap, Readers, NewFields
<1>3. ASSUME NEW r \in Reloader, ReloadStep(r), ~Swap(r)
      PROVE  UNCHANGED <<engine, loads, body>>
  BY <1>3 DEF ReloadStep, StartManager, StartFails, Fail, ManagersStarted, BuildGraphQL,
              StopOld, ReloadReturns
<1>4. ASSUME NEW b \in Config, Publish(b) PROVE UNCHANGED <<engine, loads, body>>
  BY <1>4 DEF Publish
<1>5. CASE UNCHANGED vars
  BY <1>5 DEF vars, engineVars
<1> QED BY <1>1, <1>2, <1>3, <1>4, <1>5 DEF Next

LEMMA NextReading == TypeOK /\ Generations /\ Reading /\ [Next]_vars => Reading'
<1> SUFFICES ASSUME TypeOK, Generations, Reading, [Next]_vars PROVE Reading'
  OBVIOUS
<1>1. ASSUME NEW x \in Graph, GraphStep(x) PROVE Reading'
  <2>1. UNCHANGED <<loads, body, engine>>
    BY <1>1, GraphType DEF engineVars
  <2>2. graph[x] \in GraphRequest
    BY DEF TypeOK
  <2>3. CASE GraphLock(x)
    BY <2>1, <2>2, <2>3 DEF GraphLock, Reading, TypeOK, GraphRequest, Generations
  <2>4. CASE GraphUnlock(x)
    <3>1. /\ graph'[x].pc = "decode" /\ graph'[x].gen = graph[x].gen
          /\ graph'[x].tokens = body[graph[x].gen].auth \cap body[engine.auth].auth
          /\ graph[x].gen = engine.cfg /\ engine.auth = engine.cfg
          /\ \A y \in Graph : y # x => graph'[y] = graph[y]
      BY <2>2, <2>4 DEF GraphUnlock, TypeOK, GraphRequest, Reading, Generations
    <3>2. graph'[x].tokens = body[graph'[x].gen].auth
      BY <3>1
    <3>3. graph'[x].gen \in 0..loads
      BY <2>4, <3>1 DEF GraphUnlock, Reading
    <3> QED BY <2>1, <3>1, <3>2, <3>3 DEF Reading
  <2>5. CASE GraphBadBody(x)
    BY <2>1, <2>5 DEF GraphBadBody, Reading, TypeOK, NoGraph
  <2>6. CASE GraphExecute(x)
    BY <2>1, <2>6 DEF GraphExecute, Reading, TypeOK, NoGraph
  <2> QED BY <1>1, <2>3, <2>4, <2>5, <2>6 DEF GraphStep
<1>2. ASSUME NEW x \in Rest, RestStep(x) PROVE Reading'
  BY <1>2, RestType DEF engineVars, Reading
<1>3. CASE ~(\E x \in Rest : RestStep(x)) /\ ~(\E x \in Graph : GraphStep(x))
  <2>1. /\ UNCHANGED <<rest, graph>>
        /\ \A n \in 0..loads : n \in 0..loads' /\ body'[n] = body[n]
        /\ engine' # engine => \A x \in Graph : graph[x].pc # "locked"
    BY <1>3, EngineSteps
  <2> QED BY <2>1 DEF Reading
<1> QED BY <1>1, <1>2, <1>3

-----------------------------------------------------------------------------
Live == {"middlewares", "input", "processing", "output", "build", "target", "metrics"}
Served == {"processing", "output", "build", "target", "metrics"}

(* A REST request, by what it read so far. *)
Steady(q) ==
    /\ q.saw \subseteq 0..loads
    /\ q.pc \in Live \cup {"panic"} => q.saw # {}
    /\ q.pc \in {"idle", "done", "middlewares"} => q.tokens = {}
    /\ q.todo # {} => q.pc = "input"
    /\ \A n \in q.saw : body[n].steps = "ok" => engine.resp # Nil
    /\ \A n \in Gen : q.saw = {n} =>
        /\ q.pc \in Live => body[n].steps # "none"
        /\ q.pc = "input" => q.todo \subseteq body[n].auth /\ q.tokens = body[n].auth \ q.todo
        /\ q.pc \in Served => q.tokens = body[n].auth
        /\ q.pc = "panic" => body[n].steps = "bad"

Quiet == \A x \in Rest : Steady(rest[x])

LEMMA NoRequestSteady == Steady(NoRequest) /\ Steady([NoRequest EXCEPT !.pc = "done"])
BY DEF NoRequest, Steady, Live, Served

LEMMA InitQuiet == Init => Quiet
BY NoRequestSteady DEF Init, Quiet

(* Reads of the fields of the published generation. *)
LEMMA ReadEngine ==
    ASSUME TypeOK, Generations, Kept
    PROVE  /\ engine.cfg \in Gen /\ engine.cfg \in 0..loads
           /\ engine.rm = engine.cfg /\ engine.auth = engine.cfg /\ engine.metric = engine.cfg
           /\ body[engine.cfg].steps = "ok" => engine.resp # Nil
           /\ \A n \in Gen : body[n].steps \in {"none", "ok", "bad"}
<1>1. engine.cfg \in Gen /\ engine.cfg # Nil
  BY EngineAssumption DEF TypeOK, Published, Gen
<1>2. \A n \in Gen : body[n].steps \in {"none", "ok", "bad"}
  BY EngineAssumption DEF TypeOK
<1> QED BY <1>1, <1>2 DEF Generations, Kept, Serving

LEMMA AdvanceSteady ==
    ASSUME TypeOK, Generations, Kept, Quiet, NEW x \in Rest, NEW pc \in Served \cup {"panic", "done"},
           NEW saw \in SUBSET {engine.cfg}, Advance(x, pc, saw), UNCHANGED engineVars,
           rest[x].pc \in Served \cup {"input"}, rest[x].todo = {},
           pc = "panic" => \/ Steps = "none" /\ saw # {}
                           \/ engine.resp = Nil
    PROVE  Quiet'
<1> DEFINE S == rest[x].saw \cup saw
           R == [rest[x] EXCEPT !.pc = pc, !.saw = S]
<1>1. rest[x] \in RestRequest /\ Steady(rest[x])
  BY DEF TypeOK, Quiet
<1>2. UNCHANGED <<loads, body, engine>> /\ \A q : Steady(q)' <=> Steady(q)
  BY DEF engineVars, Steady
<1>3. R.pc = pc /\ R.saw = S /\ R.todo = {} /\ R.tokens = rest[x].tokens
  BY <1>1 DEF RestRequest
<1>4. rest'[x] = (IF pc = "done" THEN [NoRequest EXCEPT !.pc = "done"] ELSE R)
      /\ \A y \in Rest : y # x => rest'[y] = rest[y]
  BY DEF Advance, TypeOK
<1>5. S \subseteq 0..loads /\ rest[x].saw # {} /\ S # {}
      /\ \A n \in S : body[n].steps = "ok" => engine.resp # Nil
  BY <1>1, ReadEngine DEF Steady, Live, Served
<1>6. ASSUME NEW n \in Gen, S = {n}
      PROVE  /\ body[n].steps # "none" /\ rest[x].tokens = body[n].auth
             /\ pc = "panic" => body[n].steps = "bad"
  <2>1. rest[x].saw = {n} /\ (saw # {} => n = engine.cfg)
    BY <1>5, <1>6
  <2>2. body[n].steps # "none" /\ rest[x].tokens = body[n].auth
    BY <1>1, <2>1 DEF Steady, Live, Served
  <2>3. body[n].steps = "ok" => engine.resp # Nil
    BY <1>1, <2>1 DEF Steady
  <2> QED BY <2>1, <2>2, <2>3, ReadEngine DEF Steps
<1> HIDE DEF R, S
<1>7. pc # "done" => Steady(R)
  BY <1>3, <1>5, <1>6 DEF Steady, Live, Served
<1>8. Steady(rest'[x])
  BY <1>4, <1>7, NoRequestSteady
<1> QED BY <1>2, <1>4, <1>8 DEF Quiet

LEMMA NextQuiet == TypeOK /\ Generations /\ Kept /\ Quiet /\ [Next]_vars => Quiet'
<1> SUFFICES ASSUME TypeOK, Generations, Kept, Quiet, [Next]_vars PROVE Quiet'
  OBVIOUS
<1>1. ASSUME NEW x \in Rest, RestStep(x) PROVE Quiet'
  <2>1. UNCHANGED engineVars
    BY <1>1, RestType
  <2>2. UNCHANGED <<loads, body, engine>> /\ \A q : Steady(q)' <=> Steady(q)
    BY <2>1 DEF engineVars, Steady
  <2>3. rest[x] \in RestRequest /\ Steady(rest[x])
    BY DEF TypeOK, Quiet
  <2>4. CASE RestBegin(x)
    <3>1. PICK pc \in IF Steps = "none" THEN {"done"} ELSE {"middlewares", "done"} :
            Advance(x, pc, {engine.cfg})
      BY <2>4 DEF RestBegin
    <3>2. /\ rest'[x] = IF pc = "done" THEN [NoRequest EXCEPT !.pc = "done"]
                        ELSE [rest[x] EXCEPT !.pc = pc, !.saw = rest[x].saw \cup {engine.cfg}]
          /\ \A y \in Rest : y # x => rest'[y] = rest[y]
      BY <3>1 DEF Advance, TypeOK
    <3> DEFINE R == [rest[x] EXCEPT !.pc = pc, !.saw = rest[x].saw \cup {engine.cfg}]
    <3>3. R.pc = pc /\ R.saw = rest[x].saw \cup {engine.cfg} /\ R.todo = {} /\ R.tokens = {}
      BY <2>3, <2>4 DEF RestRequest, RestBegin, Steady
    <3>4. R.saw \subseteq 0..loads /\ R.saw # {} /\ engine.cfg \in R.saw
          /\ \A n \in R.saw : body[n].steps = "ok" => engine.resp # Nil
      BY <2>3, <3>3, ReadEngine DEF Steady
    <3>5. pc # "done" => pc = "middlewares" /\ body[engine.cfg].steps # "none"
      BY <3>1 DEF Steps
    <3> HIDE DEF R
    <3>6. pc # "done" => Steady(R)
      BY <3>3, <3>4, <3>5 DEF Steady, Live, Served
    <3>7. Steady(rest'[x])
      BY <3>2, <3>6, NoRequestSteady DEF R
    <3> QED BY <2>2, <3>2, <3>7 DEF Quiet
  <2>5. CASE RestMiddlewares(x)
    <3> DEFINE R == [rest[x] EXCEPT !.pc = "input", !.saw = @ \cup {engine.cfg},
                                    !.todo = body[engine.cfg].auth]
    <3>1. /\ \/ rest'[x] = [NoRequest EXCEPT !.pc = "done"]
             \/ rest'[x] = R
          /\ \A y \in Rest : y # x => rest'[y] = rest[y]
      BY <2>5 DEF RestMiddlewares, Advance, TypeOK
    <3>2. /\ R.pc = "input" /\ R.saw = rest[x].saw \cup {engine.cfg}
          /\ R.todo = body[engine.cfg].auth /\ R.tokens = {}
      BY <2>3, <2>5 DEF RestRequest, RestMiddlewares, Steady
    <3>3. R.saw \subseteq 0..loads /\ engine.cfg \in R.saw
          /\ \A n \in R.saw : body[n].steps = "ok" => engine.resp # Nil
      BY <2>3, <3>2, ReadEngine DEF Steady
    <3>4. ASSUME NEW n \in Gen, R.saw = {n}
          PROVE  n = engine.cfg /\ body[n].steps # "none"
      <4>1. rest[x].saw = {n} /\ n = engine.cfg
        BY <2>3, <2>5, <3>2, <3>4 DEF Steady, Live, RestMiddlewares
      <4> QED BY <2>3, <2>5, <4>1 DEF Steady, Live, RestMiddlewares
    <3> HIDE DEF R
    <3>5. Steady(R)
      BY <3>2, <3>3, <3>4 DEF Steady, Live, Served
    <3> QED BY <2>2, <3>1, <3>5, NoRequestSteady DEF Quiet
  <2>6. ASSUME NEW mw \in MW, RestToken(x, mw) PROVE Quiet'
    <3> DEFINE R == [rest[x] EXCEPT !.todo = @ \ {mw}, !.saw = @ \cup {engine.auth},
                       !.tokens = IF mw \in body[engine.auth].auth THEN @ \cup {mw} ELSE @]
    <3>1. rest'[x] = R /\ \A y \in Rest : y # x => rest'[y] = rest[y]
      BY <2>6 DEF RestToken, TypeOK
    <3>2. /\ rest[x].pc = "input" /\ R.pc = "input" /\ R.saw = rest[x].saw \cup {engine.cfg}
          /\ R.todo = rest[x].todo \ {mw} /\ mw \in rest[x].todo
          /\ R.tokens = IF mw \in body[engine.cfg].auth THEN rest[x].tokens \cup {mw}
                        ELSE rest[x].tokens
      BY <2>3, <2>6, ReadEngine DEF RestRequest, RestToken, Steady
    <3>3. R.saw \subseteq 0..loads /\ engine.cfg \in R.saw
          /\ \A n \in R.saw : body[n].steps = "ok" => engine.resp # Nil
      BY <2>3, <3>2, ReadEngine DEF Steady
    <3>4. ASSUME NEW n \in Gen, R.saw = {n}
          PROVE  /\ body[n].steps # "none"
                 /\ R.todo \subseteq body[n].auth /\ R.tokens = body[n].auth \ R.todo
      <4>1. rest[x].saw = {n} /\ n = engine.cfg
        BY <2>3, <3>2, <3>4 DEF Steady, Live
      <4>2. /\ body[n].steps # "none" /\ rest[x].todo \subseteq body[n].auth
            /\ rest[x].tokens = body[n].auth \ rest[x].todo
        BY <2>3, <3>2, <4>1 DEF Steady, Live
      <4> QED BY <3>2, <4>1, <4>2
    <3> HIDE DEF R
    <3>5. Steady(R)
      BY <3>2, <3>3, <3>4 DEF Steady, Live, Served
    <3> QED BY <2>2, <3>1, <3>5 DEF Quiet
  <2>7. ASSUME NEW stage \in {"input", "processing", "output"},
               NEW next \in {"processing", "output", "build"}, RestRules(x, stage, next)
        PROVE  Quiet'
    <3>1. /\ rest[x].pc \in Served \cup {"input"} /\ rest[x].todo = {}
          /\ {engine.cfg, engine.rm} \in SUBSET {engine.cfg} /\ {engine.cfg} \in SUBSET {engine.cfg}
      BY <2>7, ReadEngine DEF RestRules, Served
    <3>2. \/ Steps = "none" /\ Advance(x, "panic", {engine.cfg})
          \/ \E pc \in {next, "done"} : Advance(x, pc, {engine.cfg, engine.rm})
      BY <2>7 DEF RestRules
    <3> QED BY <2>1, <3>1, <3>2, AdvanceSteady DEF Served
  <2>8. CASE RestBuild(x) \/ RestTarget(x) \/ RestMetrics(x)
    <3>1. rest[x].pc \in Served /\ rest[x].todo = {} /\ engine.metric = engine.cfg
          /\ {} \in SUBSET {engine.cfg} /\ {engine.cfg} \in SUBSET {engine.cfg}
      BY <2>3, <2>8, ReadEngine DEF RestBuild, RestTarget, RestMetrics, Served, Steady
    <3>2. CASE RestBuild(x)
      BY <2>1, <3>1, <3>2, AdvanceSteady DEF RestBuild, Served
    <3>3. CASE RestTarget(x)
      BY <2>1, <3>1, <3>3, AdvanceSteady DEF RestTarget, Served
    <3>4. CASE RestMetrics(x)
      BY <2>1, <3>1, <3>4, AdvanceSteady DEF RestMetrics, Served
    <3> QED BY <2>8, <3>2, <3>3, <3>4
  <2> QED BY <1>1, <2>4, <2>5, <2>6, <2>7, <2>8 DEF RestStep
<1>2. ASSUME NEW x \in Graph, GraphStep(x) PROVE Quiet'
  BY <1>2, GraphType DEF engineVars, Quiet, Steady
<1>3. CASE ~(\E x \in Rest : RestStep(x)) /\ ~(\E x \in Graph : GraphStep(x))
  <2>1. /\ rest' = rest
        /\ \A n \in 0..loads : n \in 0..loads' /\ body'[n] = body[n]
        /\ engine.resp # Nil => engine'.resp # Nil
    BY <1>3, EngineSteps
  <2>2. ASSUME NEW x \in Rest PROVE Steady(rest[x])'
    <3>1. Steady(rest[x]) /\ rest'[x] = rest[x]
      BY <2>1 DEF Quiet
    <3>2. \A n \in rest[x].saw : n \in 0..loads /\ n \in 0..loads' /\ body'[n] = body[n]
      BY <2>1, <3>1 DEF Steady
    <3> QED BY <2>1, <3>1, <3>2 DEF Steady
  <2> QED BY <2>2 DEF Quiet
<1> QED BY <1>1, <1>2, <1>3

-----------------------------------------------------------------------------
IInv == TypeOK /\ Generations /\ Kept /\ Reading /\ Quiet

LEMMA InitIInv == Init => IInv
BY InitType, InitGenerations, InitKept, InitReading, InitQuiet DEF IInv

LEMMA NextIInv == IInv /\ [Next]_vars => IInv'
BY NextType, NextGenerations, NextKept, NextReading, NextQuiet DEF IInv

LEMMA Inductive == Spec => []IInv
BY InitIInv, NextIInv, PTL DEF Spec

(* What the inductive invariant says of the published fields and managers. *)
LEMMA EngineKept ==
    ASSUME IInv
    PROVE  PublishedIsComplete /\ NoDoubleStop /\ OnlyFailuresLeak
<1>1. PublishedIsComplete
  <2>1. Managers(engine.cfg) \cap stopped = {}
    BY DEF IInv, Kept, StopOnce, Retired, Managers
  <2> QED BY <2>1 DEF IInv, Generations, Kept, Serving, PublishedIsComplete
<1>2. NoDoubleStop
  BY DEF IInv, Kept, StopOnce, NoDoubleStop
<1>3. OnlyFailuresLeak
  <2>1. engine.auth = engine.cfg
    BY DEF IInv, Generations
  <2> QED BY <2>1 DEF IInv, Kept, Owned, OnlyFailuresLeak, Early
<1> QED BY <1>1, <1>2, <1>3

(* Reload publishes one complete generation: its parts agree and all its   *)
(* managers were started and none was stopped.                             *)
THEOREM CompletePublished == Spec => []PublishedIsComplete
BY EngineKept, Inductive, PTL

(* No stopChan is closed twice, however many Reloads overlap. *)
THEOREM StoppedOnce == Spec => []NoDoubleStop
BY EngineKept, Inductive, PTL

(* A refresh loop nobody will stop was started by a Reload that failed. *)
THEOREM LeaksNeedFailure == Spec => []OnlyFailuresLeak
BY EngineKept, Inductive, PTL

(* The read lock gives RunMiddlewares one generation. *)
THEOREM OneGenerationUnderLock == Spec => []LockedReadersSeeOneGeneration
<1>1. IInv => LockedReadersSeeOneGeneration
  BY DEF IInv, Reading, LockedReadersSeeOneGeneration
<1> QED BY <1>1, Inductive, PTL

(* A request that no Reload crossed has its tokens and does not panic over *)
(* a missing step, or over a builder that could be made.                   *)
THEOREM QuietServed == Spec => []QuietRequestIsServed
<1>1. IInv => QuietRequestIsServed
  BY DEF IInv, Quiet, Steady, Served, QuietRequestIsServed
<1> QED BY <1>1, Inductive, PTL
=============================================================================
