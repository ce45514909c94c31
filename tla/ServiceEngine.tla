--------------------------- MODULE ServiceEngine ----------------------------
(***************************************************************************)
(* pkg/engine/service.go: what ServiceEngine publishes to the requests,    *)
(* Reload that replaces it, and the requests that read it: REST requests   *)
(* run Execute, which takes no lock, GraphQL requests run RunMiddlewares   *)
(* and GetGraphQLEngine, which take the read lock one after the other.     *)
(*                                                                         *)
(* Everything Reload builds is named by its generation: the boot is 0, the *)
(* n-th configuration that Reload loaded is n.  An auth manager is a pair  *)
(* <<generation, middleware id>>.                                          *)
(***************************************************************************)
EXTENDS Naturals, FiniteSets

CONSTANTS
    MW,             \* ids of auth_provider middlewares
    Config,         \* the configurations the source can hold, by what of
                    \* them matters here: steps, gql and the set auth
    Reloader,       \* the goroutines that call Reload
    Rest, Graph,    \* REST requests, GraphQL requests
    MaxVersion,     \* bound on the changes of the source
    MaxLoad,        \* bound on the configurations that Reload loads
    Nil             \* a nil pointer, or no generation

(* steps: nil, usable, or with an output the builder rejects.             *)
(* gql: disabled, usable, or with a schema the engine rejects.            *)
ASSUME EngineAssumption ==
    /\ MaxVersion \in Nat /\ MaxLoad \in Nat
    /\ Config \subseteq [steps : {"none", "ok", "bad"},
                         gql : {"off", "ok", "bad"}, auth : SUBSET MW]
    /\ Nil \notin Nat

VARIABLES
    source,     \* the configuration source: its version and content
    loads,      \* how many configurations Reload has loaded
    body,       \* body[n], ver[n]: content and version of generation n
    ver,
    engine,     \* the published fields, each by its generation
    reload,     \* reload[r]: a call of Reload by r
    failed,     \* the generations whose Reload returned an error
    running,    \* the managers with a refresh loop
    stopped,    \* the managers whose stopChan is closed
    rest,       \* rest[x]: a REST request in Execute
    graph       \* graph[x]: a GraphQL request in its handler

engineVars == <<source, loads, body, ver, engine, reload, failed, running, stopped>>
vars == <<engineVars, rest, graph>>

Gen == 0..MaxLoad
Manager == Gen \X MW
Published == [cfg : Gen, rm : Gen, auth : Gen, metric : Gen,
              gql : Gen \cup {Nil}, resp : Gen \cup {Nil}]
Reload == [pc : {"idle", "managers", "graphql", "lock", "stopping"},
           gen : Gen, todo : SUBSET MW, old : SUBSET Manager]
Stage == {"idle", "middlewares", "input", "processing", "output", "build",
          "target", "metrics", "done", "panic"}

(* saw: the generations of configuration, rules, managers and metrics read *)
RestRequest == [pc : Stage, saw : SUBSET Gen, todo : SUBSET MW, tokens : SUBSET MW]
GraphRequest == [pc : {"idle", "locked", "decode", "done", "panic"},
                 gen : Gen \cup {Nil}, tokens : SUBSET MW]

TypeOK ==
    /\ source \in [ver : 0..MaxVersion, body : Config]
    /\ loads \in Gen
    /\ body \in [Gen -> Config]
    /\ ver \in [Gen -> 0..MaxVersion]
    /\ engine \in Published
    /\ reload \in [Reloader -> Reload]
    /\ failed \subseteq Gen
    /\ running \subseteq Manager
    /\ stopped \subseteq Manager
    /\ rest \in [Rest -> RestRequest]
    /\ graph \in [Graph -> GraphRequest]

Managers(n) == {n} \X body[n].auth

NoReload == [pc |-> "idle", gen |-> 0, todo |-> {}, old |-> {}]

NoRequest == [pc |-> "idle", saw |-> {}, todo |-> {}, tokens |-> {}]

NoGraph == [pc |-> "idle", gen |-> Nil, tokens |-> {}]

(* After NewServiceEngine: a configuration it refuses ends the program, so *)
(* the boot configuration is usable and all its managers have started.     *)
Init ==
    /\ \E b \in Config :
        /\ b.steps # "bad" /\ b.gql # "bad"
        /\ source = [ver |-> 0, body |-> b]
        /\ body = [n \in Gen |-> b]
        /\ engine = [cfg |-> 0, rm |-> 0, auth |-> 0, metric |-> 0,
                     gql |-> IF b.gql = "ok" THEN 0 ELSE Nil,
                     resp |-> IF b.steps = "ok" THEN 0 ELSE Nil]
        /\ running = {0} \X b.auth
    /\ loads = 0
    /\ ver = [n \in Gen |-> 0]
    /\ reload = [r \in Reloader |-> NoReload]
    /\ failed = {}
    /\ stopped = {}
    /\ rest = [x \in Rest |-> NoRequest]
    /\ graph = [x \in Graph |-> NoGraph]

-----------------------------------------------------------------------------
(* The operator of the service changes the configuration source. *)
Publish(b) ==
    /\ source.ver < MaxVersion
    /\ source' = [ver |-> source.ver + 1, body |-> b]
    /\ UNCHANGED <<loads, body, ver, engine, reload, failed, running, stopped>>

(* Load reads the source; a new RuleManager and MetricProcessor are made.  *)
(* Its failure (read, parse, injection, validation) leaves no trace.       *)
LoadOK(r) ==
    /\ reload[r].pc = "idle"
    /\ loads < MaxLoad
    /\ LET n == loads + 1 IN
        /\ loads' = n
        /\ body' = [body EXCEPT ![n] = source.body]
        /\ ver' = [ver EXCEPT ![n] = source.ver]
        /\ reload' = [reload EXCEPT ![r] =
              [pc |-> "managers", gen |-> n, todo |-> source.body.auth, old |-> {}]]
    /\ UNCHANGED <<source, engine, failed, running, stopped>>

(* An error return: what Reload started keeps running. *)
Fail_StopsPublished(r) ==
    /\ reload' = [reload EXCEPT ![r] = NoReload]
    /\ failed' = failed \cup {reload[r].gen}
    /\ running' = running \ Managers(engine.auth)
    /\ stopped' = stopped \cup Managers(engine.auth)
    /\ UNCHANGED <<source, loads, body, ver, engine>>
Fail(r) ==
    /\ reload' = [reload EXCEPT ![r] = NoReload]
    /\ failed' = failed \cup {reload[r].gen}
    /\ UNCHANGED <<source, loads, body, ver, engine, running, stopped>>

(* A manager of the new configuration: its first fetch succeeds, and its   *)
(* refresh loop runs, or its configuration or its fetch is an error.       *)
StartManager_Swapped(r, mw) ==
    /\ reload[r].pc = "managers"
    /\ mw \in reload[r].todo
    /\ running' = running \cup {<<mw, reload[r].gen>>}
    /\ reload' = [reload EXCEPT ![r].todo = @ \ {mw}]
    /\ UNCHANGED <<source, loads, body, ver, engine, failed, stopped>>
StartManager(r, mw) ==
    /\ reload[r].pc = "managers"
    /\ mw \in reload[r].todo
    /\ running' = running \cup {<<reload[r].gen, mw>>}
    /\ reload' = [reload EXCEPT ![r].todo = @ \ {mw}]
    /\ UNCHANGED <<source, loads, body, ver, engine, failed, stopped>>

StartFails(r) ==
    /\ reload[r].pc = "managers"
    /\ reload[r].todo # {}
    /\ Fail(r)

ManagersStarted(r) ==
    /\ reload[r].pc = "managers"
    /\ reload[r].todo = {}
    /\ reload' = [reload EXCEPT ![r].pc = "graphql"]
    /\ UNCHANGED <<source, loads, body, ver, engine, failed, running, stopped>>

BuildGraphQL(r) ==
    /\ reload[r].pc = "graphql"
    /\ IF body[reload[r].gen].gql = "bad"
       THEN Fail(r)
       ELSE /\ reload' = [reload EXCEPT ![r].pc = "lock"]
            /\ UNCHANGED <<source, loads, body, ver, engine, failed, running, stopped>>

(* sync.RWMutex: a writer waits for the readers, and new readers wait for  *)
(* a waiting writer.                                                       *)
Readers == {x \in Graph : graph[x].pc = "locked"}
WriterWaits == \E r \in Reloader : reload[r].pc = "lock"

(* The critical section of Reload.  A response builder that cannot be made *)
(* is ignored: the one of an earlier generation, or nil, stays.            *)
NewFields_KeepRules(n) ==
    [cfg |-> n, rm |-> engine.rm, auth |-> n, metric |-> n,
     gql |-> IF body[n].gql = "ok" THEN n ELSE Nil,
     resp |-> IF body[n].steps = "ok" THEN n ELSE engine.resp]
NewFields_DropResponder(n) ==
    [cfg |-> n, rm |-> n, auth |-> n, metric |-> n,
     gql |-> IF body[n].gql = "ok" THEN n ELSE Nil,
     resp |-> engine.resp]
NewFields(n) ==
    [cfg |-> n, rm |-> n, auth |-> n, metric |-> n,
     gql |-> IF body[n].gql = "ok" THEN n ELSE Nil,
     resp |-> IF body[n].steps = "ok" THEN n ELSE engine.resp]

Swap_NoLock(r) ==
    /\ reload[r].pc = "lock"
    /\ engine' = NewFields(reload[r].gen)
    /\ reload' = [reload EXCEPT ![r].pc = "stopping", ![r].old = Managers(engine.auth)]
    /\ UNCHANGED <<source, loads, body, ver, failed, running, stopped>>
Swap(r) ==
    /\ reload[r].pc = "lock"
    /\ Readers = {}
    /\ engine' = NewFields(reload[r].gen)
    /\ reload' = [reload EXCEPT ![r].pc = "stopping", ![r].old = Managers(engine.auth)]
    /\ UNCHANGED <<source, loads, body, ver, failed, running, stopped>>

(* After the lock: stop the managers that were published before.  (The     *)
(* loop of a stopped manager ends: AuthManager.tla, StopEndsLoop.)         *)
StopOld(r, m) ==
    /\ reload[r].pc = "stopping"
    /\ m \in reload[r].old
    /\ running' = running \ {m}
    /\ stopped' = stopped \cup {m}
    /\ reload' = [reload EXCEPT ![r].old = @ \ {m}]
    /\ UNCHANGED <<source, loads, body, ver, engine, failed>>

ReloadReturns_Early(r) ==
    /\ reload[r].pc = "stopping"
    /\ reload' = [reload EXCEPT ![r] = NoReload]
    /\ UNCHANGED <<source, loads, body, ver, engine, failed, running, stopped>>
ReloadReturns(r) ==
    /\ reload[r].pc = "stopping"
    /\ reload[r].old = {}
    /\ reload' = [reload EXCEPT ![r] = NoReload]
    /\ UNCHANGED <<source, loads, body, ver, engine, failed, running, stopped>>

(* What is left of a Reload once its configuration is loaded. *)
ReloadStep(r) ==
    \/ \E mw \in MW : StartManager(r, mw)
    \/ StartFails(r)
    \/ ManagersStarted(r)
    \/ BuildGraphQL(r)
    \/ Swap(r)
    \/ \E m \in Manager : StopOld(r, m)
    \/ ReloadReturns(r)

-----------------------------------------------------------------------------
(* A REST request.  Each stage of Execute reads the fields again; what it  *)
(* read is forgotten when it returns, with an answer or with an error.     *)
Advance(x, pc, saw) ==
    rest' = [rest EXCEPT ![x] =
                IF pc = "done" THEN [NoRequest EXCEPT !.pc = "done"]
                ELSE [rest[x] EXCEPT !.pc = pc, !.saw = rest[x].saw \cup saw]]

Steps == body[engine.cfg].steps

RestBegin(x) ==
    /\ rest[x].pc = "idle"
    /\ \E pc \in IF Steps = "none" THEN {"done"} ELSE {"middlewares", "done"} :
        Advance(x, pc, {engine.cfg})
    /\ UNCHANGED <<engineVars, graph>>

(* The middlewares, walked in the list that is current now (an enrichment  *)
(* that fails ends the request) ...                                        *)
RestMiddlewares(x) ==
    /\ rest[x].pc = "middlewares"
    /\ \/ Advance(x, "done", {})
       \/ rest' = [rest EXCEPT ![x].pc = "input", ![x].saw = @ \cup {engine.cfg},
                               ![x].todo = body[engine.cfg].auth]
    /\ UNCHANGED <<engineVars, graph>>

(* ... each looked up in the managers that are current then; one without a *)
(* manager is passed over in silence.                                      *)
RestToken(x, mw) ==
    /\ mw \in rest[x].todo
    /\ rest' = [rest EXCEPT
          ![x].todo = @ \ {mw}, ![x].saw = @ \cup {engine.auth},
          ![x].tokens = IF mw \in body[engine.auth].auth THEN @ \cup {mw} ELSE @]
    /\ UNCHANGED <<engineVars, graph>>

(* The validations and transformations of one step: Config.Steps is read   *)
(* again and dereferenced; a rule may end the request.                     *)
RestRules(x, stage, next) ==
    /\ rest[x].pc = stage
    /\ rest[x].todo = {}
    /\ IF Steps = "none"
       THEN Advance(x, "panic", {engine.cfg})
       ELSE \E pc \in {next, "done"} : Advance(x, pc, {engine.cfg, engine.rm})
    /\ UNCHANGED <<engineVars, graph>>

RestBuild(x) ==
    /\ rest[x].pc = "build"
    /\ IF engine.resp = Nil
       THEN Advance(x, "panic", {})
       ELSE \E pc \in {"target", "done"} : Advance(x, pc, {})
    /\ UNCHANGED <<engineVars, graph>>

RestTarget(x) ==
    /\ rest[x].pc = "target"
    /\ IF Steps = "none"
       THEN Advance(x, "panic", {engine.cfg})
       ELSE \E pc \in {"metrics", "done"} : Advance(x, pc, {engine.cfg})
    /\ UNCHANGED <<engineVars, graph>>

RestMetrics(x) ==
    /\ rest[x].pc = "metrics"
    /\ Advance(x, IF Steps = "none" THEN "panic" ELSE "done",
               {engine.cfg, engine.metric})
    /\ UNCHANGED <<engineVars, graph>>

RestStep(x) ==
    \/ RestBegin(x)
    \/ RestMiddlewares(x)
    \/ \E mw \in MW : RestToken(x, mw)
    \/ RestRules(x, "input", "processing")
    \/ RestRules(x, "processing", "output")
    \/ RestRules(x, "output", "build")
    \/ RestBuild(x)
    \/ RestTarget(x)
    \/ RestMetrics(x)

(* A GraphQL request.  Its route exists if the boot configuration enabled  *)
(* GraphQL.  RunMiddlewares holds the read lock from here ...              *)
GraphLock(x) ==
    /\ body[0].gql = "ok"
    /\ graph[x].pc = "idle"
    /\ ~WriterWaits
    /\ graph' = [graph EXCEPT ![x].pc = "locked", ![x].gen = engine.cfg]
    /\ UNCHANGED <<engineVars, rest>>

(* ... to here, after it asked the managers for their tokens. *)
GraphUnlock_Kept(x) ==
    /\ graph[x].pc = "locked"
    /\ ~WriterWaits
    /\ graph' = [graph EXCEPT ![x].pc = "decode",
          ![x].tokens = body[graph[x].gen].auth \cap body[engine.auth].auth]
    /\ UNCHANGED <<engineVars, rest>>
GraphUnlock(x) ==
    /\ graph[x].pc = "locked"
    /\ graph' = [graph EXCEPT ![x].pc = "decode",
          ![x].tokens = body[graph[x].gen].auth \cap body[engine.auth].auth]
    /\ UNCHANGED <<engineVars, rest>>

(* The body is not JSON (400), or GetGraphQLEngine, under the lock again,  *)
(* gives the engine to execute: a nil one panics.                          *)
GraphBadBody(x) ==
    /\ graph[x].pc = "decode"
    /\ graph' = [graph EXCEPT ![x] = [NoGraph EXCEPT !.pc = "done"]]
    /\ UNCHANGED <<engineVars, rest>>

GraphExecute(x) ==
    /\ graph[x].pc = "decode"
    /\ ~WriterWaits
    /\ graph' = [graph EXCEPT ![x] =
          [NoGraph EXCEPT !.pc = IF engine.gql = Nil THEN "panic" ELSE "done"]]
    /\ UNCHANGED <<engineVars, rest>>

GraphStep(x) == GraphLock(x) \/ GraphUnlock(x) \/ GraphBadBody(x) \/ GraphExecute(x)

Next ==
    \/ /\ \/ \E b \in Config : Publish(b)
          \/ \E r \in Reloader : LoadOK(r) \/ ReloadStep(r)
       /\ UNCHANGED <<rest, graph>>
    \/ \E x \in Rest : RestStep(x)
    \/ \E x \in Graph : GraphStep(x)

(* A Reload in progress is scheduled, its fetches end (AuthManager.tla), and *)
(* a request that holds the read lock gets to release it.                    *)
Fairness ==
    /\ \A r \in Reloader : WF_vars(ReloadStep(r) /\ UNCHANGED <<rest, graph>>)
    /\ \A x \in Graph : WF_vars(GraphUnlock(x))

Spec == Init /\ [][Next]_vars /\ Fairness

-----------------------------------------------------------------------------
(* What is published is one generation: configuration, rules, managers and *)
(* metrics agree, GraphQL is there when it is enabled, the responder is of *)
(* this generation whenever it could be built, and every manager lives.    *)
PublishedIsComplete ==
    LET n == engine.cfg IN
    /\ engine.rm = n /\ engine.auth = n /\ engine.metric = n
    /\ engine.gql = IF body[n].gql = "off" THEN Nil ELSE n
    /\ body[n].steps = "ok" => engine.resp = n
    /\ Managers(n) \subseteq running \ stopped
    /\ n \notin failed

(* Closing a stopChan twice panics: no two reloads, nor the steps of one,  *)
(* ever stop the same manager again.                                       *)
NoDoubleStop ==
    /\ \A r \in Reloader : reload[r].old \cap stopped = {}
    /\ \A r, s \in Reloader : r # s => reload[r].old \cap reload[s].old = {}

(* A refresh loop that runs belongs to the published generation, to a      *)
(* Reload in progress, or to one that failed: successes leave none behind. *)
OnlyFailuresLeak ==
    \A m \in running :
        \/ m[1] = engine.auth
        \/ m[1] \in failed
        \/ \E r \in Reloader :
            reload[r].pc # "idle" /\ (m[1] = reload[r].gen \/ m \in reload[r].old)

(* RunMiddlewares works on one generation: under the read lock it gets a   *)
(* token for every auth middleware of the configuration it walks.          *)
LockedReadersSeeOneGeneration ==
    \A x \in Graph :
        graph[x].pc = "decode" =>
            graph[x].tokens = body[graph[x].gen].auth

(* A REST request that met only one generation got all its tokens, and     *)
(* panicked only if the builder of that generation was refused.            *)
QuietRequestIsServed ==
    \A x \in Rest : \A n \in Gen :
        rest[x].saw = {n} =>
            /\ rest[x].pc \in {"processing", "output", "build", "target", "metrics"}
                 => rest[x].tokens = body[n].auth
            /\ rest[x].pc = "panic" => body[n].steps = "bad"

(* Reload ends, whatever requests do: a request never holds the read lock  *)
(* while it waits for the writer.                                          *)
ReloadEnds == \A r \in Reloader : (reload[r].pc # "idle") ~> (reload[r].pc = "idle")

(* interfaces.go:25-27: Execute is called by concurrent requests and must  *)
(* stand it: no REST request panics.                                       *)
ExecuteIsThreadSafe == \A x \in Rest : rest[x].pc # "panic"

=============================================================================
