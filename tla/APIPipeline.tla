---------------------------- MODULE APIPipeline -----------------------------
(***************************************************************************)
(* tools/api/pipeline.go: APIPipeline.Execute and the goroutines it        *)
(* starts.  Several executions may run on one *APIPipeline: `started`,     *)
(* `completed`, the channel and the context are local to an execution, the *)
(* maps p.results and p.errors belong to the pipeline and every execution  *)
(* replaces them when it begins.                                           *)
(***************************************************************************)
EXTENDS Naturals, Sequences, FiniteSets

CONSTANTS
    Call,       \* executions: calls of Execute on one pipeline
    API,        \* the APIs of the pipeline (APIConfig.Name is unique)
    Name,       \* the names a Dependencies list can hold, unknown ones too
    Pipelines,  \* the configurations to consider
    Absent      \* "no entry in the map"

ASSUME PipelineAssumption ==
    /\ IsFiniteSet(API)
    /\ API \subseteq Name
    /\ Pipelines \subseteq [deps : [API -> SUBSET Name], required : SUBSET API]
    /\ Absent \notin Call

VARIABLES
    conf,       \* the configuration given to NewAPIPipeline
    pc,         \* pc[c]: where Execute c is
    parent,     \* parent[c]: the caller's context is done
    ctx,        \* ctx[c]: the execution's own context is done
    gor,        \* gor[c][a]: the goroutine of API a; "idle": not started
    chan,       \* chan[c]: the buffered resultChan
    completed,  \* completed[c]: the map `completed`
    count,      \* count[c]: completedCount
    snap,       \* snap[c][a]: `deps`, what the goroutine read of p.results
    owner,      \* the execution that made the maps p.results and p.errors
    results,    \* results[m][a]: in the map made by m, who fetched a's value
    errors,     \* errors[m]: the names in the error map made by m
    out,        \* out[c]: what Execute c returned
    ret         \* ret[c]: the map it returned, by the execution that made it

vars == <<conf, pc, parent, ctx, gor, chan, completed, count, snap, owner,
          results, errors, out, ret>>

PC == {"idle", "loop", "check", "returned"}
(* "ok" and "failed" hold an answer to send; the last three have ended. *)
Ended == {"okSent", "failSent", "dropped"}
Gor == {"idle", "spawned", "calling", "ok", "failed"} \cup Ended
Outcome == {"none", "ok", "422", "cancelled"}

NoData == [a \in API |-> Absent]
Message == [name : API, ok : BOOLEAN]

TypeOK ==
    /\ conf \in [deps : [API -> SUBSET Name], required : SUBSET API]
    /\ pc \in [Call -> PC]
    /\ parent \in [Call -> BOOLEAN]
    /\ ctx \in [Call -> BOOLEAN]
    /\ gor \in [Call -> [API -> Gor]]
    /\ chan \in [Call -> Seq(Message)]
    /\ completed \in [Call -> SUBSET API]
    /\ count \in [Call -> Nat]
    /\ snap \in [Call -> [API -> [API -> Call \cup {Absent}]]]
    /\ owner \in Call \cup {Absent}
    /\ results \in [Call -> [API -> Call \cup {Absent}]]
    /\ errors \in [Call -> SUBSET API]
    /\ out \in [Call -> Outcome]
    /\ ret \in [Call -> Call \cup {Absent}]

Init ==
    /\ conf \in Pipelines
    /\ pc = [c \in Call |-> "idle"]
    /\ parent = [c \in Call |-> FALSE]
    /\ ctx = [c \in Call |-> FALSE]
    /\ gor = [c \in Call |-> [a \in API |-> "idle"]]
    /\ chan = [c \in Call |-> <<>>]
    /\ completed = [c \in Call |-> {}]
    /\ count = [c \in Call |-> 0]
    /\ snap = [c \in Call |-> [a \in API |-> NoData]]
    /\ owner = Absent
    /\ results = [c \in Call |-> NoData]
    /\ errors = [c \in Call |-> {}]
    /\ out = [c \in Call |-> "none"]
    /\ ret = [c \in Call |-> Absent]

-----------------------------------------------------------------------------
(* `for completedCount < totalAPIs` *)
AfterLoopTest(n) == IF n < Cardinality(API) THEN "loop" ELSE "check"

(* The APIs the loop starts after a result: not started, with dependencies, *)
(* all of them in `completed`.                                              *)
Startable_AnyDep(c, done) ==
    {a \in API : /\ gor[c][a] = "idle"
                 /\ conf.deps[a] \cap done # {}}
Startable_Again(c, done) ==
    {a \in API : conf.deps[a] # {} /\ conf.deps[a] \subseteq done}
Startable_NotFailed(c, done) ==
    {a \in API : /\ gor[c][a] = "idle"
                 /\ conf.deps[a] # {}
                 /\ \A d \in conf.deps[a] :
                        d \in done /\ gor[c][d] = "okSent"}
Startable(c, done) ==
    {a \in API : /\ gor[c][a] = "idle"
                 /\ conf.deps[a] # {}
                 /\ conf.deps[a] \subseteq done}

Spawn(c, S) ==
    [gor EXCEPT ![c] = [a \in API |-> IF a \in S THEN "spawned" ELSE gor[c][a]]]

(* Execute up to its loop: a fresh context, fresh maps, and a goroutine for *)
(* every API without dependencies.                                          *)
Begin(c) ==
    /\ pc[c] = "idle"
    /\ pc' = [pc EXCEPT ![c] = AfterLoopTest(0)]
    /\ ctx' = [ctx EXCEPT ![c] = parent[c]]
    /\ owner' = c
    /\ results' = [results EXCEPT ![c] = NoData]
    /\ errors' = [errors EXCEPT ![c] = {}]
    /\ gor' = Spawn(c, {a \in API : conf.deps[a] = {}})
    /\ UNCHANGED <<conf, parent, chan, completed, count, snap, out, ret>>

(* The caller's context ends: the derived context ends with it. *)
CallerCancels(c) ==
    /\ pc[c] # "returned"
    /\ ~parent[c]
    /\ parent' = [parent EXCEPT ![c] = TRUE]
    /\ ctx' = [ctx EXCEPT ![c] = TRUE]
    /\ UNCHANGED <<conf, pc, gor, chan, completed, count, snap, owner,
                   results, errors, out, ret>>

-----------------------------------------------------------------------------
(* What a goroutine copies of p.results under the read lock: the entries of *)
(* its dependencies that are there, in the map that is current.             *)
Snapshot_All(a) == results[owner]
Snapshot(a) ==
    [d \in API |-> IF d \in conf.deps[a] THEN results[owner][d] ELSE Absent]

ReadDeps(c, a) ==
    /\ gor[c][a] = "spawned"
    /\ snap' = [snap EXCEPT ![c][a] = Snapshot(a)]
    /\ gor' = [gor EXCEPT ![c][a] = "calling"]
    /\ UNCHANGED <<conf, pc, parent, ctx, chan, completed, count, owner,
                   results, errors, out, ret>>

(* APIConfig.call ends.  The request does not carry the context and the    *)
(* client has no timeout: the answer is the server's alone.                *)
CallReturns_RetriesForever(c, a, end) ==
    /\ gor[c][a] = "calling"
    /\ gor' = [gor EXCEPT ![c][a] = IF end = "failed" THEN "spawned" ELSE end]
    /\ UNCHANGED <<conf, pc, parent, ctx, chan, completed, count, snap, owner,
                   results, errors, out, ret>>
CallReturns(c, a, end) ==
    /\ gor[c][a] = "calling"
    /\ gor' = [gor EXCEPT ![c][a] = end]
    /\ UNCHANGED <<conf, pc, parent, ctx, chan, completed, count, snap, owner,
                   results, errors, out, ret>>

(* The select that ends a goroutine: send the result or see the context    *)
(* done; when both are possible Go chooses either.                         *)
Deliver(c, a) ==
    /\ gor[c][a] \in {"ok", "failed"}
    /\ Len(chan[c]) < Cardinality(API)
    /\ chan' = [chan EXCEPT
         ![c] = Append(@, [name |-> a, ok |-> gor[c][a] = "ok"])]
    /\ gor' = [gor EXCEPT
         ![c][a] = IF @ = "ok" THEN "okSent" ELSE "failSent"]
    /\ UNCHANGED <<conf, pc, parent, ctx, completed, count, snap, owner,
                   results, errors, out, ret>>

Drop(c, a) ==
    /\ gor[c][a] \in {"ok", "failed"}
    /\ ctx[c]
    /\ gor' = [gor EXCEPT ![c][a] = "dropped"]
    /\ UNCHANGED <<conf, pc, parent, ctx, chan, completed, count, snap, owner,
                   results, errors, out, ret>>

-----------------------------------------------------------------------------
(* The loop takes a result: record it, cancel when a required API failed,  *)
(* count it, and start the APIs it was the last missing dependency of,     *)
(* cancelled or not.                                                       *)
ProcessResult(c) ==
    /\ pc[c] = "loop"
    /\ chan[c] # <<>>
    /\ LET r == Head(chan[c])
           done == completed[c] \cup {r.name}
       IN  /\ IF r.ok
              THEN /\ results' = [results EXCEPT ![owner][r.name] = c]
                   /\ UNCHANGED <<errors, ctx>>
              ELSE /\ errors' = [errors EXCEPT ![owner] = @ \cup {r.name}]
                   /\ ctx' = [ctx EXCEPT ![c] = @ \/ r.name \in conf.required]
                   /\ UNCHANGED results
           /\ completed' = [completed EXCEPT ![c] = done]
           /\ count' = [count EXCEPT ![c] = @ + 1]
           /\ pc' = [pc EXCEPT ![c] = AfterLoopTest(count[c] + 1)]
           /\ gor' = Spawn(c, Startable(c, done))
    /\ chan' = [chan EXCEPT ![c] = Tail(@)]
    /\ UNCHANGED <<conf, parent, snap, owner, out, ret>>

(* Every return runs the deferred cancel. *)
Return_Swapped(c, outcome, map) ==
    /\ pc' = [pc EXCEPT ![c] = "returned"]
    /\ ctx' = [ctx EXCEPT ![c] = TRUE]
    /\ out' = [out EXCEPT ![c] = map]
    /\ ret' = [ret EXCEPT ![c] = outcome]
    /\ UNCHANGED <<conf, parent, gor, chan, completed, count, snap, owner,
                   results, errors>>
Return(c, outcome, map) ==
    /\ pc' = [pc EXCEPT ![c] = "returned"]
    /\ ctx' = [ctx EXCEPT ![c] = TRUE]
    /\ out' = [out EXCEPT ![c] = outcome]
    /\ ret' = [ret EXCEPT ![c] = map]
    /\ UNCHANGED <<conf, parent, gor, chan, completed, count, snap, owner,
                   results, errors>>

(* The loop sees its context done. *)
ObserveDone_CallerOnly(c) ==
    /\ pc[c] = "loop"
    /\ parent[c]
    /\ Return(c, "cancelled", Absent)
ObserveDone(c) ==
    /\ pc[c] = "loop"
    /\ ctx[c]
    /\ Return(c, "cancelled", Absent)

(* After the loop: a required API with an error, or without a result, in   *)
(* the pipeline's current maps is a 422.                                   *)
RequiredMissing_All(c) ==
    \A a \in conf.required : a \in errors[owner] \/ results[owner][a] = Absent
RequiredMissing(c) ==
    \E a \in conf.required : a \in errors[owner] \/ results[owner][a] = Absent

CheckRequired(c) ==
    /\ pc[c] = "check"
    /\ IF RequiredMissing(c) THEN Return(c, "422", Absent)
                             ELSE Return(c, "ok", owner)

(* Every execution returned and every goroutine ended: nothing is left to do. *)
Terminated ==
    /\ \A c \in Call : /\ pc[c] = "returned"
                       /\ \A a \in API : gor[c][a] \in Ended \cup {"idle"}
    /\ UNCHANGED vars

Next ==
    \/ \E c \in Call :
        \/ Begin(c)
        \/ CallerCancels(c)
        \/ ProcessResult(c)
        \/ ObserveDone(c)
        \/ CheckRequired(c)
        \/ \E a \in API :
            \/ ReadDeps(c, a)
            \/ \E end \in {"ok", "failed"} : CallReturns(c, a, end)
            \/ Deliver(c, a)
            \/ Drop(c, a)
    \/ Terminated

(* The Go scheduler runs every goroutine that can run, and a select whose  *)
(* cases stay ready fires.  Neither the servers nor the caller are fair:   *)
(* nobody must answer and nobody must cancel.                              *)
Fairness ==
    \A c \in Call :
        /\ WF_vars(ProcessResult(c) \/ ObserveDone(c))
        /\ WF_vars(CheckRequired(c))
        /\ \A a \in API : WF_vars(ReadDeps(c, a)) /\ WF_vars(Deliver(c, a) \/ Drop(c, a))

Spec == Init /\ [][Next]_vars /\ Fairness

-----------------------------------------------------------------------------
(* doc.go:22-23: no API runs before all its dependencies returned a result *)
(* in the same execution.                                                  *)
DependenciesFirst ==
    \A c \in Call, a \in API :
        gor[c][a] # "idle" => conf.deps[a] \subseteq completed[c]

(* completedCount, on which the loop ends, counts what is in `completed`;  *)
(* the channel and `completed` never hold the same API, and a goroutine    *)
(* with an answer always finds room in the channel.                        *)
DeliveredOnce ==
    \A c \in Call :
        /\ count[c] = Cardinality(completed[c])
        /\ \A i \in 1..Len(chan[c]) :
            /\ chan[c][i].name \notin completed[c]
            /\ \A j \in 1..Len(chan[c]) :
                chan[c][i].name = chan[c][j].name => i = j
        /\ (\E a \in API : gor[c][a] \in {"ok", "failed"})
              => Len(chan[c]) < Cardinality(API)

(* With one execution at a time, the dependencies handed to an API are     *)
(* exactly those of its dependencies that answered well.                   *)
InputsAreDependencyResults ==
    \A c \in Call, a \in API :
        gor[c][a] \notin {"idle", "spawned"} =>
            \A d \in API :
                snap[c][a][d] = IF d \in conf.deps[a] /\ gor[c][d] = "okSent"
                                THEN c ELSE Absent

(* Every dependency is an API of the pipeline and the graph has no cycle. *)
Acyclic ==
    /\ \A a \in API : conf.deps[a] \subseteq API
    /\ \A S \in (SUBSET API) \ {{}} : \E a \in S : conf.deps[a] \cap S = {}

(* A pipeline with a cycle or an unknown dependency can only end cancelled: *)
(* Execute never claims a complete result for it.                           *)
CyclicNeverCompletes ==
    \A c \in Call : out[c] \in {"ok", "422"} => Acyclic

(* A cancelled execution returns even if no server ever answers. *)
CancellationReturns ==
    \A c \in Call : (pc[c] = "loop" /\ ctx[c]) ~> (pc[c] = "returned")

(* Every request is answered: an execution makes finitely many of them, so *)
(* it is enough that time and again none is pending.                       *)
ServersAnswer == []<>(\A c \in Call, a \in API : gor[c][a] # "calling")

(* If the servers answer, Execute on an acyclic pipeline returns. *)
AcyclicReturns ==
    ServersAnswer => [](Acyclic => <>(\A c \in Call : pc[c] \notin {"loop", "check"}))

(* If the servers answer, no goroutine of an execution is leaked, also     *)
(* those that Execute left running when it returned early.                 *)
GoroutinesEnd ==
    ServersAnswer =>
        [](<>(\A c \in Call, a \in API : gor[c][a] \in Ended \cup {"idle"}))

(* One execution keeps the promise of PipelineContract. *)
Contract == INSTANCE PipelineContract WITH
    status <- [c \in Call |-> [a \in API |->
                  IF a \notin completed[c] THEN "pending"
                  ELSE IF gor[c][a] = "okSent" THEN "ok" ELSE "failed"]],
    asked <- parent,
    verdict <- out
ImplementsContract == Contract!CSpec

(* pipeline.go:41-43, 132-137: when a required API failed, and the caller  *)
(* cancelled nothing, Execute returns the 422 error.                       *)
RequiredFailureIs422 ==
    \A c \in Call :
        /\ pc[c] = "returned" /\ ~parent[c]
        /\ \E a \in conf.required : gor[c][a] = "failSent" /\ a \in completed[c]
        => out[c] = "422"

=============================================================================
