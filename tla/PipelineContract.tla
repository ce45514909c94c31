-------------------------- MODULE PipelineContract --------------------------
(***************************************************************************)
(* What tools/api promises of one pipeline (tools/api/doc.go:19-30 and the *)
(* comments of APIConfig and Execute): an API finishes only after all its  *)
(* dependencies finished, and the verdict of an execution is a function of *)
(* what its own APIs answered.  Nothing is said here of goroutines,        *)
(* channels or maps: APIPipeline.tla implements this module.               *)
(***************************************************************************)
CONSTANTS
    Call,       \* the executions asked of the pipeline
    API         \* the APIs the pipeline was configured with

VARIABLES
    conf,       \* the configuration: dependencies and required APIs
    status,     \* status[c][a]: how API a ended in execution c
    asked,      \* asked[c]: the caller's context was cancelled
    verdict     \* verdict[c]: what execution c returned, "none" while it runs

cvars == <<conf, status, asked, verdict>>

Finished(c) == {a \in API : status[c][a] # "pending"}

RequiredFailed(c) == \E a \in conf.required : status[c][a] = "failed"

CInit ==
    /\ status = [c \in Call |-> [a \in API |-> "pending"]]
    /\ asked = [c \in Call |-> FALSE]
    /\ verdict = [c \in Call |-> "none"]

(* API a ends, well or badly, once all it depends on has ended. *)
FinishAPI(c, a, end) ==
    /\ verdict[c] = "none"
    /\ status[c][a] = "pending"
    /\ conf.deps[a] \subseteq Finished(c)
    /\ status' = [status EXCEPT ![c][a] = end]
    /\ UNCHANGED <<conf, asked, verdict>>

AskToCancel(c) ==
    /\ asked' = [asked EXCEPT ![c] = TRUE]
    /\ UNCHANGED <<conf, status, verdict>>

(* The verdict: success needs every API finished and every required one    *)
(* answered, a 422 needs a required one that failed, and a cancellation    *)
(* needs a caller who cancelled or the failure of a required API.          *)
Conclude(c) ==
    /\ verdict[c] = "none"
    /\ \/ /\ Finished(c) = API
          /\ verdict' = [verdict EXCEPT
                ![c] = IF RequiredFailed(c) THEN "422" ELSE "ok"]
       \/ /\ asked[c] \/ RequiredFailed(c)
          /\ verdict' = [verdict EXCEPT ![c] = "cancelled"]
    /\ UNCHANGED <<conf, status, asked>>

CNext ==
    \E c \in Call :
        \/ \E a \in API, end \in {"ok", "failed"} : FinishAPI(c, a, end)
        \/ AskToCancel(c)
        \/ Conclude(c)

CSpec == CInit /\ [][CNext]_cvars
=============================================================================
