------------------------- MODULE APIPipelineProofs --------------------------
(***************************************************************************)
(* What holds of APIPipeline for every set of executions, of APIs, and of  *)
(* configurations: types, and the order in which APIs are started.         *)
(***************************************************************************)
EXTENDS APIPipeline, TLAPS

(* An execution that began, or a goroutine that runs, finds maps to use. *)
MapsExist ==
    \A c \in Call :
        /\ pc[c] # "idle" => owner \in Call
        /\ \A a \in API : gor[c][a] # "idle" => pc[c] # "idle"

TypeInv == TypeOK /\ MapsExist

(* Spawning keeps the type of the goroutines. *)
LEMMA SpawnType ==
    ASSUME TypeOK, NEW c \in Call, NEW S
    PROVE  Spawn(c, S) \in [Call -> [API -> Gor]]
BY DEF Spawn, TypeOK, Gor

(* A message at the head of a channel is a message. *)
LEMMA HeadType ==
    ASSUME TypeOK, NEW c \in Call, chan[c] # <<>>
    PROVE  /\ Head(chan[c]) \in Message
           /\ Tail(chan[c]) \in Seq(Message)
BY DEF TypeOK

LEMMA InitType == Init => TypeInv
BY PipelineAssumption DEF Init, TypeInv, TypeOK, MapsExist, NoData, PC, Gor, Ended, Outcome

LEMMA NextType == TypeInv /\ [Next]_vars => TypeInv'
<1> SUFFICES ASSUME TypeInv, [Next]_vars PROVE TypeInv'
  OBVIOUS
<1> USE PipelineAssumption DEF TypeInv
<1>1. ASSUME NEW c \in Call, Begin(c) PROVE TypeInv'
  <2>1. gor' \in [Call -> [API -> Gor]]
    BY <1>1, SpawnType DEF Begin
  <2>2. TypeOK'
    BY <1>1, <2>1 DEF Begin, TypeOK, AfterLoopTest, PC, NoData
  <2>3. MapsExist'
    BY <1>1 DEF Begin, TypeOK, MapsExist, AfterLoopTest, Spawn
  <2> QED BY <2>2, <2>3
<1>2. ASSUME NEW c \in Call, CallerCancels(c) PROVE TypeInv'
  BY <1>2 DEF CallerCancels, TypeOK, MapsExist
<1>3. ASSUME NEW c \in Call, ProcessResult(c) PROVE TypeInv'
  <2> DEFINE r == Head(chan[c])
  <2>1. r.name \in API /\ Tail(chan[c]) \in Seq(Message)
    BY <1>3, HeadType DEF ProcessResult, Message
  <2>2. gor' = Spawn(c, Startable(c, completed[c] \cup {r.name}))
    BY <1>3 DEF ProcessResult
  <2>3. gor' \in [Call -> [API -> Gor]]
    BY <2>2, SpawnType
  <2>4. ctx' \in [Call -> BOOLEAN]
    BY <1>3 DEF ProcessResult, TypeOK
  <2>5. /\ results' \in [Call -> [API -> Call \cup {Absent}]]
        /\ errors' \in [Call -> SUBSET API]
    <3>1. CASE r.ok
      <4>1. results' = [results EXCEPT ![owner][r.name] = c]
        BY <1>3, <3>1 DEF ProcessResult
      <4>2. UNCHANGED errors
        BY <1>3, <3>1 DEF ProcessResult
      <4>3. results' \in [Call -> [API -> Call \cup {Absent}]]
        BY <4>1 DEF TypeOK
      <4> QED BY <4>2, <4>3 DEF TypeOK
    <3>2. CASE ~r.ok
      <4>1. errors' = [errors EXCEPT ![owner] = @ \cup {r.name}]
        BY <1>3, <3>2 DEF ProcessResult
      <4>2. UNCHANGED results
        BY <1>3, <3>2 DEF ProcessResult
      <4> QED BY <4>1, <4>2, <2>1 DEF TypeOK
    <3> QED BY <3>1, <3>2
  <2>6. /\ completed' \in [Call -> SUBSET API]
        /\ count' \in [Call -> Nat]
        /\ pc' \in [Call -> PC]
        /\ chan' \in [Call -> Seq(Message)]
    BY <1>3, <2>1 DEF ProcessResult, TypeOK, AfterLoopTest, PC
  <2>7. TypeOK'
    BY <1>3, <2>3, <2>4, <2>5, <2>6 DEF ProcessResult, TypeOK
  <2>8. MapsExist'
    BY <1>3, <2>2 DEF ProcessResult, TypeOK, MapsExist, Spawn, AfterLoopTest
  <2> QED BY <2>7, <2>8
<1>4. ASSUME NEW c \in Call, ObserveDone(c) PROVE TypeInv'
  BY <1>4 DEF ObserveDone, Return, TypeOK, MapsExist, PC, Outcome
<1>5. ASSUME NEW c \in Call, CheckRequired(c) PROVE TypeInv'
  <2>1. \E o \in {"422", "ok"}, m \in {Absent, owner} : Return(c, o, m)
    BY <1>5 DEF CheckRequired
  <2>2. owner \in Call \cup {Absent}
    BY DEF TypeOK
  <2>3. PICK o \in Outcome, m \in Call \cup {Absent} : Return(c, o, m)
    BY <2>1, <2>2 DEF Outcome
  <2>4. TypeOK'
    BY <2>3 DEF Return, TypeOK, PC
  <2>5. MapsExist'
    BY <1>5, <2>3 DEF CheckRequired, Return, TypeOK, MapsExist
  <2> QED BY <2>4, <2>5
<1>6. ASSUME NEW c \in Call, NEW a \in API, ReadDeps(c, a) PROVE TypeInv'
  <2>1. owner \in Call
    BY <1>6 DEF ReadDeps, MapsExist
  <2>2. Snapshot(a) \in [API -> Call \cup {Absent}]
    BY <2>1 DEF Snapshot, TypeOK
  <2>3. TypeOK'
    BY <1>6, <2>2 DEF ReadDeps, TypeOK, Gor
  <2>4. MapsExist'
    BY <1>6 DEF ReadDeps, TypeOK, MapsExist
  <2> QED BY <2>3, <2>4
<1>7. ASSUME NEW c \in Call, NEW a \in API, NEW end \in {"ok", "failed"},
             CallReturns(c, a, end)
      PROVE TypeInv'
  BY <1>7 DEF CallReturns, TypeOK, MapsExist, Gor
<1>8. ASSUME NEW c \in Call, NEW a \in API, Deliver(c, a) PROVE TypeInv'
  <2>1. [name |-> a, ok |-> gor[c][a] = "ok"] \in Message
    BY <1>8 DEF Message
  <2>2. TypeOK'
    BY <1>8, <2>1 DEF Deliver, TypeOK, Gor, Ended
  <2>3. MapsExist'
    BY <1>8 DEF Deliver, TypeOK, MapsExist
  <2> QED BY <2>2, <2>3
<1>9. ASSUME NEW c \in Call, NEW a \in API, Drop(c, a) PROVE TypeInv'
  BY <1>9 DEF Drop, TypeOK, MapsExist, Gor, Ended
<1>10. CASE UNCHANGED vars
  BY <1>10 DEF vars, TypeOK, MapsExist
<1> QED
  BY <1>1, <1>2, <1>3, <1>4, <1>5, <1>6, <1>7, <1>8, <1>9, <1>10
  DEF Next, Terminated

(* Every variable of Execute and of its goroutines keeps its type, for any *)
(* number of executions, APIs and configurations.                          *)
THEOREM TypeCorrect == Spec => []TypeOK
<1>1. Spec => []TypeInv
  BY InitType, NextType, PTL DEF Spec
<1>2. TypeInv => TypeOK
  BY DEF TypeInv
<1> QED BY <1>1, <1>2, PTL

LEMMA TypeInvariant == Spec => []TypeInv
BY InitType, NextType, PTL DEF Spec

(* doc.go:22-23, for every pipeline and any number of executions on it: no *)
(* API is started before all its dependencies returned a result in the same *)
(* execution.  The property is inductive given the types.                  *)
THEOREM DependencyOrder == Spec => []DependenciesFirst
<1>1. Init => DependenciesFirst
  BY DEF Init, DependenciesFirst
<1>2. TypeInv /\ DependenciesFirst /\ [Next]_vars => DependenciesFirst'
  <2> SUFFICES ASSUME TypeOK, DependenciesFirst, [Next]_vars
               PROVE  DependenciesFirst'
    BY DEF TypeInv
  <2>1. ASSUME NEW c \in Call, Begin(c) PROVE DependenciesFirst'
    BY <2>1 DEF Begin, Spawn, TypeOK, DependenciesFirst
  <2>2. ASSUME NEW c \in Call, ProcessResult(c) PROVE DependenciesFirst'
    <3> DEFINE done == completed[c] \cup {Head(chan[c]).name}
    <3>1. /\ completed' = [completed EXCEPT ![c] = done]
          /\ gor' = Spawn(c, Startable(c, done))
          /\ UNCHANGED conf
      BY <2>2 DEF ProcessResult
    <3>2. \A a \in Startable(c, done) : conf.deps[a] \subseteq done
      BY DEF Startable
    <3>3. SUFFICES ASSUME NEW e \in Call, NEW a \in API, gor'[e][a] # "idle"
                   PROVE  conf.deps[a] \subseteq completed'[e]
      BY <3>1 DEF DependenciesFirst
    <3>4. CASE e # c
      BY <3>1, <3>3, <3>4 DEF Spawn, TypeOK, DependenciesFirst
    <3>5. CASE e = c /\ a \in Startable(c, done)
      BY <3>1, <3>2, <3>5 DEF TypeOK
    <3>6. CASE e = c /\ a \notin Startable(c, done)
      <4>1. gor'[c][a] = gor[c][a]
        BY <3>1, <3>6 DEF Spawn, TypeOK
      <4> QED BY <3>1, <3>3, <3>6, <4>1 DEF TypeOK, DependenciesFirst
    <3> QED BY <3>4, <3>5, <3>6
  <2>3. ASSUME NEW c \in Call, NEW a \in API, ReadDeps(c, a)
        PROVE DependenciesFirst'
    BY <2>3 DEF ReadDeps, TypeOK, DependenciesFirst
  <2>4. ASSUME NEW c \in Call, NEW a \in API, NEW end \in {"ok", "failed"},
               CallReturns(c, a, end)
        PROVE DependenciesFirst'
    BY <2>4 DEF CallReturns, TypeOK, DependenciesFirst
  <2>5. ASSUME NEW c \in Call, NEW a \in API, Deliver(c, a)
        PROVE DependenciesFirst'
    BY <2>5 DEF Deliver, TypeOK, DependenciesFirst
  <2>6. ASSUME NEW c \in Call, NEW a \in API, Drop(c, a)
        PROVE DependenciesFirst'
    BY <2>6 DEF Drop, TypeOK, DependenciesFirst
  <2>7. ASSUME NEW c \in Call, CallerCancels(c) PROVE DependenciesFirst'
    BY <2>7 DEF CallerCancels, DependenciesFirst
  <2>8. ASSUME NEW c \in Call, ObserveDone(c) PROVE DependenciesFirst'
    BY <2>8 DEF ObserveDone, Return, DependenciesFirst
  <2>9. ASSUME NEW c \in Call, CheckRequired(c) PROVE DependenciesFirst'
    BY <2>9 DEF CheckRequired, Return, DependenciesFirst
  <2>10. CASE UNCHANGED vars
    BY <2>10 DEF vars, DependenciesFirst
  <2> QED
    BY <2>1, <2>2, <2>3, <2>4, <2>5, <2>6, <2>7, <2>8, <2>9, <2>10
    DEF Next, Terminated
<1> QED BY <1>1, <1>2, TypeInvariant, PTL DEF Spec
=============================================================================
