----------------------- MODULE PipelineContractProofs -----------------------
(***************************************************************************)
(* What holds of the loop of Execute for every pipeline: results are       *)
(* counted once, the channel has room for every goroutine, no incomplete   *)
(* pipeline is reported complete, an acyclic one is never stuck, and what  *)
(* overlapping executions exchange are answers; and an execution that has  *)
(* the pipeline for itself keeps PipelineContract.                         *)
(***************************************************************************)
EXTENDS APIPipelineProofs, FiniteSetTheorems

-----------------------------------------------------------------------------
(* In an execution with goroutines g, the channel s and the set d of what  *)
(* completed: all that is in s or in d was sent, and it is there once.     *)
OnceSent(g, s, d) ==
    /\ \A a \in d : g[a] \in {"okSent", "failSent"}
    /\ \A i \in 1..Len(s) :
        /\ s[i].name \notin d
        /\ g[s[i].name] = IF s[i].ok THEN "okSent" ELSE "failSent"
        /\ \A j \in 1..Len(s) : s[i].name = s[j].name => i = j

LEMMA Names ==
    ASSUME NEW s \in Seq(Message), NEW i \in 1..Len(s)
    PROVE  s[i].name \in API
<1>1. s[i] \in Message
  OBVIOUS
<1> QED BY <1>1 DEF Message

(* It stays so while nobody who sent is disturbed. *)
LEMMA SentStays ==
    ASSUME NEW g, NEW h, NEW s \in Seq(Message), NEW d \in SUBSET API, OnceSent(g, s, d),
           \A a \in API : g[a] \in {"okSent", "failSent"} => h[a] = g[a]
    PROVE  OnceSent(h, s, d)
BY Names DEF OnceSent

(* Taking the head of the channel. *)
LEMMA HeadTaken ==
    ASSUME NEW g, NEW s \in Seq(Message), NEW d \in SUBSET API, OnceSent(g, s, d), s # <<>>
    PROVE  /\ Head(s).name \in API \ d
           /\ g[Head(s).name] = IF Head(s).ok THEN "okSent" ELSE "failSent"
           /\ OnceSent(g, Tail(s), d \cup {Head(s).name})
<1>1. /\ Len(s) \in Nat \ {0} /\ Head(s) = s[1] /\ Tail(s) \in Seq(Message)
      /\ Len(Tail(s)) = Len(s) - 1
      /\ \A i \in 1..Len(Tail(s)) : Tail(s)[i] = s[i + 1]
  OBVIOUS
<1>2. PICK m : m = Head(s)
  OBVIOUS
<1>3. 1 \in 1..Len(s) /\ m = s[1]
  BY <1>1, <1>2
<1>4. m.name \in API
  BY <1>3, Names
<1>5. m.name \notin d /\ g[m.name] = IF m.ok THEN "okSent" ELSE "failSent"
  BY <1>3 DEF OnceSent
<1>6. PICK t \in Seq(Message) : t = Tail(s)
  BY <1>1
<1>7. \A i \in 1..Len(t) : t[i] = s[i + 1] /\ i + 1 \in 1..Len(s) /\ i + 1 # 1
  BY <1>1, <1>6
<1>8. \A a \in d \cup {m.name} : g[a] \in {"okSent", "failSent"}
  BY <1>5 DEF OnceSent
<1>9. ASSUME NEW i \in 1..Len(t)
      PROVE  /\ t[i].name \notin d \cup {m.name}
             /\ g[t[i].name] = IF t[i].ok THEN "okSent" ELSE "failSent"
  BY <1>3, <1>7, <1>9 DEF OnceSent
<1>10. ASSUME NEW i \in 1..Len(t), NEW j \in 1..Len(t), t[i].name = t[j].name
       PROVE  i = j
  <2>1. i + 1 = j + 1
    BY <1>7, <1>10, SMTT(30) DEF OnceSent
  <2> QED BY <2>1
<1>11. OnceSent(g, t, d \cup {m.name})
  BY <1>8, <1>9, <1>10 DEF OnceSent
<1> QED BY <1>2, <1>4, <1>5, <1>6, <1>11

(* Sending an answer. *)
LEMMA AnswerSent ==
    ASSUME NEW g \in [API -> Gor], NEW s \in Seq(Message), NEW d \in SUBSET API, OnceSent(g, s, d),
           NEW a \in API, g[a] \in {"ok", "failed"}
    PROVE  OnceSent([g EXCEPT ![a] = IF @ = "ok" THEN "okSent" ELSE "failSent"],
                    Append(s, [name |-> a, ok |-> g[a] = "ok"]), d)
<1>0. [name |-> a, ok |-> g[a] = "ok"] \in Message
  BY DEF Message
<1>1. PICK m \in Message : m = [name |-> a, ok |-> g[a] = "ok"]
  BY <1>0
<1>2. PICK h : h = [g EXCEPT ![a] = IF @ = "ok" THEN "okSent" ELSE "failSent"]
  OBVIOUS
<1>3. m.name = a /\ m.ok = (g[a] = "ok") /\ h[a] = (IF m.ok THEN "okSent" ELSE "failSent")
      /\ \A b \in API : b # a => h[b] = g[b]
  BY <1>1, <1>2
<1>4. PICK t \in Seq(Message) : t = Append(s, m)
  <2>1. Append(s, m) \in Seq(Message)
    OBVIOUS
  <2> QED BY <2>1
<1>5. /\ Len(s) \in Nat /\ Len(t) = Len(s) + 1
      /\ \A i \in 1..Len(t) : IF i = Len(s) + 1 THEN t[i] = m ELSE t[i] = s[i] /\ i \in 1..Len(s)
  BY <1>4
<1>6. a \notin d /\ \A i \in 1..Len(s) : s[i].name # a /\ s[i].name \in API
  BY Names DEF OnceSent
<1>7. \A b \in d : h[b] \in {"okSent", "failSent"}
  BY <1>3, <1>6 DEF OnceSent
<1>8. ASSUME NEW i \in 1..Len(t)
      PROVE  /\ t[i].name \notin d
             /\ h[t[i].name] = IF t[i].ok THEN "okSent" ELSE "failSent"
  BY <1>3, <1>5, <1>6 DEF OnceSent
<1>9. ASSUME NEW i \in 1..Len(t), NEW j \in 1..Len(t), t[i].name = t[j].name
      PROVE  i = j
  BY <1>3, <1>5, <1>6, <1>9 DEF OnceSent
<1>10. OnceSent(h, t, d)
  BY <1>7, <1>8, <1>9 DEF OnceSent
<1> QED BY <1>1, <1>2, <1>4, <1>10

(* Whoever has an answer finds room in the channel: the APIs in it are     *)
(* distinct and do not include that one.                                   *)
LEMMA Room ==
    ASSUME NEW g, NEW s \in Seq(Message), NEW d, OnceSent(g, s, d),
           NEW a \in API, g[a] \in {"ok", "failed"}
    PROVE  Len(s) < Cardinality(API)
<1> DEFINE f == [i \in 1..Len(s) |-> s[i].name]
<1>1. Len(s) \in Nat
  OBVIOUS
<1>2. \A i \in 1..Len(s) : s[i].name \in API \ {a}
  BY Names DEF OnceSent
<1>3. \A i, j \in 1..Len(s) : s[i].name = s[j].name => i = j
  BY DEF OnceSent
<1>4. f \in Injection(1..Len(s), API \ {a})
  BY <1>2, <1>3 DEF Injection, IsInjective
<1>5. /\ IsFiniteSet(API \ {a})
      /\ Cardinality(API \ {a}) = Cardinality(API) - 1
      /\ Cardinality(API) \in Nat
  BY PipelineAssumption, FS_RemoveElement, FS_CardinalityType
<1>6. Cardinality(1..Len(s)) <= Cardinality(API \ {a})
  BY <1>4, <1>5, FS_Injection
<1>7. Cardinality(1..Len(s)) = Len(s)
  BY <1>1, FS_Interval, SMTT(30)
<1> QED BY <1>1, <1>5, <1>6, <1>7

-----------------------------------------------------------------------------
Delivery == \A c \in Call : OnceSent(gor[c], chan[c], completed[c])

(* The loop ends when all is counted, and only then is there a verdict. *)
Counted ==
    \A c \in Call :
        /\ count[c] = Cardinality(completed[c])
        /\ pc[c] = "check" => ~(count[c] < Cardinality(API))
        /\ out[c] \in {"ok", "422"} => completed[c] = API
        /\ out[c] # "none" <=> pc[c] = "returned"

(* What completed did so in an order of its dependencies: among any of     *)
(* these APIs one was first, and had no dependency among them.             *)
Ordered ==
    \A c \in Call : \A S \in SUBSET completed[c] :
        S # {} => \E a \in S : conf.deps[a] \cap S = {}

LoopInv == Delivery /\ Counted /\ Ordered

(* Spawning starts what is idle and leaves the rest alone. *)
LEMMA Spawned ==
    ASSUME TypeOK, NEW c \in Call, NEW S, \A a \in API : a \in S => gor[c][a] = "idle",
           gor' = Spawn(c, S)
    PROVE  /\ \A e \in Call, a \in API : gor[e][a] # "idle" => gor'[e][a] = gor[e][a]
           /\ \A e \in Call, a \in API : gor'[e][a] \in {gor[e][a], "spawned"}
BY DEF Spawn, TypeOK

(* All is counted: all completed. *)
LEMMA AllCounted ==
    ASSUME TypeOK, Counted, NEW c \in Call, ~(count[c] < Cardinality(API))
    PROVE  completed[c] = API
<1>1. completed[c] \in SUBSET API /\ count[c] = Cardinality(completed[c])
  BY DEF TypeOK, Counted
<1>2. /\ Cardinality(completed[c]) <= Cardinality(API)
      /\ Cardinality(API) = Cardinality(completed[c]) => API = completed[c]
  BY <1>1, FS_Subset, PipelineAssumption
<1>3. Cardinality(API) \in Nat /\ Cardinality(completed[c]) \in Nat
  BY <1>1, FS_Subset, FS_CardinalityType, PipelineAssumption
<1> QED BY <1>1, <1>2, <1>3

(* The head of the channel is counted. *)
LEMMA ProcessStep ==
    ASSUME TypeInv, DependenciesFirst, LoopInv, NEW c \in Call, ProcessResult(c)
    PROVE  /\ LoopInv'
           /\ \E m \in Message :
                /\ m.name \in API \ completed[c]
                /\ m = Head(chan[c])
                /\ gor[c][m.name] = (IF m.ok THEN "okSent" ELSE "failSent")
                /\ completed' = [completed EXCEPT ![c] = completed[c] \cup {m.name}]
                /\ \A e \in Call, a \in API : gor[e][a] # "idle" => gor'[e][a] = gor[e][a]
                /\ \A e \in Call, a \in API : gor'[e][a] \in {gor[e][a], "spawned"}
<1>1. \A e \in Call : completed[e] \in SUBSET API /\ chan[e] \in Seq(Message) /\ OnceSent(gor[e], chan[e], completed[e])
  BY DEF TypeInv, TypeOK, LoopInv, Delivery
<1>m. PICK m \in Message : m = Head(chan[c])
  BY HeadType DEF ProcessResult, TypeInv
<1>2. /\ completed' = [completed EXCEPT ![c] = completed[c] \cup {m.name}]
      /\ count' = [count EXCEPT ![c] = count[c] + 1]
      /\ pc' = [pc EXCEPT ![c] = AfterLoopTest(count[c] + 1)]
      /\ gor' = Spawn(c, Startable(c, completed[c] \cup {m.name}))
      /\ chan' = [chan EXCEPT ![c] = Tail(chan[c])]
      /\ UNCHANGED <<conf, out>>
      /\ pc[c] = "loop" /\ chan[c] # <<>>
  BY <1>m DEF ProcessResult
<1>3. /\ m.name \in API \ completed[c]
      /\ gor[c][m.name] = IF m.ok THEN "okSent" ELSE "failSent"
      /\ OnceSent(gor[c], Tail(chan[c]), completed[c] \cup {m.name})
  BY <1>1, <1>2, <1>m, HeadTaken
<1>4. /\ \A e \in Call, a \in API : gor[e][a] # "idle" => gor'[e][a] = gor[e][a]
      /\ \A e \in Call, a \in API : gor'[e][a] \in {gor[e][a], "spawned"}
  <2>1. PICK S : S = Startable(c, completed[c] \cup {m.name})
    OBVIOUS
  <2>2. \A a \in API : a \in S => gor[c][a] = "idle"
    BY <2>1 DEF Startable
  <2>3. TypeOK /\ gor' = Spawn(c, S)
    BY <1>2, <2>1 DEF TypeInv
  <2> QED BY <2>2, <2>3, Spawned
<1>5. /\ completed'[c] = completed[c] \cup {m.name} /\ chan'[c] = Tail(chan[c])
      /\ count'[c] = count[c] + 1 /\ pc'[c] = AfterLoopTest(count[c] + 1)
      /\ \A e \in Call : e # c =>
            /\ completed'[e] = completed[e] /\ chan'[e] = chan[e]
            /\ count'[e] = count[e] /\ pc'[e] = pc[e]
  BY <1>2 DEF TypeInv, TypeOK
<1>6. \A e \in Call : completed'[e] \in SUBSET API /\ chan'[e] \in Seq(Message)
  <2>1. Tail(chan[c]) \in Seq(Message)
    BY <1>2, HeadType DEF TypeInv
  <2> QED BY <1>1, <1>3, <1>5, <2>1
<1>7. Delivery'
  <2>1. \A e \in Call : OnceSent(gor[e], chan'[e], completed'[e])
    BY <1>1, <1>3, <1>5
  <2>2. \A e \in Call, a \in API : gor[e][a] \in {"okSent", "failSent"} => gor'[e][a] = gor[e][a]
    BY <1>4
  <2> QED BY <1>6, <2>1, <2>2, SentStays DEF Delivery
<1>8. Counted'
  <2>1. Cardinality(completed'[c]) = Cardinality(completed[c]) + 1
    <3>1. IsFiniteSet(completed[c])
      BY <1>1, FS_Subset, PipelineAssumption
    <3> QED BY <1>3, <1>5, <3>1, FS_AddElement
  <2>2. pc'[c] = "check" => ~(count'[c] < Cardinality(API))
    BY <1>5 DEF AfterLoopTest
  <2>3. pc'[c] # "returned" /\ out[c] = "none"
    BY <1>2, <1>5 DEF AfterLoopTest, LoopInv, Counted
  <2> QED BY <1>2, <1>5, <2>1, <2>2, <2>3, ZenonT(30) DEF LoopInv, Counted
<1>9. Ordered'
  <2>1. ASSUME NEW e \in Call, NEW S \in SUBSET completed'[e], S # {}
        PROVE  \E a \in S : conf.deps[a] \cap S = {}
    <3>1. CASE e # c \/ m.name \notin S
      BY <1>5, <2>1, <3>1 DEF LoopInv, Ordered
    <3>2. CASE e = c /\ m.name \in S /\ S \ {m.name} = {}
      <4>1. conf.deps[m.name] \subseteq completed[c]
        BY <1>1, <1>3 DEF DependenciesFirst
      <4> QED BY <1>3, <3>2, <4>1
    <3>3. CASE e = c /\ m.name \in S /\ S \ {m.name} # {}
      <4>1. PICK a \in S \ {m.name} : conf.deps[a] \cap (S \ {m.name}) = {}
        BY <1>5, <3>3, ZenonT(30) DEF LoopInv, Ordered
      <4>2. a \in completed[c] /\ a \in API
        BY <1>1, <1>5, <3>3, <4>1
      <4>3. conf.deps[a] \subseteq completed[c]
        BY <1>1, <4>2 DEF OnceSent, DependenciesFirst
      <4> QED BY <1>3, <4>1, <4>3
    <3> QED BY <3>1, <3>2, <3>3
  <2> QED BY <1>2, <2>1 DEF Ordered
<1> QED BY <1>m, <1>2, <1>3, <1>4, <1>7, <1>8, <1>9 DEF LoopInv

(* What a step leaves of LoopInv when it takes no result. *)
LEMMA OtherStep ==
    ASSUME TypeInv, TypeOK', LoopInv, UNCHANGED <<conf, completed, count>>,
           \A e \in Call : OnceSent(gor'[e], chan'[e], completed[e]),
           \A e \in Call :
                /\ pc'[e] = "check" => ~(count[e] < Cardinality(API))
                /\ out'[e] \in {"ok", "422"} => completed[e] = API
                /\ out'[e] # "none" <=> pc'[e] = "returned"
    PROVE  LoopInv'
BY DEF LoopInv, Delivery, Counted, Ordered

LEMMA LoopNext ==
    ASSUME TypeInv, TypeInv', DependenciesFirst, LoopInv, [Next]_vars
    PROVE  LoopInv'
<1>0. /\ TypeOK /\ TypeOK'
      /\ \A e \in Call :
            /\ OnceSent(gor[e], chan[e], completed[e])
            /\ completed[e] \in SUBSET API /\ chan[e] \in Seq(Message)
            /\ gor[e] \in [API -> Gor]
  BY DEF TypeInv, TypeOK, LoopInv, Delivery
<1>1. ASSUME UNCHANGED <<conf, completed, count, chan, pc, out>>,
             \A e \in Call, a \in API : gor[e][a] \in {"okSent", "failSent"} => gor'[e][a] = gor[e][a]
      PROVE  LoopInv'
  <2>1. \A e \in Call : OnceSent(gor'[e], chan'[e], completed[e])
    BY <1>0, <1>1, SentStays
  <2> QED BY <1>1, <2>1, OtherStep DEF TypeInv, LoopInv, Counted
<1>2. ASSUME NEW c \in Call, Begin(c) PROVE LoopInv'
  <2>1. gor' = Spawn(c, {a \in API : conf.deps[a] = {}}) /\ pc[c] = "idle" /\ pc' = [pc EXCEPT ![c] = AfterLoopTest(0)]
        /\ UNCHANGED <<conf, completed, count, chan, out>>
    BY <1>2 DEF Begin
  <2>2. \A a \in API : gor[c][a] = "idle"
    BY <2>1 DEF TypeInv, MapsExist
  <2>3. \A e \in Call, a \in API : gor[e][a] \in {"okSent", "failSent"} => gor'[e][a] = gor[e][a]
    BY <1>0, <2>1, <2>2, Spawned
  <2>4. \A e \in Call : OnceSent(gor'[e], chan'[e], completed[e])
    <3>1. ASSUME NEW e \in Call PROVE OnceSent(gor'[e], chan[e], completed[e])
      <4>1. PICK g, h, s, d : g = gor[e] /\ h = gor'[e] /\ s = chan[e] /\ d = completed[e]
        OBVIOUS
      <4>2. s \in Seq(Message) /\ d \in SUBSET API /\ OnceSent(g, s, d)
        BY <1>0, <4>1
      <4>3. \A a \in API : g[a] \in {"okSent", "failSent"} => h[a] = g[a]
        BY <2>3, <4>1
      <4>4. OnceSent(h, s, d)
        BY <4>2, <4>3, SentStays
      <4> QED BY <4>1, <4>4
    <3> QED BY <2>1, <3>1
  <2>5. count[c] = 0
    <3>1. completed[c] = {}
      BY <1>0, <2>2 DEF OnceSent
    <3> QED BY <3>1, FS_EmptySet DEF LoopInv, Counted
  <2>6. pc'[c] \in {"loop", "check"} /\ (pc'[c] = "check" => ~(0 < Cardinality(API)))
        /\ \A e \in Call : e # c => pc'[e] = pc[e]
    BY <1>0, <2>1 DEF TypeOK, AfterLoopTest
  <2> QED BY <1>0, <2>1, <2>4, <2>5, <2>6, OtherStep DEF LoopInv, Counted
<1>3. ASSUME NEW c \in Call, CallerCancels(c) PROVE LoopInv'
  BY <1>1, <1>3 DEF CallerCancels
<1>4. ASSUME NEW c \in Call, ProcessResult(c) PROVE LoopInv'
  BY <1>4, ProcessStep
<1>5. ASSUME NEW c \in Call, NEW o, NEW m, Return(c, o, m), o # "none",
             o \in {"ok", "422"} => completed[c] = API
      PROVE  LoopInv'
  <2>1. /\ UNCHANGED <<conf, completed, count, chan, gor>>
        /\ pc'[c] = "returned" /\ out'[c] = o
        /\ \A e \in Call : e # c => pc'[e] = pc[e] /\ out'[e] = out[e]
    BY <1>0, <1>5 DEF Return, TypeOK
  <2> QED BY <1>0, <1>5, <2>1, OtherStep DEF LoopInv, Counted
<1>6. ASSUME NEW c \in Call, ObserveDone(c) PROVE LoopInv'
  BY <1>5, <1>6 DEF ObserveDone
<1>7. ASSUME NEW c \in Call, CheckRequired(c) PROVE LoopInv'
  <2>1. completed[c] = API
    BY <1>0, <1>7, AllCounted DEF CheckRequired, LoopInv, Counted
  <2> QED BY <1>5, <1>7, <2>1 DEF CheckRequired
<1>8. ASSUME NEW c \in Call, NEW a \in API,
             ReadDeps(c, a) \/ (\E end \in {"ok", "failed"} : CallReturns(c, a, end)) \/ Drop(c, a)
      PROVE  LoopInv'
  <2>1. PICK new : gor' = [gor EXCEPT ![c][a] = new]
    BY <1>8 DEF ReadDeps, CallReturns, Drop
  <2>2. gor[c][a] \notin {"okSent", "failSent"} /\ UNCHANGED <<conf, completed, count, chan, pc, out>>
    BY <1>8 DEF ReadDeps, CallReturns, Drop
  <2>3. \A e \in Call, b \in API : ~(e = c /\ b = a) => gor'[e][b] = gor[e][b]
    BY <1>0, <2>1
  <2> QED BY <1>1, <2>2, <2>3
<1>9. ASSUME NEW c \in Call, NEW a \in API, Deliver(c, a) PROVE LoopInv'
  <2>1. PICK m : m = [name |-> a, ok |-> gor[c][a] = "ok"]
    OBVIOUS
  <2>2. PICK h : h = [gor[c] EXCEPT ![a] = IF @ = "ok" THEN "okSent" ELSE "failSent"]
    OBVIOUS
  <2>3. /\ gor'[c] = h /\ chan'[c] = Append(chan[c], m)
        /\ \A e \in Call : e # c => gor'[e] = gor[e] /\ chan'[e] = chan[e]
        /\ UNCHANGED <<conf, completed, count, pc, out>>
    BY <1>0, <1>9, <2>1, <2>2 DEF Deliver, TypeOK
  <2>4. OnceSent(h, Append(chan[c], m), completed[c])
    BY <1>0, <1>9, <2>1, <2>2, AnswerSent DEF Deliver
  <2>5. \A e \in Call : OnceSent(gor'[e], chan'[e], completed[e])
    BY <1>0, <2>3, <2>4
  <2> QED BY <1>0, <2>3, <2>5, OtherStep DEF LoopInv, Counted
<1>10. CASE UNCHANGED vars
  BY <1>1, <1>10 DEF vars
<1> QED BY <1>2, <1>3, <1>4, <1>6, <1>7, <1>8, <1>9, <1>10 DEF Next, Terminated

LEMMA LoopInvariant == Spec => []LoopInv
<1>1. Init => LoopInv
  <2>1. ASSUME Init PROVE LoopInv
    <3>1. \A c \in Call : chan[c] = <<>> /\ completed[c] = {} /\ count[c] = 0 /\ pc[c] = "idle" /\ out[c] = "none"
      BY <2>1 DEF Init
    <3>2. Delivery
      BY <3>1 DEF Delivery, OnceSent
    <3>3. Counted
      BY <3>1, FS_EmptySet DEF Counted
    <3> QED BY <3>1, <3>2, <3>3 DEF LoopInv, Ordered
  <2> QED BY <2>1
<1> QED BY <1>1, LoopNext, TypeInvariant, DependencyOrder, PTL DEF Spec

(* However the goroutines of any pipeline end, `count` is the number of    *)
(* APIs in `completed`, no result is counted twice, and no goroutine with  *)
(* an answer blocks on a full channel.                                     *)
THEOREM EachResultOnce == Spec => []DeliveredOnce
<1>1. TypeInv /\ LoopInv => DeliveredOnce
  <2>1. ASSUME TypeInv, LoopInv, NEW c \in Call
        PROVE  /\ count[c] = Cardinality(completed[c])
               /\ \A i \in 1..Len(chan[c]) :
                    /\ chan[c][i].name \notin completed[c]
                    /\ \A j \in 1..Len(chan[c]) : chan[c][i].name = chan[c][j].name => i = j
               /\ \A a \in API : gor[c][a] \in {"ok", "failed"} => Len(chan[c]) < Cardinality(API)
    <3>1. OnceSent(gor[c], chan[c], completed[c]) /\ chan[c] \in Seq(Message)
      BY <2>1 DEF TypeInv, TypeOK, LoopInv, Delivery
    <3> QED BY <2>1, <3>1, Room DEF OnceSent, LoopInv, Counted
  <2> QED BY <2>1 DEF DeliveredOnce
<1> QED BY <1>1, LoopInvariant, TypeInvariant, PTL

(* For every pipeline: with a cycle, or with a dependency it has no API    *)
(* for, no execution claims to be complete.                                *)
THEOREM IncompleteIsNotReported == Spec => []CyclicNeverCompletes
<1>1. TypeInv /\ LoopInv /\ DependenciesFirst => CyclicNeverCompletes
  <2>1. ASSUME TypeInv, LoopInv, DependenciesFirst, NEW c \in Call, out[c] \in {"ok", "422"}
        PROVE  Acyclic
    <3>1. completed[c] = API /\ OnceSent(gor[c], chan[c], completed[c])
      BY <2>1 DEF LoopInv, Counted, Delivery
    <3>2. \A a \in API : conf.deps[a] \subseteq API
      BY <2>1, <3>1 DEF OnceSent, DependenciesFirst
    <3> QED BY <2>1, <3>1, <3>2 DEF Acyclic, LoopInv, Ordered
  <2> QED BY <2>1 DEF CyclicNeverCompletes
<1> QED BY <1>1, LoopInvariant, TypeInvariant, DependencyOrder, PTL

-----------------------------------------------------------------------------
(* Whatever can start has been started, after every result; an answer that *)
(* was sent and not yet taken is in the channel; a goroutine gives its     *)
(* answer up only when the execution's context is done.                    *)
Launched ==
    \A c \in Call :
        /\ pc[c] = "idle" => completed[c] = {}
        /\ pc[c] = "loop" => count[c] < Cardinality(API)
        /\ \A a \in API :
            /\ pc[c] # "idle" /\ conf.deps[a] \subseteq completed[c] => gor[c][a] # "idle"
            /\ gor[c][a] \in {"okSent", "failSent"} =>
                  \/ a \in completed[c]
                  \/ \E i \in DOMAIN chan[c] : chan[c][i].name = a
            /\ gor[c][a] = "dropped" => ctx[c]

(* The goroutines whose answer is still to come. *)
InFlight == {"spawned", "calling", "ok", "failed"}

(* An execution that waits in its select, not cancelled, waits for         *)
(* something: an acyclic pipeline has no state in which the loop is short  *)
(* of results, the channel is empty and no goroutine is left to send one.  *)
WaitsForSomething ==
    Acyclic => \A c \in Call :
        pc[c] = "loop" /\ ~ctx[c] =>
            chan[c] # <<>> \/ \E a \in API : gor[c][a] \in InFlight

LEMMA LaunchedNext ==
    ASSUME TypeInv, TypeInv', LoopInv, DependenciesFirst, Launched, [Next]_vars
    PROVE  Launched'
<1>0. /\ TypeOK /\ TypeOK'
      /\ \A e \in Call : completed[e] \in SUBSET API /\ chan[e] \in Seq(Message) /\ gor[e] \in [API -> Gor]
  BY DEF TypeInv, TypeOK
<1>1. ASSUME UNCHANGED <<conf, pc, completed, count, chan>>,
             \A e \in Call : ctx[e] => ctx'[e],
             \A e \in Call, a \in API :
                \/ gor'[e][a] = gor[e][a]
                \/ /\ gor'[e][a] \notin {"idle", "okSent", "failSent"}
                   /\ gor'[e][a] = "dropped" => ctx[e]
      PROVE  Launched'
  BY <1>1 DEF Launched
<1>2. ASSUME NEW c \in Call, Begin(c) PROVE Launched'
  <2>1. /\ pc[c] = "idle" /\ pc' = [pc EXCEPT ![c] = AfterLoopTest(0)]
        /\ ctx' = [ctx EXCEPT ![c] = parent[c]]
        /\ gor' = Spawn(c, {a \in API : conf.deps[a] = {}})
        /\ UNCHANGED <<conf, completed, count, chan>>
    BY <1>2 DEF Begin
  <2>2. /\ \A a \in API : gor[c][a] = "idle" /\ gor'[c][a] = IF conf.deps[a] = {} THEN "spawned" ELSE "idle"
        /\ \A e \in Call : e # c => gor'[e] = gor[e] /\ pc'[e] = pc[e] /\ ctx'[e] = ctx[e]
        /\ pc'[c] = AfterLoopTest(0) /\ completed[c] = {}
    BY <1>0, <2>1 DEF TypeInv, MapsExist, TypeOK, Spawn, Launched
  <2>3. count[c] = 0
    BY <2>2, FS_EmptySet DEF LoopInv, Counted
  <2>4. pc'[c] # "idle" /\ (pc'[c] = "loop" => 0 < Cardinality(API))
    BY <2>2 DEF AfterLoopTest
  <2>5. \A a \in API :
          /\ conf.deps[a] \subseteq completed[c] => gor'[c][a] # "idle"
          /\ gor'[c][a] \notin {"okSent", "failSent", "dropped"}
    BY <2>2
  <2>6. \A e \in Call : e # c =>
          /\ pc'[e] = "idle" => completed'[e] = {}
          /\ pc'[e] = "loop" => count'[e] < Cardinality(API)
          /\ \A a \in API :
              /\ pc'[e] # "idle" /\ conf'.deps[a] \subseteq completed'[e] => gor'[e][a] # "idle"
              /\ gor'[e][a] \in {"okSent", "failSent"} =>
                    \/ a \in completed'[e]
                    \/ \E i \in DOMAIN chan'[e] : chan'[e][i].name = a
              /\ gor'[e][a] = "dropped" => ctx'[e]
    <3>1. ASSUME NEW e \in Call, e # c
          PROVE  /\ pc'[e] = pc[e] /\ gor'[e] = gor[e] /\ ctx'[e] = ctx[e]
                 /\ completed'[e] = completed[e] /\ count'[e] = count[e] /\ chan'[e] = chan[e]
      BY <2>1, <2>2, <3>1
    <3>2. conf' = conf
      BY <2>1
    <3> QED BY <3>1, <3>2 DEF Launched
  <2>7. completed'[c] = {} /\ count'[c] = 0 /\ conf' = conf /\ completed[c] = {}
    BY <2>1, <2>2, <2>3
  <2> QED BY <2>4, <2>5, <2>6, <2>7 DEF Launched
<1>3. ASSUME NEW c \in Call, CallerCancels(c) PROVE Launched'
  BY <1>0, <1>1, <1>3 DEF CallerCancels, TypeOK
<1>4. ASSUME NEW c \in Call, ProcessResult(c) PROVE Launched'
  <2>1. PICK m \in Message :
            /\ m.name \in API \ completed[c]
            /\ m = Head(chan[c])
            /\ completed' = [completed EXCEPT ![c] = completed[c] \cup {m.name}]
            /\ \A e \in Call, a \in API : gor[e][a] # "idle" => gor'[e][a] = gor[e][a]
            /\ \A e \in Call, a \in API : gor'[e][a] \in {gor[e][a], "spawned"}
    BY <1>4, ProcessStep
  <2>2. PICK S : S = Startable(c, completed[c] \cup {m.name})
    OBVIOUS
  <2>3. /\ pc[c] = "loop" /\ chan[c] # <<>>
        /\ gor' = Spawn(c, S)
        /\ chan' = [chan EXCEPT ![c] = Tail(chan[c])]
        /\ count' = [count EXCEPT ![c] = count[c] + 1]
        /\ pc' = [pc EXCEPT ![c] = AfterLoopTest(count[c] + 1)]
        /\ \A e \in Call : ctx[e] => ctx'[e]
        /\ conf' = conf
    BY <1>0, <1>4, <2>1, <2>2 DEF ProcessResult, TypeOK
  <2>4. /\ completed'[c] = completed[c] \cup {m.name} /\ chan'[c] = Tail(chan[c])
        /\ count'[c] = count[c] + 1 /\ pc'[c] = AfterLoopTest(count[c] + 1)
        /\ \A a \in API : a \in S => gor'[c][a] = "spawned"
        /\ \A e \in Call : e # c =>
              /\ completed'[e] = completed[e] /\ chan'[e] = chan[e] /\ gor'[e] = gor[e]
              /\ count'[e] = count[e] /\ pc'[e] = pc[e]
    BY <1>0, <2>1, <2>3 DEF TypeOK, Spawn
  <2>5. pc'[c] # "idle" /\ (pc'[c] = "loop" => count'[c] < Cardinality(API))
    BY <2>4 DEF AfterLoopTest
  <2>6. ASSUME NEW a \in API, conf.deps[a] \subseteq completed'[c] PROVE gor'[c][a] # "idle"
    <3>1. CASE gor[c][a] # "idle"
      BY <2>1, <3>1
    <3>2. CASE gor[c][a] = "idle" /\ conf.deps[a] = {}
      BY <2>3, <3>2 DEF Launched
    <3>3. CASE gor[c][a] = "idle" /\ conf.deps[a] # {}
      <4>1. a \in S
        BY <2>2, <2>4, <2>6, <3>3 DEF Startable
      <4> QED BY <2>4, <4>1
    <3> QED BY <3>1, <3>2, <3>3
  <2>7. ASSUME NEW a \in API, gor'[c][a] \in {"okSent", "failSent"}
        PROVE  \/ a \in completed'[c]
               \/ \E i \in DOMAIN chan'[c] : chan'[c][i].name = a
    <3>1. gor[c][a] \in {"okSent", "failSent"}
      BY <2>1, <2>7
    <3>2. CASE a \in completed[c]
      BY <2>4, <3>2
    <3>3. CASE \E i \in DOMAIN chan[c] : chan[c][i].name = a
      <4>1. PICK i \in DOMAIN chan[c] : chan[c][i].name = a
        BY <3>3
      <4>2. CASE i = 1
        <5>1. chan[c][1] = m
          BY <1>0, <2>1, <2>3
        <5> QED BY <2>4, <4>1, <4>2, <5>1
      <4>3. CASE i # 1
        <5>1. i - 1 \in DOMAIN Tail(chan[c]) /\ Tail(chan[c])[i - 1] = chan[c][i]
          BY <1>0, <2>3, <4>3
        <5> QED BY <2>4, <4>1, <5>1
      <4> QED BY <4>2, <4>3
    <3> QED BY <3>1, <3>2, <3>3 DEF Launched
  <2>8. \A a \in API : gor'[c][a] = "dropped" => ctx'[c]
    BY <2>1, <2>3 DEF Launched
  <2>9. \A e \in Call : e # c =>
          /\ pc'[e] = "idle" => completed'[e] = {}
          /\ pc'[e] = "loop" => count'[e] < Cardinality(API)
          /\ \A a \in API :
              /\ pc'[e] # "idle" /\ conf'.deps[a] \subseteq completed'[e] => gor'[e][a] # "idle"
              /\ gor'[e][a] \in {"okSent", "failSent"} =>
                    \/ a \in completed'[e]
                    \/ \E i \in DOMAIN chan'[e] : chan'[e][i].name = a
              /\ gor'[e][a] = "dropped" => ctx'[e]
    BY <2>3, <2>4 DEF Launched
  <2> QED BY <2>3, <2>5, <2>6, <2>7, <2>8, <2>9 DEF Launched
<1>5. ASSUME NEW c \in Call, NEW o, NEW m, Return(c, o, m), pc[c] # "idle" PROVE Launched'
  <2>1. /\ UNCHANGED <<conf, completed, count, chan, gor>>
        /\ pc'[c] = "returned" /\ \A e \in Call : e # c => pc'[e] = pc[e]
        /\ \A e \in Call : ctx[e] => ctx'[e]
    BY <1>0, <1>5 DEF Return, TypeOK
  <2> QED BY <1>5, <2>1 DEF Launched
<1>6. ASSUME NEW c \in Call, ObserveDone(c) \/ CheckRequired(c) PROVE Launched'
  BY <1>5, <1>6 DEF ObserveDone, CheckRequired
<1>7. ASSUME NEW c \in Call, NEW a \in API,
             ReadDeps(c, a) \/ (\E end \in {"ok", "failed"} : CallReturns(c, a, end)) \/ Drop(c, a)
      PROVE  Launched'
  <2>1. PICK new : gor' = [gor EXCEPT ![c][a] = new] /\ new \in {"calling", "ok", "failed", "dropped"}
                   /\ (new = "dropped" => ctx[c])
    BY <1>7 DEF ReadDeps, CallReturns, Drop
  <2>2. UNCHANGED <<conf, pc, completed, count, chan, ctx>>
    BY <1>7 DEF ReadDeps, CallReturns, Drop
  <2>3. /\ gor'[c][a] = new
        /\ \A e \in Call, b \in API : ~(e = c /\ b = a) => gor'[e][b] = gor[e][b]
    BY <1>0, <2>1 DEF TypeOK
  <2> QED BY <1>1, <2>1, <2>2, <2>3
<1>8. ASSUME NEW c \in Call, NEW a \in API, Deliver(c, a) PROVE Launched'
  <2>1. PICK m : m = [name |-> a, ok |-> gor[c][a] = "ok"]
    OBVIOUS
  <2>2. /\ gor'[c][a] \in {"okSent", "failSent"}
        /\ \A e \in Call, b \in API : ~(e = c /\ b = a) => gor'[e][b] = gor[e][b]
        /\ chan'[c] = Append(chan[c], m)
        /\ \A e \in Call : e # c => chan'[e] = chan[e]
        /\ UNCHANGED <<conf, pc, completed, count, ctx>>
    BY <1>0, <1>8, <2>1 DEF Deliver, TypeOK
  <2>3. /\ Len(chan[c]) + 1 \in DOMAIN chan'[c] /\ chan'[c][Len(chan[c]) + 1] = m
        /\ \A i \in DOMAIN chan[c] : i \in DOMAIN chan'[c] /\ chan'[c][i] = chan[c][i]
    <3>1. m \in Message
      BY <2>1 DEF Message
    <3> QED BY <1>0, <2>2, <3>1
  <2>4. \E i \in DOMAIN chan'[c] : chan'[c][i].name = a
    BY <2>1, <2>3
  <2>5. \A e \in Call, b \in API : gor'[e][b] \in {"okSent", "failSent"} =>
          \/ b \in completed[e]
          \/ \E i \in DOMAIN chan'[e] : chan'[e][i].name = b
    BY <2>2, <2>3, <2>4, SMTT(30) DEF Launched
  <2> QED BY <2>2, <2>5 DEF Launched
<1>9. CASE UNCHANGED vars
  BY <1>1, <1>9 DEF vars
<1> QED BY <1>2, <1>3, <1>4, <1>6, <1>7, <1>8, <1>9 DEF Next, Terminated

(* No execution of an acyclic pipeline is ever stuck in its select, however *)
(* many executions share the pipeline and whatever becomes of the APIs: the *)
(* safety half of AcyclicReturns, for every pipeline.                       *)
THEOREM AcyclicNeverStuck == Spec => []WaitsForSomething
<1>1. Init => Launched
  BY DEF Init, Launched
<1>2. TypeInv /\ LoopInv /\ Launched => WaitsForSomething
  <2>1. SUFFICES ASSUME TypeInv, LoopInv, Launched, Acyclic, NEW c \in Call, pc[c] = "loop", ~ctx[c],
                        chan[c] = <<>>, \A a \in API : gor[c][a] \notin InFlight
                 PROVE  FALSE
    BY DEF WaitsForSomething
  <2>2. completed[c] \in SUBSET API /\ \A a \in API : gor[c][a] \in Gor
    BY <2>1 DEF TypeInv, TypeOK
  <2>3. \A a \in API : a \in completed[c] \/ gor[c][a] = "idle"
    BY <2>1, <2>2 DEF Launched, InFlight, Gor, Ended
  <2>4. PICK S : S = API \ completed[c]
    OBVIOUS
  <2>5. CASE S = {}
    <3>1. completed[c] = API
      BY <2>2, <2>4, <2>5
    <3>2. count[c] = Cardinality(API) /\ count[c] < Cardinality(API)
      BY <2>1, <3>1 DEF Launched, LoopInv, Counted
    <3> QED BY <3>2, FS_CardinalityType, PipelineAssumption
  <2>6. CASE S # {}
    <3>1. PICK a \in S : conf.deps[a] \cap S = {} /\ conf.deps[a] \subseteq API
      BY <2>1, <2>4, <2>6 DEF Acyclic
    <3>2. a \in API /\ conf.deps[a] \subseteq completed[c]
      BY <2>4, <3>1
    <3> QED BY <2>1, <2>3, <2>4, <3>1, <3>2 DEF Launched
  <2> QED BY <2>5, <2>6
<1> QED BY <1>1, <1>2, LaunchedNext, LoopInvariant, TypeInvariant, DependencyOrder, PTL DEF Spec

-----------------------------------------------------------------------------
(* Executions that overlap read and write the maps of whoever began last.  *)
(* They may miss what they look for, but find nothing made up: a value in  *)
(* a map, or handed to a goroutine, is what some execution got from that   *)
(* very API, a goroutine gets values of its dependencies only, and Execute *)
(* succeeds only when every required API has answered some execution.      *)
RealAnswers ==
    /\ \A m \in Call, a \in API :
        results[m][a] \in Call => gor[results[m][a]][a] = "okSent"
    /\ \A c \in Call, a, d \in API :
        snap[c][a][d] \in Call => d \in conf.deps[a] /\ gor[snap[c][a][d]][d] = "okSent"
    /\ \A c \in Call : out[c] = "ok" =>
        \A a \in conf.required : \E e \in Call : gor[e][a] = "okSent"

(* An answer that was sent stays so, and the configuration is fixed. *)
LEMMA AnswerStays ==
    ASSUME TypeInv, DependenciesFirst, LoopInv, [Next]_vars
    PROVE  /\ \A e \in Call, b \in API : gor[e][b] = "okSent" => gor'[e][b] = "okSent"
           /\ conf' = conf
<1>0. TypeOK /\ gor \in [Call -> [API -> Gor]]
  BY DEF TypeInv, TypeOK
<1>1. ASSUME NEW c \in Call, Begin(c)
      PROVE  \A e \in Call, b \in API : gor[e][b] = "okSent" => gor'[e][b] = "okSent"
  <2>1. gor' = Spawn(c, {a \in API : conf.deps[a] = {}}) /\ \A a \in API : gor[c][a] = "idle"
    BY <1>1 DEF Begin, TypeInv, MapsExist
  <2> QED BY <1>0, <2>1, Spawned
<1>2. ASSUME NEW c \in Call, ProcessResult(c)
      PROVE  \A e \in Call, b \in API : gor[e][b] = "okSent" => gor'[e][b] = "okSent"
  BY <1>2, ProcessStep
<1>3. ASSUME NEW c \in Call, NEW a \in API,
             \/ ReadDeps(c, a) \/ (\E end \in {"ok", "failed"} : CallReturns(c, a, end))
             \/ Deliver(c, a) \/ Drop(c, a)
      PROVE  \A e \in Call, b \in API : gor[e][b] = "okSent" => gor'[e][b] = "okSent"
  <2>1. PICK new : gor' = [gor EXCEPT ![c][a] = new] /\ gor[c][a] # "okSent"
    BY <1>3 DEF ReadDeps, CallReturns, Deliver, Drop
  <2> QED BY <1>0, <2>1
<1>4. ASSUME gor' = gor
      PROVE  \A e \in Call, b \in API : gor[e][b] = "okSent" => gor'[e][b] = "okSent"
  BY <1>4
<1>5. conf' = conf
  BY ZenonT(30) DEF Next, vars, Begin, CallerCancels, ProcessResult, ObserveDone, CheckRequired, Return,
         ReadDeps, CallReturns, Deliver, Drop, Terminated
<1> QED BY <1>1, <1>2, <1>3, <1>4, <1>5
        DEF Next, vars, CallerCancels, ObserveDone, CheckRequired, Return, Terminated

LEMMA RealNext ==
    ASSUME TypeInv, TypeInv', DependenciesFirst, LoopInv, RealAnswers, [Next]_vars
    PROVE  RealAnswers'
<1>0. /\ \A m \in Call, a \in API : results[m][a] \in Call \cup {Absent}
      /\ results \in [Call -> [API -> Call \cup {Absent}]]
      /\ snap \in [Call -> [API -> [API -> Call \cup {Absent}]]]
      /\ Absent \notin Call
  BY PipelineAssumption DEF TypeInv, TypeOK
<1>1. /\ \A e \in Call, b \in API : gor[e][b] = "okSent" => gor'[e][b] = "okSent"
      /\ conf' = conf /\ conf.required \subseteq API
  BY AnswerStays DEF TypeInv, TypeOK
<1>2. ASSUME NEW m \in Call, NEW a \in API, results'[m][a] \in Call
      PROVE  gor'[results'[m][a]][a] = "okSent"
  <2>1. CASE results' = results
    BY <1>1, <1>2, <2>1 DEF RealAnswers
  <2>2. ASSUME NEW c \in Call, Begin(c) PROVE gor'[results'[m][a]][a] = "okSent"
    <3>1. m # c /\ results'[m][a] = results[m][a]
      BY <1>0, <1>2, <2>2 DEF Begin, NoData
    <3> QED BY <1>1, <1>2, <3>1 DEF RealAnswers
  <2>3. ASSUME NEW c \in Call, ProcessResult(c), results' # results
        PROVE  gor'[results'[m][a]][a] = "okSent"
    <3>1. PICK r \in Message :
            /\ r.name \in API /\ r = Head(chan[c])
            /\ gor[c][r.name] = (IF r.ok THEN "okSent" ELSE "failSent")
      BY <2>3, ProcessStep
    <3>2. r.ok /\ results' = [results EXCEPT ![owner][r.name] = c]
      BY <2>3, <3>1 DEF ProcessResult
    <3>3. CASE m = owner /\ a = r.name
      <4>1. results'[m][a] = c
        BY <1>0, <3>2, <3>3
      <4> QED BY <1>1, <3>1, <3>2, <3>3, <4>1
    <3>4. CASE ~(m = owner /\ a = r.name)
      <4>1. results'[m][a] = results[m][a]
        BY <1>0, <3>2, <3>4
      <4> QED BY <1>1, <1>2, <4>1 DEF RealAnswers
    <3> QED BY <3>3, <3>4
  <2> QED BY <2>1, <2>2, <2>3
          DEF Next, vars, CallerCancels, ObserveDone, CheckRequired, Return, ReadDeps, CallReturns,
              Deliver, Drop, Terminated
<1>3. ASSUME NEW c \in Call, NEW a \in API, NEW d \in API, snap'[c][a][d] \in Call
      PROVE  d \in conf'.deps[a] /\ gor'[snap'[c][a][d]][d] = "okSent"
  <2>1. CASE snap'[c][a][d] = snap[c][a][d]
    BY <1>1, <1>3, <2>1 DEF RealAnswers
  <2>2. CASE snap'[c][a][d] # snap[c][a][d]
    <3>1. PICK e \in Call, b \in API : ReadDeps(e, b)
      BY <2>2 DEF Next, vars, Begin, CallerCancels, ProcessResult, ObserveDone, CheckRequired, Return,
                  CallReturns, Deliver, Drop, Terminated
    <3>2. owner \in Call
      BY <3>1 DEF ReadDeps, TypeInv, MapsExist
    <3>3. snap' = [snap EXCEPT ![e][b] = Snapshot(b)]
      BY <3>1 DEF ReadDeps
    <3>4. e = c /\ b = a
      BY <1>0, <2>2, <3>3
    <3>5. snap'[c][a][d] = IF d \in conf.deps[a] THEN results[owner][d] ELSE Absent
      BY <1>0, <3>3, <3>4 DEF Snapshot
    <3>6. d \in conf.deps[a] /\ snap'[c][a][d] = results[owner][d]
      BY <1>0, <1>3, <3>5
    <3> QED BY <1>1, <1>3, <3>2, <3>6 DEF RealAnswers
  <2> QED BY <2>1, <2>2
<1>4. ASSUME NEW c \in Call, out'[c] = "ok", NEW a \in conf'.required
      PROVE  \E e \in Call : gor'[e][a] = "okSent"
  <2>1. a \in API /\ a \in conf.required
    BY <1>1, <1>4
  <2>2. CASE out[c] = "ok"
    BY <1>1, <2>1, <2>2 DEF RealAnswers
  <2>3. CASE out[c] # "ok"
    <3>0. PICK e \in Call : CheckRequired(e) \/ ObserveDone(e)
      BY <1>4, <2>3 DEF Next, vars, Begin, CallerCancels, ProcessResult, ReadDeps, CallReturns,
                        Deliver, Drop, Terminated
    <3>1. PICK o, m : Return(e, o, m) /\ (o = "ok" => CheckRequired(e) /\ ~RequiredMissing(e))
      BY <3>0 DEF CheckRequired, ObserveDone
    <3>2. out' = [out EXCEPT ![e] = o] /\ out \in [Call -> Outcome]
      BY <3>1 DEF Return, TypeInv, TypeOK
    <3>3. e = c /\ o = "ok"
      BY <1>4, <2>3, <3>2
    <3>4. CheckRequired(c) /\ ~RequiredMissing(c)
      BY <3>1, <3>3
    <3>5. owner \in Call
      BY <3>4 DEF CheckRequired, TypeInv, MapsExist
    <3>6. results[owner][a] \in Call
      BY <1>0, <2>1, <3>4, <3>5 DEF RequiredMissing
    <3> QED BY <1>1, <2>1, <3>5, <3>6 DEF RealAnswers
  <2> QED BY <2>2, <2>3
<1> QED BY <1>2, <1>3, <1>4 DEF RealAnswers

(* For every pipeline and any number of executions that share it: nothing  *)
(* in the maps or in what an API is called with is made up, and success    *)
(* means that every required API has answered some execution.              *)
THEOREM NothingMadeUp == Spec => []RealAnswers
<1>1. Init => RealAnswers
  BY PipelineAssumption DEF Init, RealAnswers, NoData
<1> QED BY <1>1, RealNext, LoopInvariant, TypeInvariant, DependencyOrder, PTL DEF Spec

-----------------------------------------------------------------------------
(* An execution that has the pipeline for itself, whatever the pipeline:   *)
(* its maps say what its APIs answered, these answers are what it hands to *)
(* the APIs that depend on them, and its verdict is PipelineContract's.    *)

OneExecution == \A c, d \in Call : c = d

(* The pipeline's maps are this execution's, and record what it counted;   *)
(* its context is done only because the caller's is or because a required  *)
(* API failed.                                                             *)
OwnMaps ==
    /\ \A c \in Call : pc[c] # "idle" => owner = c
    /\ \A c \in Call, a \in API : pc[c] # "idle" =>
        /\ results[c][a] = IF a \in completed[c] /\ gor[c][a] = "okSent" THEN c ELSE Absent
        /\ a \in errors[c] <=> a \in completed[c] /\ gor[c][a] = "failSent"
    /\ \A c \in Call : ctx[c] /\ pc[c] \in {"loop", "check"} =>
        parent[c] \/ \E a \in conf.required \cap completed[c] : gor[c][a] = "failSent"

OwnInv == OwnMaps /\ InputsAreDependencyResults

(* What all the steps can use. *)
Facts == TypeInv /\ LoopInv /\ DependenciesFirst /\ OwnInv

LEMMA Answered ==
    ASSUME Facts, NEW c \in Call
    PROVE  /\ \A a \in completed[c] : gor[c][a] \in {"okSent", "failSent"} /\ a \in API
           /\ \A a \in API : gor[c][a] # "idle" => conf.deps[a] \subseteq completed[c]
           /\ pc[c] = "idle" => completed[c] = {} /\ \A a \in API : gor[c][a] = "idle"
<1>1. /\ \A a \in completed[c] : gor[c][a] \in {"okSent", "failSent"} /\ a \in API
      /\ \A a \in API : gor[c][a] # "idle" => conf.deps[a] \subseteq completed[c]
  BY DEF Facts, TypeInv, TypeOK, LoopInv, Delivery, OnceSent, DependenciesFirst
<1>2. pc[c] = "idle" => \A a \in API : gor[c][a] = "idle"
  BY DEF Facts, TypeInv, MapsExist
<1> QED BY <1>1, <1>2

(* A goroutine moves and does not touch what was counted. *)
LEMMA GoroutineStep ==
    ASSUME Facts, NEW c \in Call, NEW a \in API, NEW new \in Gor, gor[c][a] \notin Ended \cup {"idle"},
           gor' = [gor EXCEPT ![c][a] = new], new # "idle",
           UNCHANGED <<conf, pc, parent, ctx, completed, owner, results, errors>>,
           gor[c][a] # "spawned" => UNCHANGED snap,
           gor[c][a] = "spawned" => snap' = [snap EXCEPT ![c][a] = Snapshot(a)]
    PROVE  OwnInv'
<1>1. /\ \A e \in Call, b \in API : ~(e = c /\ b = a) => gor'[e][b] = gor[e][b]
      /\ gor'[c][a] = new
  BY DEF Facts, TypeInv, TypeOK
<1>2. a \notin completed[c]
  BY Answered DEF Ended
<1>3. \A e \in Call : \A b \in completed[e] : gor'[e][b] = gor[e][b] /\ b \in API
  BY <1>1, <1>2, Answered
<1>4. OwnMaps'
  <2>1. ASSUME NEW e \in Call, NEW b \in API, pc[e] # "idle"
        PROVE  /\ results[e][b] = IF b \in completed[e] /\ gor'[e][b] = "okSent" THEN e ELSE Absent
               /\ b \in errors[e] <=> b \in completed[e] /\ gor'[e][b] = "failSent"
    BY <1>3, <2>1 DEF Facts, OwnInv, OwnMaps
  <2>2. ASSUME NEW e \in Call, ctx[e], pc[e] \in {"loop", "check"}
        PROVE  parent[e] \/ \E b \in conf.required \cap completed[e] : gor'[e][b] = "failSent"
    BY <1>3, <2>2 DEF Facts, OwnInv, OwnMaps
  <2>3. \A e \in Call : pc[e] # "idle" => owner = e
    BY DEF Facts, OwnInv, OwnMaps
  <2> QED BY <2>1, <2>2, <2>3 DEF OwnMaps
<1>5. InputsAreDependencyResults'
  <2>1. SUFFICES ASSUME NEW e \in Call, NEW b \in API, gor'[e][b] \notin {"idle", "spawned"}, NEW d \in API
        PROVE  snap'[e][b][d] = IF d \in conf.deps[b] /\ gor'[e][d] = "okSent" THEN e ELSE Absent
    BY DEF InputsAreDependencyResults
  <2>2. gor[e][b] # "idle"
    BY <1>1, <2>1
  <2>3. d \in conf.deps[b] => d \in completed[e] /\ gor'[e][d] = gor[e][d]
    BY <1>3, <2>2, Answered
  <2>4. CASE gor[e][b] # "spawned"
    <3>1. snap'[e][b] = snap[e][b]
      <4>1. snap \in [Call -> [API -> [API -> Call \cup {Absent}]]]
        BY DEF Facts, TypeInv, TypeOK
      <4> QED BY <2>4, <4>1
    <3>2. snap[e][b][d] = IF d \in conf.deps[b] /\ gor[e][d] = "okSent" THEN e ELSE Absent
      BY <2>2, <2>4 DEF Facts, OwnInv, InputsAreDependencyResults
    <3> QED BY <2>3, <3>1, <3>2
  <2>5. CASE gor[e][b] = "spawned"
    <3>1. e = c /\ b = a
      BY <1>1, <2>1, <2>5
    <3>2. snap'[c][a] = Snapshot(a) /\ owner = c /\ pc[c] # "idle"
      BY <2>5, <3>1 DEF Facts, TypeInv, TypeOK, MapsExist, OwnInv, OwnMaps
    <3>3. Snapshot(a)[d] = IF d \in conf.deps[a] THEN results[c][d] ELSE Absent
      BY <3>2 DEF Snapshot
    <3>4. results[c][d] = IF d \in completed[c] /\ gor[c][d] = "okSent" THEN c ELSE Absent
      BY <3>2 DEF Facts, OwnInv, OwnMaps
    <3>5. snap'[e][b][d] = IF d \in conf.deps[a] THEN results[c][d] ELSE Absent
      BY <3>1, <3>2, <3>3
    <3> QED BY <2>3, <3>1, <3>4, <3>5
  <2> QED BY <2>4, <2>5
<1> QED BY <1>4, <1>5 DEF OwnInv

(* A result is counted. *)
LEMMA CountStep ==
    ASSUME OneExecution, Facts, NEW c \in Call, ProcessResult(c)
    PROVE  OwnInv'
<1>1. PICK m \in Message :
        /\ m.name \in API \ completed[c]
        /\ m = Head(chan[c])
        /\ gor[c][m.name] = (IF m.ok THEN "okSent" ELSE "failSent")
        /\ completed' = [completed EXCEPT ![c] = completed[c] \cup {m.name}]
        /\ \A e \in Call, a \in API : gor[e][a] # "idle" => gor'[e][a] = gor[e][a]
        /\ \A e \in Call, a \in API : gor'[e][a] \in {gor[e][a], "spawned"}
  BY ProcessStep DEF Facts
<1>2. /\ pc[c] = "loop" /\ owner = c /\ completed'[c] = completed[c] \cup {m.name}
      /\ UNCHANGED <<conf, parent, snap, owner>>
      /\ pc'[c] # "idle"
      /\ \A e \in Call : e = c
  BY <1>1 DEF ProcessResult, OneExecution, Facts, OwnInv, OwnMaps, TypeInv, TypeOK, AfterLoopTest
<1>3. /\ results'[c] = IF m.ok THEN [results[c] EXCEPT ![m.name] = c] ELSE results[c]
      /\ errors'[c] = IF m.ok THEN errors[c] ELSE errors[c] \cup {m.name}
      /\ ctx'[c] => ctx[c] \/ (~m.ok /\ m.name \in conf.required)
  <2>1. CASE m.ok
    BY <1>1, <1>2, <2>1 DEF ProcessResult, Facts, TypeInv, TypeOK
  <2>2. CASE ~m.ok
    BY <1>1, <1>2, <2>2 DEF ProcessResult, Facts, TypeInv, TypeOK
  <2> QED BY <2>1, <2>2
<1>4. \A a \in completed'[c] : gor'[c][a] = gor[c][a] /\ a \in API
  BY <1>1, <1>2, Answered
<1>5. results[c] \in [API -> Call \cup {Absent}] /\ c # Absent
  BY PipelineAssumption DEF Facts, TypeInv, TypeOK
<1>6. ASSUME NEW a \in API
      PROVE  /\ results'[c][a] = IF a \in completed'[c] /\ gor'[c][a] = "okSent" THEN c ELSE Absent
             /\ a \in errors'[c] <=> a \in completed'[c] /\ gor'[c][a] = "failSent"
  <2>1. CASE a = m.name
    <3>1. a \in completed'[c] /\ gor'[c][a] = (IF m.ok THEN "okSent" ELSE "failSent")
      BY <1>1, <1>2, <1>4, <2>1
    <3>2. results[c][a] = Absent /\ a \notin errors[c]
      BY <1>1, <1>2, <2>1 DEF Facts, OwnInv, OwnMaps
    <3> QED BY <1>3, <1>5, <2>1, <3>1, <3>2
  <2>2. CASE a # m.name
    <3>1. /\ results'[c][a] = results[c][a]
          /\ a \in errors'[c] <=> a \in errors[c]
          /\ a \in completed'[c] <=> a \in completed[c]
          /\ a \in completed[c] => gor'[c][a] = gor[c][a]
      BY <1>2, <1>3, <1>4, <1>5, <2>2
    <3> QED BY <1>2, <3>1 DEF Facts, OwnInv, OwnMaps
  <2> QED BY <2>1, <2>2
<1>7. ctx'[c] /\ pc'[c] \in {"loop", "check"} =>
        parent[c] \/ \E a \in conf.required \cap completed'[c] : gor'[c][a] = "failSent"
  <2>1. CASE ctx[c]
    <3>1. parent[c] \/ \E a \in conf.required \cap completed[c] : gor[c][a] = "failSent"
      BY <1>2, <2>1 DEF Facts, OwnInv, OwnMaps
    <3> QED BY <1>2, <1>4, <3>1
  <2>2. CASE ~m.ok /\ m.name \in conf.required
    BY <1>1, <1>2, <1>4, <2>2
  <2> QED BY <1>3, <2>1, <2>2
<1>8. OwnMaps'
  BY <1>2, <1>6, <1>7 DEF OwnMaps
<1>9. InputsAreDependencyResults'
  <2>1. SUFFICES ASSUME NEW b \in API, gor'[c][b] \notin {"idle", "spawned"}, NEW d \in API
        PROVE  snap[c][b][d] = IF d \in conf.deps[b] /\ gor'[c][d] = "okSent" THEN c ELSE Absent
    BY <1>2 DEF InputsAreDependencyResults
  <2>2. gor[c][b] = gor'[c][b]
    BY <1>1, <2>1
  <2>3. d \in conf.deps[b] => gor'[c][d] = gor[c][d]
    BY <1>2, <1>4, <2>1, <2>2, Answered
  <2> QED BY <2>1, <2>2, <2>3 DEF Facts, OwnInv, InputsAreDependencyResults
<1> QED BY <1>8, <1>9 DEF OwnInv

LEMMA OwnNext ==
    ASSUME OneExecution, Facts, [Next]_vars
    PROVE  OwnInv'
<1>1. ASSUME NEW c \in Call, Begin(c) PROVE OwnInv'
  <2>1. /\ pc[c] = "idle" /\ owner' = c /\ completed[c] = {} /\ UNCHANGED <<completed, parent, snap, conf>>
        /\ results'[c] = NoData /\ errors'[c] = {} /\ ctx'[c] = parent[c]
        /\ gor' = Spawn(c, {a \in API : conf.deps[a] = {}}) /\ \A a \in API : gor[c][a] = "idle"
        /\ \A e \in Call : e = c
    BY <1>1, Answered DEF Begin, OneExecution, Facts, TypeInv, TypeOK
  <2>2. \A a \in API : gor'[c][a] \in {"idle", "spawned"}
    BY <2>1 DEF Spawn, Facts, TypeInv, TypeOK
  <2>3. OwnMaps'
    BY <2>1, <2>2 DEF OwnMaps, NoData
  <2> QED BY <2>1, <2>2, <2>3 DEF OwnInv, InputsAreDependencyResults
<1>2. ASSUME NEW c \in Call, CallerCancels(c) PROVE OwnInv'
  <2>1. /\ parent'[c] = TRUE /\ UNCHANGED <<conf, pc, gor, completed, snap, owner, results, errors>>
        /\ \A e \in Call : e = c
    BY <1>2 DEF CallerCancels, OneExecution, Facts, TypeInv, TypeOK
  <2>2. OwnMaps'
    BY <2>1 DEF Facts, OwnInv, OwnMaps
  <2> QED BY <2>1, <2>2 DEF Facts, OwnInv, InputsAreDependencyResults
<1>3. ASSUME NEW c \in Call, ProcessResult(c) PROVE OwnInv'
  BY <1>3, CountStep
<1>4. ASSUME NEW c \in Call, NEW o, NEW m, Return(c, o, m), pc[c] # "idle" PROVE OwnInv'
  <2>1. /\ pc'[c] = "returned" /\ UNCHANGED <<conf, parent, gor, completed, snap, owner, results, errors>>
        /\ \A e \in Call : e = c
    BY <1>4 DEF Return, OneExecution, Facts, TypeInv, TypeOK
  <2>2. OwnMaps'
    BY <1>4, <2>1 DEF Facts, OwnInv, OwnMaps
  <2> QED BY <2>1, <2>2 DEF Facts, OwnInv, InputsAreDependencyResults
<1>5. ASSUME NEW c \in Call, ObserveDone(c) PROVE OwnInv'
  BY <1>4, <1>5 DEF ObserveDone
<1>6. ASSUME NEW c \in Call, CheckRequired(c) PROVE OwnInv'
  BY <1>4, <1>6 DEF CheckRequired
<1>7. ASSUME NEW c \in Call, NEW a \in API, ReadDeps(c, a) PROVE OwnInv'
  BY <1>7, GoroutineStep DEF ReadDeps, Gor, Ended
<1>8. ASSUME NEW c \in Call, NEW a \in API, NEW end \in {"ok", "failed"}, CallReturns(c, a, end) PROVE OwnInv'
  BY <1>8, GoroutineStep DEF CallReturns, Gor, Ended
<1>9. ASSUME NEW c \in Call, NEW a \in API, Deliver(c, a) PROVE OwnInv'
  <2>1. PICK new \in {"okSent", "failSent"} : gor' = [gor EXCEPT ![c][a] = new]
    <3>1. CASE gor[c][a] = "ok"
      BY <1>9, <3>1 DEF Deliver, Facts, TypeInv, TypeOK
    <3>2. CASE gor[c][a] # "ok"
      BY <1>9, <3>2 DEF Deliver, Facts, TypeInv, TypeOK
    <3> QED BY <3>1, <3>2
  <2>2. /\ gor[c][a] \in {"ok", "failed"}
        /\ UNCHANGED <<conf, pc, parent, ctx, completed, snap, owner, results, errors>>
    BY <1>9 DEF Deliver
  <2> QED BY <2>1, <2>2, GoroutineStep DEF Gor, Ended
<1>10. ASSUME NEW c \in Call, NEW a \in API, Drop(c, a) PROVE OwnInv'
  BY <1>10, GoroutineStep DEF Drop, Gor, Ended
<1>11. CASE UNCHANGED vars
  BY <1>11 DEF vars, Facts, OwnInv, OwnMaps, InputsAreDependencyResults
<1> QED BY <1>1, <1>2, <1>3, <1>5, <1>6, <1>7, <1>8, <1>9, <1>10, <1>11 DEF Next, Terminated

LEMMA OwnInvariant == ASSUME OneExecution PROVE Spec => []OwnInv
<1>1. Init => OwnInv
  BY DEF Init, OwnInv, OwnMaps, InputsAreDependencyResults
<1>2. TypeInv /\ LoopInv /\ DependenciesFirst /\ OwnInv /\ [Next]_vars => OwnInv'
  BY OneExecution, OwnNext DEF Facts
<1> QED BY <1>1, <1>2, TypeInvariant, LoopInvariant, DependencyOrder, PTL DEF Spec

(* What an API is given are the answers of its dependencies, those that    *)
(* answered, in every pipeline of which there is one execution.            *)
THEOREM InputsAreAnswers == ASSUME OneExecution PROVE Spec => []InputsAreDependencyResults
<1>1. OwnInv => InputsAreDependencyResults
  BY DEF OwnInv
<1> QED BY <1>1, OwnInvariant, PTL

-----------------------------------------------------------------------------
(* How API a ended in execution c, for PipelineContract. *)
Status == [c \in Call |-> [a \in API |->
            IF a \notin completed[c] THEN "pending"
            ELSE IF gor[c][a] = "okSent" THEN "ok" ELSE "failed"]]

(* A step that counts nothing is invisible. *)
LEMMA StatusKept ==
    ASSUME Facts, UNCHANGED completed,
           \A c \in Call : \A a \in completed[c] : gor'[c][a] = gor[c][a]
    PROVE  Status' = Status
<1>1. \A c \in Call, a \in API : (IF a \notin completed'[c] THEN "pending"
            ELSE IF gor'[c][a] = "okSent" THEN "ok" ELSE "failed") = Status[c][a]
  BY DEF Status
<1> QED BY <1>1 DEF Status

LEMMA StatusCounts ==
    ASSUME Facts, NEW c \in Call, ProcessResult(c)
    PROVE  \E a \in API, end \in {"ok", "failed"} :
            /\ a \notin completed[c] /\ conf.deps[a] \subseteq completed[c]
            /\ Status' = [Status EXCEPT ![c][a] = end]
<1>1. PICK m \in Message :
        /\ m.name \in API \ completed[c]
        /\ m = Head(chan[c])
        /\ gor[c][m.name] = (IF m.ok THEN "okSent" ELSE "failSent")
        /\ completed' = [completed EXCEPT ![c] = completed[c] \cup {m.name}]
        /\ \A e \in Call, a \in API : gor[e][a] # "idle" => gor'[e][a] = gor[e][a]
        /\ \A e \in Call, a \in API : gor'[e][a] \in {gor[e][a], "spawned"}
  BY ProcessStep DEF Facts
<1>2. PICK end \in {"ok", "failed"} : end = IF m.ok THEN "ok" ELSE "failed"
  OBVIOUS
<1>3. conf.deps[m.name] \subseteq completed[c]
  BY <1>1, Answered
<1>4. /\ completed'[c] = completed[c] \cup {m.name}
      /\ \A e \in Call : e # c => completed'[e] = completed[e]
      /\ \A e \in Call : \A a \in completed[e] : gor'[e][a] = gor[e][a]
      /\ gor'[c][m.name] = gor[c][m.name]
  <2>1. completed \in [Call -> SUBSET API]
    BY DEF Facts, TypeInv, TypeOK
  <2>2. \A e \in Call : \A a \in completed[e] : gor'[e][a] = gor[e][a]
    BY <1>1, Answered
  <2> QED BY <1>1, <2>1, <2>2
<1>5. \A e \in Call, a \in API :
        (IF a \notin completed'[e] THEN "pending"
         ELSE IF gor'[e][a] = "okSent" THEN "ok" ELSE "failed")
        = IF e = c /\ a = m.name THEN end ELSE Status[e][a]
  <2>1. SUFFICES ASSUME NEW e \in Call, NEW a \in API
        PROVE  (IF a \notin completed'[e] THEN "pending"
                ELSE IF gor'[e][a] = "okSent" THEN "ok" ELSE "failed")
               = IF e = c /\ a = m.name THEN end ELSE Status[e][a]
    OBVIOUS
  <2>2. Status[e][a] = IF a \notin completed[e] THEN "pending"
                       ELSE IF gor[e][a] = "okSent" THEN "ok" ELSE "failed"
    BY DEF Status
  <2>3. CASE e = c /\ a = m.name
    BY <1>1, <1>2, <1>4, <2>3
  <2>4. CASE ~(e = c /\ a = m.name)
    BY <1>4, <2>2, <2>4
  <2> QED BY <2>3, <2>4
<1>6. Status' = [e \in Call |-> [a \in API |-> IF e = c /\ a = m.name THEN end ELSE Status[e][a]]]
  BY <1>5 DEF Status
<1>7. Status \in [Call -> [API -> {"pending", "ok", "failed"}]]
  BY DEF Status
<1>8. Status' = [Status EXCEPT ![c][m.name] = end]
  BY <1>6, <1>7
<1> QED BY <1>1, <1>3, <1>8

(* All its APIs counted, an execution misses a required one exactly if     *)
(* that one failed.                                                        *)
LEMMA VerdictAgrees ==
    ASSUME Facts, NEW c \in Call, completed[c] = API, pc[c] # "idle"
    PROVE  RequiredMissing(c) <=> \E a \in conf.required : Status[c][a] = "failed"
<1>1. conf.required \subseteq API /\ owner = c /\ c # Absent
  BY PipelineAssumption DEF Facts, TypeInv, TypeOK, OwnInv, OwnMaps
<1>2. ASSUME NEW a \in API
      PROVE  a \in errors[c] \/ results[c][a] = Absent <=> Status[c][a] = "failed"
  <2>1. /\ results[c][a] = IF gor[c][a] = "okSent" THEN c ELSE Absent
        /\ a \in errors[c] <=> gor[c][a] = "failSent"
    BY DEF Facts, OwnInv, OwnMaps
  <2>2. Status[c][a] = IF gor[c][a] = "okSent" THEN "ok" ELSE "failed"
    BY DEF Status
  <2> QED BY <1>1, <2>1, <2>2
<1> QED BY <1>1, <1>2 DEF RequiredMissing

LEMMA ContractStep ==
    ASSUME OneExecution, Facts, [Next]_vars
    PROVE  [Contract!CNext]_(Contract!cvars)
<1> DEFINE Same == UNCHANGED <<conf, Status, parent, out>>
           Finish(c) == \E a \in API, end \in {"ok", "failed"} :
                /\ out[c] = "none" /\ Status[c][a] = "pending"
                /\ conf.deps[a] \subseteq {b \in API : Status[c][b] # "pending"}
                /\ Status' = [Status EXCEPT ![c][a] = end]
                /\ UNCHANGED <<conf, parent, out>>
           Ask(c) == parent' = [parent EXCEPT ![c] = TRUE] /\ UNCHANGED <<conf, Status, out>>
           Failed(c) == \E a \in conf.required : Status[c][a] = "failed"
           Verdict(c) ==
                /\ out[c] = "none"
                /\ \/ /\ {b \in API : Status[c][b] # "pending"} = API
                      /\ out' = [out EXCEPT ![c] = IF Failed(c) THEN "422" ELSE "ok"]
                   \/ (parent[c] \/ Failed(c)) /\ out' = [out EXCEPT ![c] = "cancelled"]
                /\ UNCHANGED <<conf, Status, parent>>
<1>0. \A c \in Call : {b \in API : Status[c][b] # "pending"} = completed[c]
  BY DEF Status, Facts, TypeInv, TypeOK
<1>a. Same => [Contract!CNext]_(Contract!cvars)
  BY DEF Status, Contract!cvars
<1>b. ASSUME NEW c \in Call, Finish(c) \/ Ask(c) \/ Verdict(c)
      PROVE  Contract!CNext
  BY <1>b DEF Status, Contract!CNext, Contract!FinishAPI, Contract!AskToCancel, Contract!Conclude,
     Contract!Finished, Contract!RequiredFailed
<1>1. ASSUME UNCHANGED <<conf, completed, parent, out>>,
             \A c \in Call : \A a \in completed[c] : gor'[c][a] = gor[c][a]
      PROVE  Same
  BY <1>1, StatusKept
<1>2. ASSUME NEW c \in Call, Begin(c) PROVE Same
  <2>1. UNCHANGED <<conf, completed, parent, out>> /\ \A e \in Call : e = c
        /\ completed[c] = {}
    BY <1>2, Answered DEF Begin, OneExecution
  <2> QED BY <1>1, <2>1
<1>3. ASSUME NEW c \in Call, CallerCancels(c) PROVE Ask(c)
  <2>1. Status' = Status
    BY <1>3, StatusKept DEF CallerCancels
  <2> QED BY <1>3, <2>1 DEF CallerCancels
<1>4. ASSUME NEW c \in Call, ProcessResult(c) PROVE Finish(c)
  <2>1. PICK a \in API, end \in {"ok", "failed"} :
            /\ a \notin completed[c] /\ conf.deps[a] \subseteq completed[c]
            /\ Status' = [Status EXCEPT ![c][a] = end]
    BY <1>4, StatusCounts
  <2>2. out[c] = "none" /\ UNCHANGED <<conf, parent, out>>
    BY <1>4 DEF ProcessResult, Facts, LoopInv, Counted
  <2>3. Status[c][a] = "pending"
    BY <2>1 DEF Status
  <2> QED BY <1>0, <2>1, <2>2, <2>3
<1>5. ASSUME NEW c \in Call, NEW o, NEW m, Return(c, o, m)
      PROVE  UNCHANGED <<conf, Status, parent>> /\ out' = [out EXCEPT ![c] = o]
  <2>1. Status' = Status
    BY <1>5, StatusKept DEF Return
  <2> QED BY <1>5, <2>1 DEF Return
<1>6. ASSUME NEW c \in Call, ObserveDone(c) PROVE Verdict(c)
  <2>1. out[c] = "none"
    BY <1>6 DEF ObserveDone, Facts, LoopInv, Counted
  <2>2. parent[c] \/ \E a \in conf.required \cap completed[c] : gor[c][a] = "failSent"
    BY <1>6 DEF ObserveDone, Facts, OwnInv, OwnMaps
  <2>3. ASSUME NEW a \in conf.required \cap completed[c], gor[c][a] = "failSent"
        PROVE  Status[c][a] = "failed"
    BY <2>3, Answered DEF Status
  <2> QED BY <1>5, <1>6, <2>1, <2>2, <2>3 DEF ObserveDone
<1>7. ASSUME NEW c \in Call, CheckRequired(c) PROVE Verdict(c)
  <2>1. out[c] = "none" /\ completed[c] = API /\ pc[c] # "idle"
    BY <1>7, AllCounted DEF CheckRequired, Facts, TypeInv, LoopInv, Counted
  <2>2. RequiredMissing(c) <=> Failed(c)
    BY <2>1, VerdictAgrees
  <2>3. /\ out' = [out EXCEPT ![c] = IF Failed(c) THEN "422" ELSE "ok"]
        /\ UNCHANGED <<conf, Status, parent>>
    BY <1>5, <1>7, <2>2 DEF CheckRequired
  <2> QED BY <1>0, <2>1, <2>3
<1>8. ASSUME NEW c \in Call, NEW a \in API,
             ReadDeps(c, a) \/ (\E end \in {"ok", "failed"} : CallReturns(c, a, end))
                \/ Deliver(c, a) \/ Drop(c, a)
      PROVE  Same
  <2>1. PICK new : gor' = [gor EXCEPT ![c][a] = new]
    <3>1. CASE Deliver(c, a)
      <4>1. CASE gor[c][a] = "ok"
        BY <3>1, <4>1 DEF Deliver, Facts, TypeInv, TypeOK
      <4>2. CASE gor[c][a] # "ok"
        BY <3>1, <4>2 DEF Deliver, Facts, TypeInv, TypeOK
      <4> QED BY <4>1, <4>2
    <3> QED BY <1>8, <3>1 DEF ReadDeps, CallReturns, Drop
  <2>2. gor[c][a] \notin {"okSent", "failSent"} /\ UNCHANGED <<conf, completed, parent, out>>
    BY <1>8 DEF ReadDeps, CallReturns, Deliver, Drop
  <2>3. \A e \in Call : \A b \in completed[e] : gor'[e][b] = gor[e][b]
    BY <2>1, <2>2, Answered DEF Facts, TypeInv, TypeOK
  <2> QED BY <1>1, <2>2, <2>3
<1>9. ASSUME UNCHANGED vars PROVE Same
  <2>1. UNCHANGED <<conf, completed, parent, out>> /\ gor' = gor
    BY <1>9 DEF vars
  <2> QED BY <1>1, <2>1
<1> HIDE DEF Same, Finish, Ask, Verdict
<1> QED BY <1>a, <1>b, <1>2, <1>3, <1>4, <1>6, <1>7, <1>8, <1>9 DEF Next, Terminated

(* tools/api keeps the promise of PipelineContract: an execution that has  *)
(* the pipeline for itself finishes each API after its dependencies, and   *)
(* returns the verdict that their answers and its caller give.             *)
THEOREM OneExecutionKeepsContract == ASSUME OneExecution PROVE Spec => ImplementsContract
<1>1. Init => Contract!CInit
  BY DEF Init, Contract!CInit
<1>2. TypeInv /\ LoopInv /\ DependenciesFirst /\ OwnInv /\ [Next]_vars => [Contract!CNext]_(Contract!cvars)
  BY OneExecution, ContractStep DEF Facts
<1> QED BY <1>1, <1>2, TypeInvariant, LoopInvariant, DependencyOrder, OwnInvariant, PTL
        DEF Spec, ImplementsContract, Contract!CSpec
=============================================================================
