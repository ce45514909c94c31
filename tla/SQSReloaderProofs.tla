------------------------- MODULE SQSReloaderProofs --------------------------
(***************************************************************************)
(* What holds of the hot reload loop whatever the queue delivers, how      *)
(* often and in which order: the engine under it keeps all it promises, it *)
(* never goes back to an older configuration, and an announced change is   *)
(* never dropped in silence.                                               *)
(***************************************************************************)
EXTENDS SQSReloader, ServiceEngineProofs

-----------------------------------------------------------------------------
(* The loop and its queue move the engine only as the engine moves.        *)
LEMMA LoopStepIsEngineStep == [LoopNext]_allVars => [Next]_vars
<1> SUFFICES ASSUME [LoopNext]_allVars PROVE [Next]_vars
  OBVIOUS
<1>1. CASE UNCHANGED <<rest, graph>>
  <2>1. CASE UNCHANGED engineVars
    BY <1>1, <2>1 DEF vars
  <2>2. CASE ~UNCHANGED engineVars /\ LoopNext
    <3>1. \/ \E b \in Config : Publish(b)
          \/ \E r \in Reloader : LoadOK(r) \/ ReloadStep(r)
          \/ \E x \in Graph : GraphStep(x)
      BY <2>2 DEF LoopNext, LoopStep, CallReload, LoadFails
    <3> QED BY <1>1, <3>1 DEF Next
  <2> QED BY <2>1, <2>2 DEF allVars, vars
<1>2. CASE ~UNCHANGED <<rest, graph>>
  <2>1. \E x \in Graph : GraphStep(x)
    BY <1>2 DEF LoopNext, allVars, vars
  <2> QED BY <2>1 DEF Next
<1> QED BY <1>1, <1>2

LEMMA EngineUnderLoop == LoopSpec => []IInv
<1>1. LoopInit => Init
  BY DEF LoopInit
<1> QED BY <1>1, LoopStepIsEngineStep, InitIInv, NextIInv, PTL DEF LoopSpec

(* Driven by the loop the engine still publishes whole generations, closes *)
(* no stopChan twice and leaves no refresh loop behind but after failures. *)
THEOREM LoopKeepsEngine ==
    LoopSpec => [](PublishedIsComplete /\ NoDoubleStop /\ OnlyFailuresLeak)
BY EngineKept, EngineUnderLoop, PTL

-----------------------------------------------------------------------------
(* A Reload runs only while the loop waits for it, and it runs alone.      *)
OneReload ==
    /\ loop # "reloading" => \A r \in Reloader : reload[r].pc = "idle"
    /\ \A r, s \in Reloader : reload[r].pc # "idle" /\ reload[s].pc # "idle" => r = s

(* What was loaded was current once; a Reload that is not published yet    *)
(* read a version that is not older than the published one.                *)
Versions ==
    /\ \A n \in Gen : ver[n] <= source.ver
    /\ \A r \in Reloader :
        reload[r].pc \in Early => ver[reload[r].gen] >= PublishedVersion

(* An announced change is in the queue, in the hand of the loop, read by   *)
(* the Reload in progress, published or wasted by a failure: the deletion  *)
(* of its message, whenever it comes, loses nothing more.                  *)
NeverDropped ==
    \A v \in announced :
        \/ v \in queue
        \/ loop = "call" /\ handled = v
        \/ \E r \in Reloader : reload[r].pc \in Early /\ ver[reload[r].gen] >= v
        \/ PublishedVersion >= v
        \/ \E w \in Wasted : w >= v

Announcements ==
    /\ announced \subseteq 0..source.ver
    /\ lost \subseteq Nat

LoopInv == OneReload /\ Versions /\ Announcements /\ NeverDropped

LEMMA LoopInvInit == LoopInit => LoopInv
<1> SUFFICES ASSUME LoopInit PROVE LoopInv
  OBVIOUS
<1>1. Init /\ announced = {} /\ lost = {}
  BY DEF LoopInit
<1>2. \A r \in Reloader : reload[r].pc = "idle"
  BY <1>1 DEF Init, NoReload
<1>3. source.ver = 0 /\ \A n \in Gen : ver[n] = 0
  BY <1>1 DEF Init
<1>4. OneReload
  BY <1>2 DEF OneReload
<1>5. Versions
  BY <1>2, <1>3 DEF Versions, Early
<1> QED BY <1>1, <1>4, <1>5 DEF LoopInv, Announcements, NeverDropped

(* Versions and generations are numbers. *)
LEMMA VersionNumbers ==
    ASSUME IInv
    PROVE  /\ source.ver \in Nat /\ \A n \in Gen : ver[n] \in Nat
           /\ loads \in Nat /\ engine.cfg \in Gen /\ engine.cfg # loads + 1
           /\ \A n \in failed : n \in Gen /\ n # loads + 1
           /\ \A r \in Reloader : reload[r] \in Reload /\ reload[r].gen \in Gen
           /\ \A r \in Reloader : reload[r].pc # "idle" => reload[r].gen # loads + 1
<1>1. TypeOK /\ Generations
  BY DEF IInv
<1>2. loads \in Nat /\ \A n \in 0..loads : n # loads + 1
  BY <1>1, EngineAssumption DEF TypeOK, Gen
<1>3. engine.cfg \in Gen /\ \A r \in Reloader : reload[r] \in Reload
  BY <1>1, EngineTypes
<1>4. source.ver \in Nat /\ \A n \in Gen : ver[n] \in Nat
  BY <1>1, EngineAssumption DEF TypeOK
<1>5. \A r \in Reloader : reload[r].gen \in Gen
  BY <1>3 DEF Reload
<1> QED BY <1>1, <1>2, <1>3, <1>4, <1>5 DEF TypeOK, Generations

(* A step of a Reload: on the way to the lock, an error return, the swap   *)
(* of the fields, or the clean up after it.                                *)
Moved(r) ==
    /\ UNCHANGED <<source, loads, ver>>
    /\ reload[r].pc # "idle"
    /\ \A s \in Reloader : s # r => reload'[s] = reload[s]
    /\ failed \subseteq failed'
    /\ \/ /\ engine'.cfg = engine.cfg
          /\ reload'[r].pc \in Early =>
                 reload[r].pc \in Early /\ reload'[r].gen = reload[r].gen
          /\ reload[r].pc \in Early =>
                 \/ reload'[r].pc \in Early /\ reload'[r].gen = reload[r].gen
                 \/ reload[r].gen \in failed'
       \/ /\ reload[r].pc = "lock" /\ reload'[r].pc = "stopping"
          /\ engine'.cfg = reload[r].gen

LEMMA ReloadMoves == ASSUME IInv, NEW r \in Reloader, ReloadStep(r) PROVE Moved(r)
<1>1. reload \in [Reloader -> Reload] /\ reload[r] \in Reload
  BY VersionNumbers DEF IInv, TypeOK
<1>2. ASSUME NEW mw \in MW, StartManager(r, mw)
      PROVE  /\ UNCHANGED <<source, loads, ver, engine, failed>> /\ reload[r].pc \in Early
             /\ \A s \in Reloader : s # r => reload'[s] = reload[s]
             /\ reload'[r].pc = reload[r].pc /\ reload'[r].gen = reload[r].gen
  BY <1>1, <1>2 DEF StartManager, Early, Reload
<1>3. ASSUME Fail(r)
      PROVE  /\ UNCHANGED <<source, loads, ver, engine>>
             /\ \A s \in Reloader : s # r => reload'[s] = reload[s]
             /\ reload'[r].pc = "idle" /\ failed' = failed \cup {reload[r].gen}
  BY <1>1, <1>3 DEF Fail, NoReload
<1>4. ASSUME NEW pc \in Early, reload[r].pc \in Early,
             reload' = [reload EXCEPT ![r].pc = pc],
             UNCHANGED <<source, loads, body, ver, engine, failed, running, stopped>>
      PROVE  /\ UNCHANGED <<source, loads, ver, engine, failed>>
             /\ \A s \in Reloader : s # r => reload'[s] = reload[s]
             /\ reload'[r].pc \in Early /\ reload'[r].gen = reload[r].gen
  BY <1>1, <1>4 DEF Reload
<1>5. CASE Swap(r)
  BY <1>1, <1>5 DEF Swap, NewFields, Reload, Moved, Early
<1>6. ASSUME NEW m \in Manager, StopOld(r, m)
      PROVE  /\ UNCHANGED <<source, loads, ver, engine, failed>>
             /\ \A s \in Reloader : s # r => reload'[s] = reload[s]
             /\ reload[r].pc = "stopping" /\ reload'[r].pc = "stopping"
  BY <1>1, <1>6 DEF StopOld, Reload
<1>7. ASSUME ReloadReturns(r)
      PROVE  /\ UNCHANGED <<source, loads, ver, engine, failed>>
             /\ \A s \in Reloader : s # r => reload'[s] = reload[s]
             /\ reload[r].pc = "stopping" /\ reload'[r].pc = "idle"
  BY <1>1, <1>7 DEF ReloadReturns, NoReload
<1>8. CASE \E mw \in MW : StartManager(r, mw)
  BY <1>2, <1>8 DEF Early, Moved
<1>9. CASE Fail(r) /\ reload[r].pc \in Early
  BY <1>3, <1>9 DEF Early, Moved
<1>10. CASE ManagersStarted(r) \/ (BuildGraphQL(r) /\ ~Fail(r))
  <2>1. PICK pc \in Early : /\ reload[r].pc \in Early
                            /\ reload' = [reload EXCEPT ![r].pc = pc]
                            /\ UNCHANGED <<source, loads, body, ver, engine, failed, running, stopped>>
    BY <1>10 DEF ManagersStarted, BuildGraphQL, Early
  <2> QED BY <1>4, <2>1 DEF Early, Moved
<1>11. CASE (\E m \in Manager : StopOld(r, m)) \/ ReloadReturns(r)
  BY <1>6, <1>7, <1>11 DEF Early, Moved
<1>12. StartFails(r) \/ BuildGraphQL(r) => reload[r].pc \in Early
  BY DEF StartFails, BuildGraphQL, Early
<1>13. StartFails(r) => Fail(r)
  BY DEF StartFails
<1> QED BY <1>5, <1>8, <1>9, <1>10, <1>11, <1>12, <1>13, Zenon DEF ReloadStep

(* What the loop, its queue and the requests do while the engine keeps its *)
(* fields.                                                                 *)
LEMMA LoopMoves ==
    ASSUME IInv, [LoopNext]_allVars, UNCHANGED engineVars
    PROVE  /\ loop = "reloading" /\ loop' # "reloading" => \A r \in Reloader : reload[r].pc = "idle"
           /\ lost \subseteq lost' /\ lost' \subseteq lost \cup {source.ver}
           /\ announced' \subseteq announced \cup 0..source.ver
           /\ \A v \in announced' \ announced : v \in queue'
           /\ \A v \in queue \ queue' : loop' = "call" /\ handled' = v
           /\ loop = "call" /\ loop' # "call" => source.ver \in lost'
           /\ loop = "call" /\ loop' = "call" => handled' = handled
<1>1. CASE SeeCancel \/ ReceiveFails \/ Wake \/ Cancel \/ UNCHANGED loopVars
  BY <1>1 DEF SeeCancel, ReceiveFails, Wake, Cancel, loopVars
<1>2. CASE LoadFails
  BY <1>2 DEF LoadFails
<1>3. CASE Delete
  BY <1>3 DEF Delete, ReloadReturned
<1>4. CASE \E v \in Version : Receive(v)
  BY <1>4 DEF Receive
<1>5. CASE \E v \in Version : Announce(v) \/ Redeliver(v)
  BY <1>5 DEF Announce, Redeliver, Version
<1>6. ~\E r \in Reloader : CallReload(r)
  BY VersionNumbers DEF CallReload, LoadOK, engineVars
<1> QED
  BY <1>1, <1>2, <1>3, <1>4, <1>5, <1>6 DEF LoopNext, LoopStep, allVars

LEMMA LoopInvNext == IInv /\ LoopInv /\ [LoopNext]_allVars => LoopInv' /\ PublishedVersion' >= PublishedVersion
<1> SUFFICES ASSUME IInv, LoopInv, [LoopNext]_allVars
             PROVE  LoopInv' /\ PublishedVersion' >= PublishedVersion
  OBVIOUS
<1>n. /\ source.ver \in Nat /\ \A n \in Gen : ver[n] \in Nat
      /\ loads \in Nat /\ engine.cfg \in Gen /\ engine.cfg # loads + 1
      /\ \A n \in failed : n \in Gen /\ n # loads + 1
      /\ \A r \in Reloader : reload[r] \in Reload /\ reload[r].gen \in Gen
      /\ \A r \in Reloader : reload[r].pc # "idle" => reload[r].gen # loads + 1
  BY VersionNumbers
<1>1. CASE UNCHANGED engineVars
  <2>1. /\ loop = "reloading" /\ loop' # "reloading" => \A r \in Reloader : reload[r].pc = "idle"
        /\ lost \subseteq lost' /\ lost' \subseteq lost \cup {source.ver}
        /\ announced' \subseteq announced \cup 0..source.ver
        /\ \A v \in announced' \ announced : v \in queue'
        /\ \A v \in queue \ queue' : loop' = "call" /\ handled' = v
        /\ loop = "call" /\ loop' # "call" => source.ver \in lost'
        /\ loop = "call" /\ loop' = "call" => handled' = handled
    BY <1>1, LoopMoves
  <2>2. UNCHANGED <<source, ver, engine, reload, failed>>
    BY <1>1 DEF engineVars
  <2>3. OneReload'
    BY <2>1, <2>2 DEF LoopInv, OneReload
  <2>4. Versions' /\ PublishedVersion' = PublishedVersion
    BY <2>2 DEF LoopInv, Versions, PublishedVersion
  <2>5. Announcements'
    BY <2>1, <2>2, <1>n DEF LoopInv, Announcements
  <2>6. NeverDropped'
    <3>1. Wasted \subseteq Wasted'
      BY <2>1, <2>2 DEF Wasted
    <3>2. ASSUME NEW v \in announced, v \notin announced' \/ v \notin queue',
                 ~(loop' = "call" /\ handled' = v), loop = "call" /\ handled = v
          PROVE  \E w \in Wasted' : w >= v
      <4>1. source.ver \in lost' /\ source.ver >= v
        BY <2>1, <3>2, <1>n DEF LoopInv, Announcements
      <4> QED BY <4>1 DEF Wasted
    <3> QED BY <2>1, <2>2, <2>4, <3>1, <3>2 DEF LoopInv, NeverDropped
  <2> QED BY <2>3, <2>4, <2>5, <2>6, <1>n DEF LoopInv, PublishedVersion
<1>2. ASSUME NEW r \in Reloader, CallReload(r)
      PROVE  LoopInv' /\ PublishedVersion' >= PublishedVersion
  <2>1. /\ UNCHANGED <<source, engine, failed, lost, announced, queue>>
        /\ \A n \in Gen : n # loads + 1 => ver'[n] = ver[n]
        /\ loads + 1 \in Gen => ver'[loads + 1] = source.ver
        /\ \A s \in Reloader : s # r => reload'[s] = reload[s]
        /\ reload'[r].pc = "managers" /\ reload'[r].gen = loads + 1
        /\ loop = "call" /\ loop' = "reloading"
    BY <1>2 DEF CallReload, LoadOK, IInv, TypeOK
  <2>2. loads + 1 \in Gen
    BY <1>2, <1>n, EngineAssumption DEF CallReload, LoadOK, Gen
  <2>3. \A s \in Reloader : reload[s].pc = "idle"
    BY <2>1 DEF LoopInv, OneReload
  <2>4. PublishedVersion' = PublishedVersion /\ PublishedVersion \in Nat
    BY <2>1, <1>n DEF PublishedVersion
  <2>5. OneReload'
    BY <2>1, <2>3 DEF OneReload
  <2>6. Versions'
    BY <2>1, <2>2, <2>3, <2>4, <1>n DEF LoopInv, Versions, Early, PublishedVersion
  <2>7. Announcements'
    BY <2>1 DEF LoopInv, Announcements
  <2>8. NeverDropped'
    <3>1. Wasted' = Wasted
      BY <2>1, <1>n DEF Wasted
    <3>2. \A v \in announced : source.ver >= v
      <4>1. source.ver \in Nat /\ announced \subseteq 0..source.ver
        BY <1>n DEF LoopInv, Announcements
      <4> QED BY <4>1
    <3> QED BY <2>1, <2>2, <2>3, <2>4, <3>1, <3>2 DEF LoopInv, NeverDropped, Early
  <2> QED BY <2>4, <2>5, <2>6, <2>7, <2>8 DEF LoopInv
<1>3. ASSUME NEW b \in Config, Publish(b), UNCHANGED loopVars
      PROVE  LoopInv' /\ PublishedVersion' >= PublishedVersion
  <2>1. /\ UNCHANGED <<ver, engine, reload, failed, loop, announced, queue, handled, lost>>
        /\ source'.ver = source.ver + 1
    BY <1>3 DEF Publish, loopVars
  <2>2. PublishedVersion' = PublishedVersion /\ PublishedVersion \in Nat /\ Wasted' = Wasted
    BY <2>1, <1>n DEF PublishedVersion, Wasted
  <2>3. OneReload' /\ NeverDropped'
    BY <2>1, <2>2 DEF LoopInv, OneReload, NeverDropped
  <2>4. Versions' /\ Announcements'
    BY <2>1, <2>2, <1>n DEF LoopInv, Versions, Announcements
  <2> QED BY <2>2, <2>3, <2>4 DEF LoopInv
<1>4. ASSUME NEW r \in Reloader, ReloadStep(r), UNCHANGED loopVars
      PROVE  LoopInv' /\ PublishedVersion' >= PublishedVersion
  <2>1. Moved(r) /\ UNCHANGED <<loop, announced, queue, handled, lost>>
    BY <1>4, ReloadMoves DEF loopVars
  <2>2. \A s \in Reloader : s # r => reload[s].pc = "idle" /\ reload'[s].pc = "idle"
    BY <2>1 DEF LoopInv, OneReload, Moved
  <2>3. OneReload'
    BY <2>1, <2>2 DEF LoopInv, OneReload, Moved
  <2>4. PublishedVersion \in Nat /\ PublishedVersion' \in Nat /\ PublishedVersion' >= PublishedVersion
    BY <2>1, <1>n DEF Moved, LoopInv, Versions, PublishedVersion, Early
  <2>5. Versions'
    BY <2>1, <2>2, <2>4, <1>n DEF Moved, LoopInv, Versions, PublishedVersion, Early
  <2>6. Announcements'
    BY <2>1 DEF Moved, LoopInv, Announcements
  <2>7. NeverDropped'
    <3>1. Wasted \subseteq Wasted'
      BY <2>1 DEF Moved, Wasted
    <3>2. ASSUME NEW v \in announced, NEW s \in Reloader,
                 reload[s].pc \in Early, ver[reload[s].gen] >= v
          PROVE  \/ \E q \in Reloader : reload'[q].pc \in Early /\ ver'[reload'[q].gen] >= v
                 \/ PublishedVersion' >= v
                 \/ \E w \in Wasted' : w >= v
      <4>1. s = r
        BY <2>2, <3>2 DEF Early
      <4>2. CASE reload[r].gen \in failed'
        BY <2>1, <3>2, <4>1, <4>2 DEF Moved, Wasted
      <4>3. CASE reload'[r].pc \in Early /\ reload'[r].gen = reload[r].gen
        BY <2>1, <3>2, <4>1, <4>3 DEF Moved
      <4>4. CASE engine'.cfg = reload[r].gen
        BY <2>1, <3>2, <4>1, <4>4 DEF Moved, PublishedVersion
      <4> QED BY <2>1, <3>2, <4>1, <4>2, <4>3, <4>4 DEF Moved
    <3>3. \A v \in announced : v \in Nat
      BY <1>n DEF LoopInv, Announcements
    <3> QED BY <2>1, <2>4, <3>1, <3>2, <3>3 DEF LoopInv, NeverDropped
  <2> QED BY <2>3, <2>4, <2>5, <2>6, <2>7 DEF LoopInv
<1>5. ASSUME NEW x \in Graph, GraphStep(x) PROVE UNCHANGED engineVars
  BY <1>5, GraphType DEF IInv
<1> QED
  BY <1>1, <1>2, <1>3, <1>4, <1>5 DEF LoopNext, LoopStep, LoadFails, allVars, vars

LEMMA LoopInvariant == LoopSpec => [](IInv /\ LoopInv)
BY EngineUnderLoop, LoopInvInit, LoopInvNext, PTL DEF LoopSpec

(* Whatever the order and the number of deliveries, no step of the loop,   *)
(* of a Reload it called or of the queue publishes an older configuration. *)
THEOREM NeverOlder == LoopSpec => VersionNeverRegresses
BY LoopInvariant, LoopInvNext, PTL DEF LoopSpec, VersionNeverRegresses

(* The safety half of AnnouncedIsServed: a change that was announced waits *)
(* in the queue, is being loaded, is published, or was wasted by a Reload  *)
(* that failed with it in hand; the best effort deletion loses no other.   *)
THEOREM NoChangeDropped == LoopSpec => []NeverDropped
BY LoopInvariant, PTL DEF LoopInv

(* Between two messages the only refresh loops are those of the published  *)
(* generation and those that a failed Reload left behind.                  *)
QuietLoopOwnsManagers ==
    loop # "reloading" => \A m \in running : m[1] = engine.cfg \/ m[1] \in failed

THEOREM NoManagerLeftBehind == LoopSpec => []QuietLoopOwnsManagers
<1>1. IInv /\ LoopInv => QuietLoopOwnsManagers
  BY DEF IInv, Kept, Owned, LoopInv, OneReload, QuietLoopOwnsManagers, Early
<1> QED BY <1>1, LoopInvariant, PTL
=============================================================================
