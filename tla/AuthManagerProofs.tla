------------------------- MODULE AuthManagerProofs --------------------------
(***************************************************************************)
(* What holds of a token manager for all lifetimes and waits: types, the   *)
(* margin that keeps Get from an expired token, and the race of Stop with  *)
(* the timer.                                                              *)
(***************************************************************************)
EXTENDS AuthManager, TLAPS

(* A loop runs only after a first token; in the select and in a fetch, the *)
(* token is left with what the timer has left and the fifth kept back,     *)
(* less its own slow answer and what the fetch has taken, unless a refresh *)
(* failed not long ago.                                                    *)
Fifth == held \div 5
Margin ==
    /\ loop \in {"new", "starting", "failed"} => ~initialized
    /\ loop = "wait" =>
        \/ left = Unknown \/ left + FetchTimeout >= timer + Fifth
        \/ sinceFail + timer <= RetryWait
    /\ loop = "fetch" =>
        \/ left = Unknown \/ left + fetchAge + FetchTimeout >= Fifth
        \/ sinceFail <= RetryWait + fetchAge

(* After the fetch that Stop lost the race to, a timer that is not ready   *)
(* waits in a select that is.                                              *)
LastFetch ==
    /\ late # 0 => stopped /\ late = 1
    /\ late # 0 => loop \in {"fetch", "ended"} \/ (loop = "wait" /\ timer # 0)

(* The waits are positive and leave a fifth of the life of the token.      *)
LEMMA Waits ==
    ASSUME NEW t \in TTLs
    PROVE  /\ calculateWait(t) \in Nat \ {0}
           /\ t \div 5 \in Nat
           /\ t # 0 => calculateWait(t) + t \div 5 = t
<1>1. t \in Nat /\ t % 5 = 0 /\ FallbackWait \in Nat \ {0}
  BY ManagerAssumption
<1>2. CASE t = 0
  BY <1>1, <1>2 DEF calculateWait
<1>3. CASE t # 0
  <2>1. calculateWait(t) = (t * 4) \div 5
    BY <1>3 DEF calculateWait
  <2>2. t \div 5 \in Nat /\ t = 5 * (t \div 5)
    BY <1>1
  <2>3. (t * 4) \div 5 = 4 * (t \div 5)
    BY <1>1, <2>2
  <2> QED BY <1>1, <1>3, <2>1, <2>2, <2>3
<1> QED BY <1>2, <1>3

(* The life that is left when the answer arrives is at most the whole, and *)
(* at most one slow answer short of it.                                    *)
LEMMA Life ==
    ASSUME NEW t \in TTLs, NEW delay \in 0..FetchTimeout
    PROVE  \/ LifeLeft(t, delay) = Unknown
           \/ /\ LifeLeft(t, delay) \in Int
              /\ LeftFloor <= LifeLeft(t, delay)
              /\ LifeLeft(t, delay) <= t
              /\ LifeLeft(t, delay) + FetchTimeout >= calculateWait(t) + t \div 5
<1>1. t \in Nat /\ FetchTimeout \in Nat \ {0}
  BY ManagerAssumption
<1>2. CASE t = 0
  BY <1>2 DEF LifeLeft
<1>3. CASE t # 0
  <2>1. LifeLeft(t, delay) = t - delay
    BY <1>3 DEF LifeLeft
  <2> QED BY <1>1, <1>3, <2>1, Waits DEF LeftFloor
<1> QED BY <1>2, <1>3

LEMMA InitType == Init => TypeOK
<1> SUFFICES ASSUME Init PROVE TypeOK
  OBVIOUS
<1>1. RetryWait \in Nat /\ FetchTimeout \in Nat
  BY ManagerAssumption
<1>2. \E w \in {RetryWait} \cup {calculateWait(t) : t \in TTLs} : timer <= w
  BY <1>1 DEF Init
<1>3. held \in TTLs \cup {0} /\ left \in Int /\ LeftFloor <= left /\ left <= held
  BY <1>1 DEF Init, LeftFloor
<1>4. 0 \in 0..FetchTimeout /\ FailCap \in 0..FailCap /\ 0 \in 0..LateCap
  BY <1>1 DEF FailCap, LateCap
<1> QED BY <1>2, <1>3, <1>4 DEF Init, TypeOK, Loop

LEMMA NextType == TypeOK /\ [Next]_vars => TypeOK'
<1> SUFFICES ASSUME TypeOK, [Next]_vars PROVE TypeOK'
  OBVIOUS
<1> USE ManagerAssumption
<1>1. CASE Start
  BY <1>1 DEF Start, TypeOK, Loop
<1>2. ASSUME NEW t \in TTLs, NEW d \in 0..FetchTimeout, FetchOK(t, d) PROVE TypeOK'
  <2>1. calculateWait(t) \in Nat
    BY Waits
  <2>2. timer' = calculateWait(t) /\ left' = LifeLeft(t, d) /\ loop' = "wait" /\ initialized' = TRUE
    BY <1>2 DEF FetchOK
  <2>3. timer' \in Nat /\ \E w \in {RetryWait} \cup {calculateWait(u) : u \in TTLs} : timer' <= w
    BY <2>1, <2>2
  <2>4. /\ held' \in TTLs \cup {0}
        /\ left' \in Int \cup {Unknown}
        /\ left' # Unknown => LeftFloor <= left' /\ left' <= held'
    <3>1. held' = t
      BY <1>2 DEF FetchOK
    <3> QED BY <2>2, <3>1, Life
  <2> QED BY <1>2, <2>2, <2>3, <2>4 DEF FetchOK, TypeOK, Loop
<1>3. CASE StartFails
  BY <1>3 DEF StartFails, TypeOK, Loop
<1>4. CASE RefreshFails
  BY <1>4 DEF RefreshFails, TypeOK, Loop, FailCap
<1>5. CASE TimerFires
  BY <1>5 DEF TimerFires, TypeOK, Loop, LateCap
<1>6. CASE SeeStop
  BY <1>6 DEF SeeStop, TypeOK, Loop
<1>7. CASE Stop
  BY <1>7 DEF Stop, TypeOK
<1>8. CASE Tick
  <2>1. timer' \in Nat /\ timer' <= timer
    BY <1>8 DEF Tick, Less, TypeOK
  <2>2. PICK w \in {RetryWait} \cup {calculateWait(t) : t \in TTLs} : timer <= w
    BY DEF TypeOK
  <2>3. w \in Nat
    BY <2>2, Waits
  <2>4. left' \in Int \cup {Unknown} /\ (left' # Unknown => LeftFloor <= left' /\ left' <= held')
    <3>1. CASE left = Unknown
      BY <1>8, <3>1 DEF Tick, Less
    <3>2. CASE left # Unknown
      <4>1. left \in Int /\ LeftFloor \in Int /\ LeftFloor <= left /\ left <= held /\ held \in Nat
        BY <3>2 DEF TypeOK, LeftFloor
      <4>2. held' = held /\ left' = IF left > LeftFloor THEN left - 1 ELSE left
        BY <1>8, <4>1 DEF Tick, Less
      <4> QED BY <4>1, <4>2
    <3> QED BY <3>1, <3>2
  <2>5. timer' <= w
    BY <2>1, <2>2, <2>3 DEF TypeOK
  <2>6. fetchAge' \in 0..FetchTimeout /\ sinceFail' \in 0..FailCap
    BY <1>8 DEF Tick, TypeOK, Fetching, FailCap
  <2> QED BY <1>8, <2>1, <2>4, <2>5, <2>6 DEF Tick, TypeOK
<1>9. CASE UNCHANGED vars
  BY <1>9 DEF vars, TypeOK
<1> QED
  BY <1>1, <1>2, <1>3, <1>4, <1>5, <1>6, <1>7, <1>8, <1>9 DEF Next, FetchEnds

(* For all lifetimes and waits, every variable keeps its type: the timer   *)
(* is never above a wait, a token never lives longer than it was given.    *)
THEOREM TypeCorrect == Spec => []TypeOK
BY InitType, NextType, PTL DEF Spec

LEMMA TypeInvariant == Spec => []TypeOK
BY InitType, NextType, PTL DEF Spec

(* One tick: what the failure ages by, the timer loses. *)
LEMMA Sum ==
    \A s, t, u, v, w \in Nat : s <= u + 1 /\ t + 1 = v /\ u + v <= w => s + t <= w
OBVIOUS

LEMMA MarginStep == TypeOK /\ Margin /\ [Next]_vars => Margin'
<1> SUFFICES ASSUME TypeOK, Margin, [Next]_vars PROVE Margin'
  OBVIOUS
<1>a. /\ RetryWait \in Nat /\ FetchTimeout \in Nat \ {0} /\ Unknown \notin Int
      /\ FailCap \in Nat /\ FailCap > RetryWait + FetchTimeout
      /\ LeftFloor \in Int /\ LeftFloor + FetchTimeout < 0
      /\ TTLs \subseteq Nat
  BY ManagerAssumption DEF FailCap, LeftFloor
<1>b. /\ timer \in Nat /\ fetchAge \in 0..FetchTimeout /\ left \in Int \cup {Unknown}
      /\ sinceFail \in Nat /\ sinceFail <= FailCap /\ loop \in Loop /\ initialized \in BOOLEAN
      /\ held \in Nat
  BY <1>a DEF TypeOK
<1>c. timer \in Nat /\ sinceFail \in Nat
  BY <1>b
<1>d. Fifth \in Nat
  BY <1>b DEF Fifth
<1>1. CASE Start
  BY <1>1, <1>b DEF Start, Margin, Fifth
<1>2. ASSUME NEW t \in TTLs, NEW d \in 0..FetchTimeout, FetchOK(t, d) PROVE Margin'
  <2>1. /\ timer' = calculateWait(t) /\ left' = LifeLeft(t, d) /\ held' = t
        /\ loop' = "wait"
    BY <1>2 DEF FetchOK
  <2> QED BY <2>1, Life DEF Margin, Fifth
<1>3. CASE StartFails
  BY <1>3 DEF StartFails, Margin, Fifth
<1>4. CASE RefreshFails
  BY <1>4, <1>a DEF RefreshFails, Margin, Fifth
<1>5. CASE TimerFires
  BY <1>5, <1>a, <1>b, <1>d DEF TimerFires, Margin, Fifth
<1>6. CASE SeeStop
  BY <1>6 DEF SeeStop, Margin, Fifth
<1>7. CASE Stop
  BY <1>7 DEF Stop, Margin, Fifth
<1>8. CASE Tick
  <2>1. loop' = loop /\ initialized' = initialized /\ Fifth' = Fifth
    BY <1>8 DEF Tick, Fifth
  <2>2. /\ left = Unknown => left' = Unknown
        /\ left # Unknown => left \in Int /\ left' \in Int
        /\ left # Unknown => left <= LeftFloor \/ left' = left - 1
    BY <1>8, <1>a, <1>b DEF Tick, Less
  <2>3. sinceFail' \in Nat /\ sinceFail' <= sinceFail + 1
    BY <1>8, <1>a, <1>b DEF Tick
  <2>4. CASE loop = "wait"
    <3>1. timer # 0 /\ timer' = timer - 1
      BY <1>8, <2>4, <1>b DEF Tick, SelectReady, Less
    <3>2. CASE left = Unknown
      BY <2>1, <2>2, <2>4, <3>2 DEF Margin
    <3>3. CASE left # Unknown /\ left + FetchTimeout >= timer + Fifth
      <4>1. left' \in Int /\ left' = left - 1
        BY <2>2, <3>1, <3>3, <1>a, <1>b, <1>d
      <4>2. left' + FetchTimeout >= timer' + Fifth'
        BY <2>1, <2>2, <3>1, <3>3, <4>1, <1>a, <1>b, <1>d
      <4> QED BY <2>1, <2>4, <4>2 DEF Margin
    <3>4. CASE sinceFail + timer <= RetryWait
      <4>1. sinceFail' + timer' <= RetryWait
        <5>1. RetryWait \in Nat
          BY <1>a
        <5>2. timer' \in Nat /\ timer' + 1 = timer
          BY <3>1, <1>c
        <5> QED BY <2>3, <3>4, <1>c, <5>1, <5>2, Sum
      <4> QED BY <2>1, <2>4, <4>1 DEF Margin
    <3> QED BY <2>4, <3>2, <3>3, <3>4 DEF Margin
  <2>5. CASE loop = "fetch"
    <3>1. fetchAge < FetchTimeout /\ fetchAge' = fetchAge + 1
      BY <1>8, <2>5 DEF Tick, Fetching
    <3>2. CASE left = Unknown
      BY <2>1, <2>2, <2>5, <3>2 DEF Margin
    <3>3. CASE left # Unknown /\ left + fetchAge + FetchTimeout >= Fifth
      <4>a. /\ left \in Int /\ fetchAge \in Nat /\ FetchTimeout \in Nat /\ LeftFloor \in Int
            /\ LeftFloor + 2 * FetchTimeout = 0
        BY <2>2, <3>3, <1>a, <1>b DEF LeftFloor
      <4>b. left > LeftFloor
        BY <3>1, <3>3, <4>a, <1>d
      <4>1. left' \in Int /\ left' = left - 1
        BY <2>2, <3>3, <4>a, <4>b
      <4>2. left' + fetchAge' + FetchTimeout >= Fifth'
        BY <2>1, <2>2, <3>1, <3>3, <4>1, <1>a, <1>b, <1>d
      <4> QED BY <2>1, <2>5, <4>2 DEF Margin
    <3>4. CASE sinceFail <= RetryWait + fetchAge
      <4>1. sinceFail' <= RetryWait + fetchAge'
        BY <2>3, <3>1, <3>4, <1>a, <1>b
      <4> QED BY <2>1, <2>5, <4>1 DEF Margin
    <3> QED BY <2>5, <3>2, <3>3, <3>4 DEF Margin
  <2> QED BY <2>1, <2>4, <2>5 DEF Margin
<1>9. CASE UNCHANGED vars
  BY <1>9 DEF vars, Margin, Fifth
<1> QED
  BY <1>1, <1>2, <1>3, <1>4, <1>5, <1>6, <1>7, <1>8, <1>9 DEF Next, FetchEnds

(* manager.go:107-128, for every expires_in that is not negative and all   *)
(* waits: while the loop lives and no refresh failed lately, Get returns a *)
(* token that is left with a fifth of its life less two slow answers; only *)
(* a life of at most ten client timeouts can then have expired, and by     *)
(* less than two of them.                                                  *)
THEOREM ExpiryNeedsFailure == Spec => []ExpiredOnlyAfterFailure
<1>1. Init => Margin
  BY DEF Init, Margin
<1>2. TypeOK /\ Margin => ExpiredOnlyAfterFailure
  <2> SUFFICES ASSUME TypeOK, Margin, Live, sinceFail > RetryWait + FetchTimeout, left # Unknown
               PROVE  left >= Fifth - 2 * FetchTimeout
    BY DEF ExpiredOnlyAfterFailure, Fifth
  <2>1. /\ RetryWait \in Nat /\ FetchTimeout \in Nat /\ left \in Int /\ Fifth \in Nat
        /\ sinceFail \in Nat /\ timer \in Nat /\ fetchAge \in 0..FetchTimeout
    BY ManagerAssumption DEF TypeOK, FailCap, Fifth
  <2>2. loop \in {"wait", "fetch"}
    BY DEF Live, Margin, TypeOK, Loop
  <2>3. CASE loop = "wait"
    <3>1. ~(sinceFail + timer <= RetryWait)
      BY <2>1
    <3>2. left + FetchTimeout >= timer + Fifth
      BY <2>3, <3>1 DEF Margin
    <3> QED BY <2>1, <3>2
  <2>4. CASE loop = "fetch"
    <3>1. ~(sinceFail <= RetryWait + fetchAge)
      BY <2>1
    <3>2. left + fetchAge + FetchTimeout >= Fifth
      BY <2>4, <3>1 DEF Margin
    <3> QED BY <2>1, <3>2
  <2> QED BY <2>2, <2>3, <2>4
<1> QED BY <1>1, <1>2, MarginStep, TypeInvariant, PTL DEF Spec

(* manager.go:95-104, for all lifetimes and waits: however the select      *)
(* chooses between the timer and the stop, at most one fetch begins after  *)
(* Stop.                                                                   *)
THEOREM StopLosesOnce == Spec => []AtMostOneLateFetch
<1>1. Init => LastFetch
  BY DEF Init, LastFetch
<1>2. TypeOK /\ Margin /\ LastFetch /\ [Next]_vars => LastFetch'
  <2> SUFFICES ASSUME TypeOK, Margin, LastFetch, [Next]_vars PROVE LastFetch'
    OBVIOUS
  <2>a. late \in Nat /\ timer \in Nat /\ RetryWait # 0
    BY ManagerAssumption DEF TypeOK, LateCap
  <2>1. CASE Start
    BY <2>1 DEF Start, LastFetch
  <2>2. ASSUME NEW t \in TTLs, NEW d \in 0..FetchTimeout, FetchOK(t, d)
        PROVE  LastFetch'
    <3>1. timer' = calculateWait(t) /\ loop' = "wait" /\ UNCHANGED <<stopped, late>>
      BY <2>2 DEF FetchOK
    <3> QED BY <3>1, Waits DEF LastFetch
  <2>3. CASE StartFails
    BY <2>3 DEF StartFails, LastFetch
  <2>4. CASE RefreshFails
    BY <2>4, <2>a DEF RefreshFails, LastFetch
  <2>5. CASE TimerFires
    BY <2>5, <2>a DEF TimerFires, LastFetch, LateCap
  <2>6. CASE SeeStop
    BY <2>6 DEF SeeStop, LastFetch
  <2>7. CASE Stop
    BY <2>7 DEF Stop, LastFetch
  <2>8. CASE Tick
    BY <2>8, <2>a DEF Tick, SelectReady, LastFetch
  <2>9. CASE UNCHANGED vars
    BY <2>9 DEF vars, LastFetch
  <2> QED
    BY <2>1, <2>2, <2>3, <2>4, <2>5, <2>6, <2>7, <2>8, <2>9 DEF Next, FetchEnds
<1>3. Init => Margin
  BY DEF Init, Margin
<1>4. TypeOK /\ LastFetch => AtMostOneLateFetch
  BY DEF TypeOK, LastFetch, AtMostOneLateFetch, LateCap
<1> QED BY <1>1, <1>2, <1>3, <1>4, MarginStep, TypeInvariant, PTL DEF Spec
=============================================================================
