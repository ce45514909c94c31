---------------------------- MODULE AuthManager -----------------------------
(***************************************************************************)
(* pkg/auth/manager.go: one Manager, its refreshLoop goroutine, and the    *)
(* OAuth2 fetcher.  Time is counted in ticks.  The goroutine is prompt: a  *)
(* select with a ready case fires before the clock moves.  The context is  *)
(* context.Background() (service.go:74 and 280): it is never done.         *)
(***************************************************************************)
EXTENDS Integers

CONSTANTS
    TTLs,           \* the values of expires_in the provider answers
    RetryWait,      \* 10 * time.Second, the wait after a failed refresh
    FallbackWait,   \* 5 * time.Minute, the wait when expires_in is absent
    FetchTimeout,   \* 10 * time.Second, the Timeout of the fetcher's client
    Unknown         \* the life of a token that came without expires_in

(* A lifetime is absent (0) or positive, and a multiple of five ticks, so  *)
(* that its 80% is a number of ticks.  It may be shorter than a fetch.     *)
ASSUME ManagerAssumption ==
    /\ RetryWait \in Nat \ {0} /\ FallbackWait \in Nat \ {0}
    /\ FetchTimeout \in Nat \ {0}
    /\ Unknown \notin Int
    /\ TTLs \subseteq Nat
    /\ \A t \in TTLs : t % 5 = 0

VARIABLES
    loop,           \* the manager: not started, in its first fetch, failed,
                    \* waiting in the select, in a later fetch, or ended
    timer,          \* what is left of the timer
    fetchAge,       \* how long the current fetch has run
    initialized,    \* m.initialized
    held,           \* the expires_in that came with the token Get returns
    left,           \* how long that token is still valid; below zero, how
                    \* long ago it expired (counted to a floor)
    stopped,        \* stopChan is closed
    sinceFail,      \* time since the last failed refresh (counted to a cap)
    late            \* fetches begun after Stop (counted to a cap)

vars == <<loop, timer, fetchAge, initialized, held, left, stopped, sinceFail, late>>

Loop == {"new", "starting", "failed", "wait", "fetch", "ended"}
FailCap == RetryWait + FetchTimeout + 1     \* bound of sinceFail
LateCap == 2                                \* bound of late
LeftFloor == -(2 * FetchTimeout)            \* bound of left

Init ==
    /\ loop = "new"
    /\ timer = 0
    /\ fetchAge = 0
    /\ initialized = FALSE
    /\ held = 0
    /\ left = 0
    /\ stopped = FALSE
    /\ sinceFail = FailCap
    /\ late = 0

-----------------------------------------------------------------------------
calculateWait_Whole(ttl) == IF ttl = 0 THEN FallbackWait ELSE ttl
calculateWait_NoFallback(ttl) == (ttl * 4) \div 5
calculateWait(ttl) == IF ttl = 0 THEN FallbackWait ELSE (ttl * 4) \div 5

(* A token whose answer came `delay` ticks after the provider issued it. *)
LifeLeft_Added(ttl, delay) == IF ttl = 0 THEN Unknown ELSE ttl + delay
LifeLeft(ttl, delay) == IF ttl = 0 THEN Unknown ELSE ttl - delay

(* Start: a first fetch in the caller's goroutine. *)
Start ==
    /\ loop = "new"
    /\ loop' = "starting"
    /\ fetchAge' = 0
    /\ UNCHANGED <<timer, initialized, held, left, stopped, sinceFail, late>>

(* A fetch answers: the token is set, and the timer with it.  For the first *)
(* fetch this is the end of Start, which spawns refreshLoop.                *)
FetchOK(ttl, delay) ==
    /\ loop \in {"starting", "fetch"}
    /\ delay <= fetchAge
    /\ initialized' = TRUE
    /\ held' = ttl
    /\ left' = LifeLeft(ttl, delay)
    /\ timer' = calculateWait(ttl)
    /\ loop' = "wait"
    /\ UNCHANGED <<fetchAge, stopped, sinceFail, late>>

(* The fetcher gives an error (connection, timeout, status, body or an     *)
(* empty token): Start fails without a loop, a refresh is tried again soon *)
(* and the old token stays.                                                *)
StartFails ==
    /\ loop = "starting"
    /\ loop' = "failed"
    /\ UNCHANGED <<timer, fetchAge, initialized, held, left, stopped, sinceFail, late>>

RefreshFails_GivesUp ==
    /\ loop = "fetch"
    /\ loop' = "ended"
    /\ sinceFail' = 0
    /\ UNCHANGED <<timer, fetchAge, initialized, held, left, stopped, late>>
RefreshFails ==
    /\ loop = "fetch"
    /\ loop' = "wait"
    /\ timer' = RetryWait
    /\ sinceFail' = 0
    /\ UNCHANGED <<fetchAge, initialized, held, left, stopped, late>>

(* The select of refreshLoop: when the timer and the stop are both ready,  *)
(* Go takes either.                                                        *)
TimerFires ==
    /\ loop = "wait"
    /\ timer = 0
    /\ loop' = "fetch"
    /\ fetchAge' = 0
    /\ late' = IF stopped /\ late < LateCap THEN late + 1 ELSE late
    /\ UNCHANGED <<timer, initialized, held, left, stopped, sinceFail>>

SeeStop ==
    /\ loop = "wait"
    /\ stopped
    /\ loop' = "ended"
    /\ UNCHANGED <<timer, fetchAge, initialized, held, left, stopped, sinceFail, late>>

(* Stop, called once by the engine (ServiceEngine.tla) on a started manager. *)
Stop ==
    /\ initialized
    /\ ~stopped
    /\ stopped' = TRUE
    /\ UNCHANGED <<loop, timer, fetchAge, initialized, held, left, sinceFail, late>>

(* The clock: no select is ready and no fetch has reached its timeout. *)
Less(x, floor) == IF x \in Int /\ x > floor THEN x - 1 ELSE x
SelectReady == loop = "wait" /\ (timer = 0 \/ stopped)
Fetching == loop \in {"starting", "fetch"}

Tick ==
    /\ ~SelectReady
    /\ Fetching => fetchAge < FetchTimeout
    /\ timer' = IF loop = "wait" THEN Less(timer, 0) ELSE timer
    /\ fetchAge' = IF Fetching THEN fetchAge + 1 ELSE fetchAge
    /\ left' = Less(left, LeftFloor)
    /\ sinceFail' = IF sinceFail < FailCap THEN sinceFail + 1 ELSE FailCap
    /\ UNCHANGED <<loop, initialized, held, stopped, late>>

FetchEnds ==
    \/ \E ttl \in TTLs, delay \in 0..FetchTimeout : FetchOK(ttl, delay)
    \/ StartFails
    \/ RefreshFails

Next ==
    \/ Start
    \/ FetchEnds
    \/ TimerFires
    \/ SeeStop
    \/ Stop
    \/ Tick

(* Time passes, the goroutine runs when it can, and a fetch ends one way   *)
(* or the other: at the latest its client's timeout is an error.           *)
Fairness ==
    /\ WF_vars(Tick)
    /\ WF_vars(TimerFires \/ SeeStop)
    /\ WF_vars(FetchEnds)

Spec == Init /\ [][Next]_vars /\ Fairness

-----------------------------------------------------------------------------
(* The timer never exceeds a wait the code sets, nor a life the provider's. *)
TypeOK ==
    /\ loop \in Loop
    /\ timer \in Nat /\ \E w \in {RetryWait} \cup {calculateWait(t) : t \in TTLs} : timer <= w
    /\ fetchAge \in 0..FetchTimeout
    /\ initialized \in BOOLEAN
    /\ held \in TTLs \cup {0}
    /\ left \in Int \cup {Unknown} /\ (left # Unknown => LeftFloor <= left /\ left <= held)
    /\ stopped \in BOOLEAN
    /\ sinceFail \in 0..FailCap
    /\ late \in 0..LateCap

Live == initialized /\ loop # "ended"

(* manager.go:123: a token is renewed at 80% of its life, as a margin.  So *)
(* while the loop lives and no refresh failed within the last retry and    *)
(* slow fetch, what is left of the token Get returns is at least the fifth *)
(* of its life kept back, less two slow answers, its own and the next one: *)
(* a life of more than ten client timeouts never expires in the manager's  *)
(* hands, and a shorter one may, by less than two client timeouts.         *)
ExpiredOnlyAfterFailure ==
    Live /\ sinceFail > RetryWait + FetchTimeout /\ left # Unknown
        => left >= held \div 5 - 2 * FetchTimeout

(* Stop races the timer, but at most one more fetch begins after it. *)
AtMostOneLateFetch == late <= 1

(* The goroutine of a stopped manager ends, whatever it was doing. *)
StopEndsLoop == stopped ~> loop = "ended"

(* Refreshing never dies out, however often the provider fails. *)
KeepsRefreshing == (initialized /\ ~stopped) ~> (loop = "fetch" \/ stopped)
=============================================================================
