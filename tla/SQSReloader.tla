---------------------------- MODULE SQSReloader -----------------------------
(***************************************************************************)
(* pkg/transport/sqs_reloader.go driving ServiceEngine.Reload, while       *)
(* GraphQL requests take the lock that Reload waits for (REST requests     *)
(* take none and cannot touch it).  Whoever changes the configuration      *)
(* source then announces the change on an SQS queue; the queue delivers a  *)
(* message at least once and in any order.  The messages carry nothing     *)
(* that the code reads: one is named here by the version it announces.     *)
(***************************************************************************)
EXTENDS ServiceEngine

CONSTANT MaxRedelivery  \* bound on the messages the queue delivers again

(* The bound on loads never stands in the way of a message. *)
ASSUME QueueAssumption ==
    MaxRedelivery \in Nat /\ MaxLoad >= MaxVersion + MaxRedelivery

VARIABLES
    loop,           \* where Start is
    announced,      \* the versions announced so far
    queue,          \* the messages that can be received
    taken,          \* the messages received and not deleted
    handled,        \* the message in hand
    redelivered,    \* how many were delivered again
    lost,           \* the versions current when a Load failed
    cancelled       \* the context of Start is done

loopVars == <<loop, announced, queue, taken, handled, redelivered, lost, cancelled>>
allVars == <<vars, loopVars>>

Version == 1..MaxVersion
Phase == {"poll", "sleep", "call", "reloading", "ended"}

LoopInit ==
    /\ Init
    /\ loop = "poll"
    /\ announced = {} /\ queue = {} /\ taken = {}
    /\ handled = Nil
    /\ redelivered = 0
    /\ lost = {}
    /\ cancelled = FALSE

-----------------------------------------------------------------------------
(* The environment: announce a change of the source, give a message that   *)
(* was not deleted once more (its visibility timed out), cancel.           *)
Announce(v) ==
    /\ v <= source.ver /\ v \notin announced
    /\ announced' = announced \cup {v}
    /\ queue' = queue \cup {v}
    /\ UNCHANGED <<loop, taken, handled, redelivered, lost, cancelled>>

Redeliver(v) ==
    /\ v \in taken
    /\ redelivered < MaxRedelivery
    /\ redelivered' = redelivered + 1
    /\ queue' = queue \cup {v}
    /\ taken' = taken \ {v}
    /\ UNCHANGED <<loop, announced, handled, lost, cancelled>>

Cancel ==
    /\ ~cancelled
    /\ cancelled' = TRUE
    /\ UNCHANGED <<loop, announced, queue, taken, handled, redelivered, lost>>

(* The head of the loop: a done context ends it, also through the error of *)
(* ReceiveMessage; any other error is followed by a pause that no          *)
(* cancellation cuts short; otherwise a message may arrive.                *)
SeeCancel ==
    /\ loop = "poll" /\ cancelled
    /\ loop' = "ended"
    /\ UNCHANGED <<announced, queue, taken, handled, redelivered, lost, cancelled>>

ReceiveFails ==
    /\ loop = "poll" /\ ~cancelled
    /\ loop' = "sleep"
    /\ UNCHANGED <<announced, queue, taken, handled, redelivered, lost, cancelled>>

Wake_GivesUp ==
    /\ loop = "sleep"
    /\ loop' = "ended"
    /\ UNCHANGED <<announced, queue, taken, handled, redelivered, lost, cancelled>>
Wake_RetriesInPlace ==
    /\ loop = "sleep"
    /\ loop' = IF cancelled THEN "sleep" ELSE "poll"
    /\ UNCHANGED <<announced, queue, taken, handled, redelivered, lost, cancelled>>
Wake ==
    /\ loop = "sleep"
    /\ loop' = "poll"
    /\ UNCHANGED <<announced, queue, taken, handled, redelivered, lost, cancelled>>

Receive(v) ==
    /\ loop = "poll" /\ ~cancelled
    /\ v \in queue
    /\ queue' = queue \ {v}
    /\ taken' = taken \cup {v}
    /\ handled' = v
    /\ loop' = "call"
    /\ UNCHANGED <<announced, redelivered, lost, cancelled>>

(* The call of Reload: its Load succeeds or fails. *)
CallReload(r) ==
    /\ loop = "call"
    /\ LoadOK(r)
    /\ loop' = "reloading"
    /\ UNCHANGED <<announced, queue, taken, handled, redelivered, lost, cancelled>>

LoadFails ==
    /\ loop = "call"
    /\ loop' = "reloading"
    /\ lost' = lost \cup {source.ver}
    /\ UNCHANGED <<engineVars, announced, queue, taken, handled, redelivered, cancelled>>

(* Reload has returned, with an error or without one: the message is       *)
(* deleted, or the deletion fails and nobody notices.                      *)
ReloadReturned_Async == TRUE
ReloadReturned == \A r \in Reloader : reload[r].pc = "idle"

Delete ==
    /\ loop = "reloading"
    /\ ReloadReturned
    /\ taken' \in {taken, taken \ {handled}}
    /\ handled' = Nil
    /\ loop' = "poll"
    /\ UNCHANGED <<announced, queue, redelivered, lost, cancelled>>

LoopStep ==
    \/ SeeCancel /\ UNCHANGED engineVars
    \/ Wake /\ UNCHANGED engineVars
    \/ \E r \in Reloader : CallReload(r)
    \/ LoadFails
    \/ Delete /\ UNCHANGED engineVars

LoopNext ==
    \/ /\ \/ LoopStep
          \/ ReceiveFails /\ UNCHANGED engineVars
          \/ \E v \in Version : Receive(v) /\ UNCHANGED engineVars
          \/ \E v \in Version : (Announce(v) \/ Redeliver(v)) /\ UNCHANGED engineVars
          \/ Cancel /\ UNCHANGED engineVars
          \/ \E b \in Config : Publish(b) /\ UNCHANGED loopVars
          \/ \E r \in Reloader : ReloadStep(r) /\ UNCHANGED loopVars
       /\ UNCHANGED <<rest, graph>>
    \/ \E x \in Graph : GraphStep(x) /\ UNCHANGED loopVars

(* The loop and the Reload it called are scheduled and their calls return; *)
(* the queue does not fail forever, nor withhold a message forever.        *)
LoopFairness ==
    /\ WF_allVars(LoopStep /\ UNCHANGED <<rest, graph>>)
    /\ \A r \in Reloader :
        WF_allVars(ReloadStep(r) /\ UNCHANGED loopVars /\ UNCHANGED <<rest, graph>>)
    /\ \A v \in Version :
        SF_allVars(Receive(v) /\ UNCHANGED engineVars /\ UNCHANGED <<rest, graph>>)
    /\ \A x \in Graph : WF_allVars(GraphUnlock(x) /\ UNCHANGED loopVars)

LoopSpec == LoopInit /\ [][LoopNext]_allVars /\ LoopFairness

-----------------------------------------------------------------------------
PublishedVersion == ver[engine.cfg]

(* What a failed Reload wasted: its message is deleted all the same. *)
Wasted == lost \cup {ver[n] : n \in failed}

(* An announced change is served in the end, by it or by a later one,      *)
(* unless the loop was cancelled or a Reload that read it failed: with its *)
(* message deleted (sqs_reloader.go:76-85), nothing tries again.           *)
AnnouncedIsServed ==
    \A v \in Version :
        (v \in announced) ~>
            (PublishedVersion >= v \/ cancelled \/ \E w \in Wasted : w >= v)

(* The loop waits for each Reload, so whatever the order and the number of *)
(* deliveries, the service never goes back to an older configuration.      *)
VersionNeverRegresses == [][PublishedVersion' >= PublishedVersion]_allVars

(* A cancelled loop ends, from wherever it is. *)
CancelEndsLoop == cancelled ~> loop = "ended"
=============================================================================
