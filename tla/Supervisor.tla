------------------------------ MODULE Supervisor ------------------------------
(***************************************************************************)
(* BaseConnector (vortex/connectors/base.py): one connector, its           *)
(* supervisor task and the stop() the server calls on it.                  *)
(*                                                                         *)
(* Both run on one asyncio loop, so everything between two awaits is one   *)
(* action and every await that suspends is a place where the other may     *)
(* run.  The four hooks belong to the subclasses.  What the three          *)
(* subclasses of the repository have in common is kept: a hook catches     *)
(* Exception but never CancelledError; _do_disconnect returns at once when *)
(* there is nothing to close, and otherwise drops its reference in a       *)
(* finally clause, so also when it is interrupted.                         *)
(*                                                                         *)
(* Cancellation follows CPython 3.11, the interpreter of the Dockerfile:   *)
(* a cancelled task sees CancelledError at the await it is suspended in,   *)
(* and wait_for, on timeout, cancels what it waits for and waits again.    *)
(***************************************************************************)
EXTENDS Backoff

CONSTANTS
    MaxRestarts,    \* bound: the restart counter saturates here
    AbsorbsCancel   \* may the client library's close swallow a CancelledError
                    \* and go on closing?

ASSUME SupervisorAssumption ==
    /\ MaxRestarts \in Nat
    /\ AbsorbsCancel \in BOOLEAN

VARIABLES
    task,       \* where the supervisor task is suspended
    cancel,     \* task.cancel() has been called and is not yet delivered
    raising,    \* a CancelledError is in flight while the finally clause runs
    handle,     \* the reference the subclass keeps: _nc, _ws or _service
    leaked,     \* some connection was dropped before its close completed
    up,         \* the gauge CONNECTOR_UP, and _connected as far as this class
                \* writes it: the two are always set together
    stopping,   \* _stopping
    restarts,   \* the counter CONNECTOR_RESTARTS
    stop,       \* where stop() is suspended
    hard        \* the server's own timeout has cancelled stop()

superVars == <<current, task, cancel, raising, handle, leaked, up, stopping,
               restarts, stop, hard>>

Tasks == {"none", "created", "connecting", "subscribing", "waiting",
          "disconnecting", "backoff", "done"}
Stops == {"idle", "joining", "reaping", "closing", "stopped", "aborted"}
Handles == {"none", "open"}

\* The awaits inside the try block: a cancellation there runs the finally clause.
TryAwaits == {"connecting", "subscribing", "waiting"}

TypeOK ==
    /\ current \in Initial .. Cap
    /\ task \in Tasks
    /\ handle \in Handles
    /\ restarts \in 0 .. MaxRestarts
    /\ stop \in Stops
    /\ cancel \in BOOLEAN /\ raising \in BOOLEAN /\ leaked \in BOOLEAN
    /\ up \in BOOLEAN /\ stopping \in BOOLEAN /\ hard \in BOOLEAN

Init ==
    /\ BackoffInit
    /\ task = "none"
    /\ handle = "none"
    /\ restarts = 0
    /\ stop = "idle"
    /\ cancel = FALSE
    /\ raising = FALSE
    /\ leaked = FALSE
    /\ up = FALSE
    /\ stopping = FALSE
    /\ hard = FALSE

--------------------------------------------------------------------------------
(* The supervisor task                                                         *)

(* start(): a second call finds the task and returns.                          *)
Start ==
    /\ task = "none"
    /\ task' = "created"
    /\ UNCHANGED <<current, cancel, raising, handle, leaked, up, stopping,
                   restarts, stop, hard>>

(* First step of the task: the first pass of the loop counts no restart.       *)
Run ==
    /\ task = "created" /\ ~cancel /\ ~stopping
    /\ task' = "connecting"
    /\ UNCHANGED <<current, cancel, raising, handle, leaked, up, stopping,
                   restarts, stop, hard>>

(* Cancelled before its first step, a task never runs its coroutine.           *)
CancelledBeforeRun ==
    /\ task = "created" /\ cancel
    /\ task' = "done"
    /\ cancel' = FALSE
    /\ UNCHANGED <<current, raising, handle, leaked, up, stopping, restarts,
                   stop, hard>>

\* Mutant: the except clause re-raises what a hook raised.
LoopEnd_Reraise(exc) ==
    raising' = FALSE /\ task' = "done" /\ UNCHANGED current

(* After the finally clause: a CancelledError in flight ends the task, a stop  *)
(* ends the loop, anything else draws a delay and sleeps.                      *)
LoopEnd(exc) ==
    /\ raising' = FALSE
    /\ \/ /\ exc \/ stopping
          /\ task' = "done"
          /\ UNCHANGED current
       \/ /\ ~exc /\ ~stopping
          /\ task' = "backoff"
          /\ Advance

\* Mutant: the finally clause closes nothing.
LeaveTry_NoDisconnect(exc) == up' = FALSE /\ LoopEnd(exc)

\* Mutant: the finally clause forgets to mark the connector down.
LeaveTry_StaysUp(exc) ==
    /\ UNCHANGED up
    /\ \/ handle' = "open" /\ task' = "disconnecting" /\ raising' = exc /\ UNCHANGED current
       \/ handle' = "none" /\ LoopEnd(exc)

(* The finally clause, up to its await: with no reference _do_disconnect       *)
(* returns without suspending and the loop goes on in the same step.           *)
LeaveTry(exc) ==
    /\ up' = FALSE
    /\ \/ /\ handle' = "open"
          /\ task' = "disconnecting"
          /\ raising' = exc
          /\ UNCHANGED current
       \/ /\ handle' = "none"
          /\ LoopEnd(exc)

\* Mutant: the backoff is reset by a connect that returns.
ConnectReturns_Resets ==
    /\ task = "connecting" /\ ~cancel
    /\ task' = "subscribing"
    /\ handle' = "open"
    /\ leaked' = (leaked \/ handle = "open")
    /\ Reset
    /\ UNCHANGED <<cancel, raising, up, stopping, restarts, stop, hard>>

\* Mutant: the connector counts as connected before it has subscribed.
ConnectReturns_Up ==
    /\ task = "connecting" /\ ~cancel
    /\ task' = "subscribing"
    /\ handle' = "open"
    /\ leaked' = (leaked \/ handle = "open")
    /\ up' = TRUE
    /\ UNCHANGED <<current, cancel, raising, stopping, restarts, stop, hard>>

ConnectReturns ==
    /\ task = "connecting" /\ ~cancel
    /\ task' = "subscribing"
    /\ handle' = "open"
    /\ leaked' = (leaked \/ handle = "open")
    /\ UNCHANGED <<current, cancel, raising, up, stopping, restarts, stop, hard>>

(* A failed connect may leave a half-opened connection behind (Solace stores   *)
(* its service before it connects it).                                         *)
ConnectRaises ==
    /\ task = "connecting" /\ ~cancel
    /\ handle' \in Handles
    /\ LeaveTry(FALSE)
    /\ UNCHANGED <<cancel, leaked, stopping, restarts, stop, hard>>

SubscribeReturns ==
    /\ task = "subscribing" /\ ~cancel
    /\ task' = "waiting"
    /\ up' = TRUE
    /\ Reset
    /\ UNCHANGED <<cancel, raising, handle, leaked, stopping, restarts, stop,
                   hard>>

SubscribeRaises ==
    /\ task = "subscribing" /\ ~cancel
    /\ UNCHANGED handle
    /\ LeaveTry(FALSE)
    /\ UNCHANGED <<cancel, leaked, stopping, restarts, stop, hard>>

(* _wait_until_done returns or raises: both fall through to the finally clause.*)
WaitEnds ==
    /\ task = "waiting" /\ ~cancel
    /\ UNCHANGED handle
    /\ LeaveTry(FALSE)
    /\ UNCHANGED <<cancel, leaked, stopping, restarts, stop, hard>>

(* CancelledError delivered to a hook of the try block and re-raised.  A       *)
(* connect cut short may leave a connection nobody refers to.                  *)
TryCancelled ==
    /\ task \in TryAwaits /\ cancel
    /\ cancel' = FALSE
    /\ handle' \in (IF task = "connecting" THEN Handles ELSE {handle})
    /\ leaked' \in {leaked, leaked \/ task = "connecting"}
    /\ LeaveTry(TRUE)
    /\ UNCHANGED <<stopping, restarts, stop, hard>>

(* _do_disconnect of the finally clause completes; errors are logged.          *)
DisconnectReturns ==
    /\ task = "disconnecting" /\ ~cancel
    /\ handle' = "none"
    /\ LoopEnd(raising)
    /\ UNCHANGED <<cancel, leaked, up, stopping, restarts, stop, hard>>

(* What an interrupted _do_disconnect leaves: the reference is gone, and the   *)
(* connection may be closed or not; Solace, interrupted while it terminates    *)
(* its receiver, still holds its service.                                      *)
InterruptedDisconnect ==
    \/ handle' = "none" /\ leaked' \in {leaked, TRUE}
    \/ handle' = handle /\ UNCHANGED leaked

(* CancelledError raised inside the finally clause escapes it.                 *)
DisconnectCancelled ==
    /\ task = "disconnecting" /\ cancel
    /\ cancel' = FALSE
    /\ raising' = FALSE
    /\ task' = "done"
    /\ InterruptedDisconnect
    /\ UNCHANGED <<current, up, stopping, restarts, stop, hard>>

(* The client library swallows the CancelledError and goes on closing.         *)
DisconnectAbsorbs ==
    /\ AbsorbsCancel
    /\ task = "disconnecting" /\ cancel
    /\ cancel' = FALSE
    /\ UNCHANGED <<current, task, raising, handle, leaked, up, stopping,
                   restarts, stop, hard>>

\* Mutant: the loop sleeps and starts again without looking at _stopping.
BackoffExpires_Unchecked ==
    /\ task = "backoff"
    /\ task' = "connecting"
    /\ restarts' = Lesser(restarts + 1, MaxRestarts)
    /\ UNCHANGED <<current, cancel, raising, handle, leaked, up, stopping,
                   stop, hard>>

(* The delay elapses: the loop starts again and counts a restart.              *)
BackoffExpires ==
    /\ task = "backoff" /\ ~stopping
    /\ task' = "connecting"
    /\ restarts' = Lesser(restarts + 1, MaxRestarts)
    /\ UNCHANGED <<current, cancel, raising, handle, leaked, up, stopping,
                   stop, hard>>

(* stop() sets _stopping and cancels in one step, so the sleep ends by its     *)
(* break or by CancelledError: the task is done either way.                    *)
BackoffInterrupted ==
    /\ task = "backoff" /\ stopping
    /\ task' = "done"
    /\ cancel' = FALSE
    /\ UNCHANGED <<current, raising, handle, leaked, up, stopping, restarts,
                   stop, hard>>

--------------------------------------------------------------------------------
(* stop(), called once by the server on a connector it has started             *)

\* Mutant: stop() leaves the closing to the supervisor.
EnterClosing_Skipped == stop' = "stopped" /\ up' = FALSE

(* stop() reaches its own _do_disconnect, which returns at once when there is  *)
(* no reference; then it marks the connector down and returns.                 *)
EnterClosing ==
    \/ handle = "open" /\ stop' = "closing" /\ UNCHANGED up
    \/ handle = "none" /\ stop' = "stopped" /\ up' = FALSE

(* _stopping is set and the task cancelled in one step.  The task is alive     *)
(* then: nothing but stop() ends it (OutlivesErrors).                          *)
StopCall ==
    /\ stop = "idle" /\ task \notin {"none", "done"}
    /\ stop' = "joining"
    /\ stopping' = TRUE
    /\ cancel' = TRUE
    /\ UNCHANGED <<current, task, raising, handle, leaked, up, restarts, hard>>

(* wait_for comes back once the task is done, however it ended.                *)
Join ==
    /\ stop \in {"joining", "reaping"} /\ task = "done"
    /\ EnterClosing
    /\ UNCHANGED <<current, task, cancel, raising, handle, leaked, stopping,
                   restarts, hard>>

\* Mutant: stop() gives up waiting for the task and closes at once.
JoinTimeout_GivesUp ==
    /\ stop = "joining" /\ task # "done" /\ ~cancel
    /\ EnterClosing
    /\ UNCHANGED <<current, task, cancel, raising, handle, leaked, stopping,
                   restarts, hard>>

\* Mutant: the wait for the task has no timeout.
JoinTimeout_Never == FALSE /\ UNCHANGED superVars

(* wait_for times out: it cancels the task again and waits for its end without *)
(* a bound.  A requested cancellation is delivered in the next iteration of    *)
(* the loop, long before a timer of seconds.                                   *)
JoinTimeout ==
    /\ stop = "joining" /\ task # "done" /\ ~cancel
    /\ cancel' = TRUE
    /\ stop' = "reaping"
    /\ UNCHANGED <<current, task, raising, handle, leaked, up, stopping,
                   restarts, hard>>

StopDisconnectReturns ==
    /\ stop = "closing"
    /\ handle' = "none"
    /\ up' = FALSE
    /\ stop' = "stopped"
    /\ UNCHANGED <<current, task, cancel, raising, leaked, stopping, restarts,
                   hard>>

(* Five seconds after the connectors' own timeout the server cancels stop().   *)
(* Inside wait_for the CancelledError is caught and stop() carries on; inside  *)
(* _do_disconnect it escapes and the rest of stop() is skipped.                *)
HardTimeout ==
    /\ ~hard
    /\ hard' = TRUE
    /\ \/ /\ stop = "reaping" /\ task # "done" /\ ~cancel
          /\ EnterClosing
          /\ UNCHANGED <<handle, leaked>>
       \/ /\ stop = "closing"
          /\ stop' = "aborted"
          /\ InterruptedDisconnect
          /\ UNCHANGED up
    /\ UNCHANGED <<current, task, cancel, raising, stopping, restarts>>

--------------------------------------------------------------------------------

Supervise ==
    \/ Start \/ Run \/ CancelledBeforeRun
    \/ ConnectReturns \/ ConnectRaises
    \/ SubscribeReturns \/ SubscribeRaises
    \/ WaitEnds \/ TryCancelled
    \/ DisconnectReturns \/ DisconnectCancelled \/ DisconnectAbsorbs
    \/ BackoffExpires \/ BackoffInterrupted

StopConnector ==
    StopCall \/ Join \/ JoinTimeout \/ StopDisconnectReturns \/ HardTimeout

(* The connector has been stopped and its task has ended: nothing is left to do.*)
Finished ==
    /\ stop \in {"stopped", "aborted"} /\ task = "done"
    /\ UNCHANGED superVars

Next == Supervise \/ StopConnector \/ Finished

Spec == Init /\ [][Next]_superVars

(* What the loop itself guarantees: a ready task runs, a cancellation is       *)
(* delivered, a timer fires.  Nothing is asked of brokers.  Of a client        *)
(* library, one thing: the close that stop() begins when it has caught the     *)
(* server's cancellation ends by the library's own time limit, for no other is *)
(* left.  Only a library that swallows cancellations brings stop() there.      *)
LoopFairness ==
    /\ WF_superVars(Start) /\ WF_superVars(Run)
    /\ WF_superVars(CancelledBeforeRun \/ TryCancelled \/ DisconnectCancelled)
    /\ WF_superVars(BackoffExpires \/ BackoffInterrupted)
    /\ WF_superVars(Join) /\ WF_superVars(JoinTimeout)
    /\ WF_superVars(HardTimeout)
    /\ WF_superVars(hard /\ StopDisconnectReturns)

(* The broker is reachable again and again: a connect or a subscribe that is   *)
(* attempted for ever succeeds in the end; a close of the client library,      *)
(* which has timeouts of its own, ends.                                        *)
BrokerFairness ==
    /\ SF_superVars(ConnectReturns) /\ SF_superVars(SubscribeReturns)
    /\ WF_superVars(DisconnectReturns) /\ WF_superVars(StopDisconnectReturns)

LoopSpec == Spec /\ LoopFairness

--------------------------------------------------------------------------------
(* Properties *)

(* The phase of the contract the connector is in.                              *)
Phase ==
    IF stop \in {"stopped", "aborted"} THEN "Stopped"
    ELSE IF stopping THEN "Stopping"
    ELSE CASE task \in {"none", "created"} -> "New"
           [] task = "connecting" -> "Connecting"
           [] task = "subscribing" -> "Subscribing"
           [] task = "waiting" -> "Serving"
           [] task = "disconnecting" -> "Closing"
           [] OTHER -> "Resting"

Life == INSTANCE ConnectorLifecycle WITH phase <- Phase, Callbacks <- FALSE

(* The supervisor and stop(), step by step, keep the contract the server       *)
(* builds on, with the flag in the hands of this class (base.py, the whole     *)
(* class; a subclass whose client writes the flag too has a property of its    *)
(* own).                                                                       *)
KeepsContract == Life!Spec

(* stop() that returns without the server cutting it short has waited for the  *)
(* task, has nothing open left and shows the connector down: the docstring's   *)
(* "always releases resources", under the condition that makes it true         *)
(* (base.py, stop).                                                            *)
StopReleases ==
    stop = "stopped" /\ ~hard => task = "done" /\ handle = "none" /\ ~up

(* Only one _do_disconnect runs at a time unless the server cut stop() short:  *)
(* the one of stop() starts when the one of the finally clause has ended       *)
(* (base.py, stop and _supervise_inner).                                       *)
NoTwoDisconnects == stop = "closing" /\ ~hard => task = "done"

(* No failure of a hook ends the supervisor: only stop() does (base.py,        *)
(* _supervise_inner).                                                          *)
OutlivesErrors == task = "done" => stopping

(* However often connect, subscribe or wait fail, no connection is dropped     *)
(* unclosed while the connector runs: the finally clause closes the one of the *)
(* failed attempt before the next attempt begins (base.py, _supervise_inner).  *)
LeaksOnlyWhenStopping == leaked => stopping

(* The gauge is up only between a completed subscribe and the end of the wait, *)
(* whatever stop() does meanwhile; in particular never on a stopped connector, *)
(* even one cut short by the server.  So is is_up(), unless a client library   *)
(* writes the flag too, as that of NATS does (base.py, _supervise_inner).      *)
UpMeansServing == up => task = "waiting" /\ handle = "open" /\ stop \in {"idle", "joining"}

(* How the two callers of the connector stand to each other at every moment:   *)
(* the invariant the safety properties above follow from.  A stopping task is  *)
(* cancelled before it can leave its await; the timeout and the server's       *)
(* cancellation find it in its finally clause or done.                         *)
Coordination ==
    /\ stopping <=> stop # "idle"
    /\ cancel => stopping
    /\ stopping /\ task \notin {"disconnecting", "done"} => cancel /\ stop = "joining"
    /\ raising => task = "disconnecting" /\ stopping
    /\ task = "none" => ~stopping
    /\ task = "done" => stopping /\ ~cancel
    /\ hard => stop \in {"closing", "stopped", "aborted"}
    /\ stop \in {"closing", "stopped", "aborted"} /\ ~hard => task = "done"
    /\ stop = "stopped" /\ ~hard => handle = "none"
    /\ stop = "aborted" => hard
    /\ up <=> task = "waiting"
    /\ task \in {"none", "created", "connecting", "backoff"} => handle = "none"
    /\ task \in {"subscribing", "waiting"} => handle = "open"
    /\ task = "disconnecting" /\ ~hard => handle = "open"
    /\ leaked => stopping

(* Once stop() has been called no new attempt to connect begins, whatever the  *)
(* task was suspended in at that moment (base.py, the two stopping checks).    *)
NoConnectAfterStop ==
    [][stopping => ~(task # "connecting" /\ task' = "connecting")]_superVars

(* The delay shrinks only when a session has been fully set up: a connect that *)
(* succeeds and a subscribe that fails keep backing off (base.py, reset).      *)
DelayFallsOnSuccess == [][current' < current => up']_superVars

(* stop() ends even if no broker ever answers again and no close ends by       *)
(* itself: first the timeout of stop() cancels the task's close, then the      *)
(* server's cancels that of stop().  Where a library swallows both, stop()     *)
(* depends on the library's own limit, see LoopFairness (base.py, stop).       *)
StopEnds == stop # "idle" ~> stop \in {"stopped", "aborted"}

(* A connector that is down comes back up, unless it is stopped, when the      *)
(* broker is reachable again and again (base.py, the retry loop).              *)
Recovers == BrokerFairness => (task # "none" /\ ~up ~> up \/ stopping)

================================================================================
