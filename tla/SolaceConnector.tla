---------------------------- MODULE SolaceConnector ----------------------------
(***************************************************************************)
(* SolaceConnector (vortex/connectors/solace.py): the supervisor of        *)
(* Supervisor with the hooks of the Solace subclass.  The SDK blocks, so   *)
(* the hooks run it on threads of the loop's executor: cancelling the      *)
(* await of such a job does not stop the thread, and a job may end after   *)
(* the hook that started it.                                               *)
(*                                                                         *)
(* The reference _service is Supervisor's handle; while the task is        *)
(* connecting, when nobody reads it, it is set already.  The wait is the   *)
(* inherited one: it ends by stop() only, and the SDK, told to reconnect   *)
(* for ever, keeps the session.                                            *)
(***************************************************************************)
EXTENDS Supervisor

VARIABLES
    service,    \* the latest MessagingService
    dialing,    \* a thread runs its connect()
    abandoned,  \* ... and nobody waits for it any more
    hangUp,     \* a disconnect() nobody waits for any more: a thread runs it,
                \* or it was cancelled before a thread had started it
    receiver    \* _receiver is set

solaceVars == <<service, dialing, abandoned, hangUp, receiver>>
sVars == <<superVars, solaceVars>>

SolaceTypeOK ==
    /\ service \in {"none", "built", "connected", "closed"}
    /\ dialing \in BOOLEAN /\ abandoned \in BOOLEAN
    /\ hangUp \in {"idle", "running", "unstarted"}
    /\ receiver \in BOOLEAN
    /\ dialing => service = "built" /\ (task = "connecting" \/ abandoned)

SolaceInit ==
    /\ Init
    /\ service = "none"
    /\ dialing = FALSE /\ abandoned = FALSE /\ hangUp = "idle"
    /\ receiver = FALSE

--------------------------------------------------------------------------------
(* The threads of the executor.  The SDK is not part of the repository.        *)

DialEnds ==
    /\ dialing
    /\ dialing' = FALSE
    /\ service' \in {"connected", "built"}
    /\ UNCHANGED <<superVars, abandoned, hangUp, receiver>>

(* disconnect() closes the service.  While another thread is inside connect()  *)
(* it may as well find nothing to disconnect.                                  *)
Disconnected ==
    \/ service' = "closed" /\ dialing' = FALSE
    \/ dialing /\ UNCHANGED <<service, dialing>>

HangUpEnds ==
    /\ hangUp = "running"
    /\ hangUp' = "idle"
    /\ Disconnected
    /\ UNCHANGED <<superVars, abandoned, receiver>>

--------------------------------------------------------------------------------
(* The supervisor with the hooks                                               *)

(* A step of the supervisor that runs no code of this subclass.                *)
SolaceInherited ==
    /\ \/ Start \/ CancelledBeforeRun \/ BackoffInterrupted
       \/ StopCall \/ Join \/ JoinTimeout
    /\ UNCHANGED solaceVars

(* _do_connect up to its await: a new service and its connect() on a thread,   *)
(* or, without the SDK or with a port that is no number, neither.              *)
BuildService ==
    /\ Run \/ BackoffExpires
    /\ \/ service' = "built" /\ dialing' = TRUE
       \/ UNCHANGED <<service, dialing>>
    /\ UNCHANGED <<abandoned, hangUp, receiver>>

SolaceConnectReturns ==
    /\ ConnectReturns
    /\ service = "connected"
    /\ UNCHANGED solaceVars

(* The service has been stored before connect() raised.                        *)
SolaceConnectRaises ==
    /\ ConnectRaises
    /\ service # "connected" /\ ~dialing
    /\ handle' = IF service = "built" THEN "open" ELSE "none"
    /\ UNCHANGED solaceVars

(* Without tables there is no receiver.                                        *)
SolaceSubscribeReturns ==
    /\ SubscribeReturns
    /\ receiver' \in BOOLEAN
    /\ UNCHANGED <<service, dialing, abandoned, hangUp>>

(* The receiver is built and stored before start() may raise.                  *)
SolaceSubscribeRaises ==
    /\ SubscribeRaises
    /\ receiver' \in BOOLEAN
    /\ UNCHANGED <<service, dialing, abandoned, hangUp>>

\* Mutant: a hook of the subclass swallows CancelledError.
SolaceTryCancelled_Swallows ==
    /\ task \in TryAwaits /\ cancel
    /\ cancel' = FALSE
    /\ UNCHANGED <<current, task, raising, handle, leaked, up, stopping, restarts,
                   stop, hard, solaceVars>>

(* A connect() that has been cancelled goes on in its thread, unless it had    *)
(* not got one yet; _do_disconnect finds its service.                          *)
SolaceTryCancelled ==
    /\ TryCancelled
    /\ leaked' = leaked
    /\ task = "connecting" =>
         handle' = IF service \in {"built", "connected"} THEN "open" ELSE "none"
    /\ dialing' \in {dialing, FALSE}
    /\ abandoned' = (abandoned \/ dialing')
    /\ UNCHANGED <<service, hangUp, receiver>>

(* _do_disconnect: terminate() on a thread, then disconnect() on a thread;     *)
(* each reference is dropped in a finally clause.                              *)
Terminate ==
    /\ receiver
    /\ (task = "disconnecting" /\ ~cancel) \/ stop = "closing"
    /\ receiver' = FALSE
    /\ UNCHANGED <<superVars, service, dialing, abandoned, hangUp>>

\* Mutant: _do_disconnect starts disconnect() and does not wait for it.
SolaceDisconnectReturns_NoWait ==
    /\ DisconnectReturns
    /\ ~receiver
    /\ hangUp' = "running"
    /\ UNCHANGED <<service, dialing, abandoned, receiver>>

SolaceDisconnectReturns ==
    /\ DisconnectReturns
    /\ ~receiver
    /\ Disconnected
    /\ UNCHANGED <<abandoned, hangUp, receiver>>

SolaceStopDisconnectReturns ==
    /\ StopDisconnectReturns
    /\ ~receiver
    /\ Disconnected
    /\ UNCHANGED <<abandoned, hangUp, receiver>>

\* Mutant: interrupted, _do_disconnect drops both references.
SolaceInterrupted_DropsAll ==
    /\ handle' = "none" /\ leaked' = (leaked \/ service # "closed")
    /\ receiver' = FALSE
    /\ hangUp' \in (IF receiver THEN {hangUp} ELSE {"running", "unstarted"})
    /\ UNCHANGED <<service, dialing, abandoned>>

(* CancelledError in the first await leaves the service to whoever calls       *)
(* _do_disconnect next.  In the second the reference is dropped; a thread that *)
(* has started goes on alone, and a job that has not is cancelled with its     *)
(* await, so that nobody closes the service.                                   *)
SolaceInterrupted ==
    /\ \/ /\ receiver
          /\ receiver' = FALSE
          /\ UNCHANGED <<handle, leaked, hangUp>>
       \/ /\ ~receiver
          /\ handle' = "none"
          /\ leaked' = (leaked \/ service # "closed")
          /\ hangUp' \in {"running", "unstarted"}
          /\ UNCHANGED receiver
    /\ UNCHANGED <<service, dialing, abandoned>>

SolaceDisconnectCancelled == DisconnectCancelled /\ SolaceInterrupted

SolaceHardTimeout ==
    /\ HardTimeout
    /\ \/ stop = "closing" /\ SolaceInterrupted
       \/ stop = "reaping" /\ UNCHANGED solaceVars

(* Stopped, ended and with no thread left at work.                             *)
SolaceFinished ==
    Finished /\ ~dialing /\ hangUp # "running" /\ UNCHANGED solaceVars

SolaceNext ==
    \/ SolaceInherited \/ BuildService
    \/ SolaceConnectReturns \/ SolaceConnectRaises
    \/ SolaceSubscribeReturns \/ SolaceSubscribeRaises
    \/ SolaceTryCancelled \/ Terminate
    \/ SolaceDisconnectReturns \/ SolaceDisconnectCancelled
    \/ SolaceStopDisconnectReturns \/ SolaceHardTimeout
    \/ DialEnds \/ HangUpEnds
    \/ SolaceFinished

SolaceSpec == SolaceInit /\ [][SolaceNext]_sVars

--------------------------------------------------------------------------------
(* Properties *)

(* The hooks of this subclass keep to the behaviour Supervisor is proved for.  *)
SolaceImplementsBase == Spec

(* A new service is built only when the last one is closed and no thread works *)
(* on it any more, however the last attempt failed (solace.py, _do_connect     *)
(* overwrites _service).                                                       *)
NewServiceAfterOld ==
    [][task # "connecting" /\ task' = "connecting"
         => service \in {"none", "closed"} /\ ~dialing
              /\ hangUp = "idle" /\ ~receiver]_sVars

(* A running connector holds a reference to every service it has opened, and   *)
(* to its receiver no longer than to its service.                              *)
ServiceHeld ==
    /\ service \in {"built", "connected"} /\ ~stopping => handle = "open" \/ task = "connecting"
    /\ receiver => handle = "open"

(* stop() leaves a service open in two cases only: a thread was still          *)
(* connecting it when the task was cancelled, or the cancellation came before  *)
(* a thread had begun to disconnect it.  One interrupted while its receiver    *)
(* terminates is closed by the _do_disconnect of stop() (solace.py,            *)
(* _do_disconnect).                                                            *)
StopClosesService ==
    stop = "stopped" /\ ~hard /\ ~abandoned /\ hangUp # "unstarted" =>
        service \in {"none", "closed"} \/ hangUp = "running"

================================================================================
