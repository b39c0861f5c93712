--------------------------------- MODULE Server ---------------------------------
(***************************************************************************)
(* main() and _drain_and_close() of vortex/server.py: boot, the wait for a *)
(* signal and the bounded shutdown, with the probes of vortex/health.py.   *)
(* Each connector takes the steps of ConnectorLifecycle, the contract that *)
(* the connectors implement, with a flag its client's callbacks write as   *)
(* well where the transport is NATS; the server and its connectors share   *)
(* one event loop, so their steps interleave.                              *)
(***************************************************************************)
CONSTANTS
    Transports,     \* the transport documents read at boot
    Enabled,        \* those with enabled set
    Supported,      \* those whose type has a connector class
    NATSTransports  \* those of type nats

ASSUME ServerAssumption ==
    /\ Enabled \subseteq Transports /\ Supported \subseteq Transports
    /\ NATSTransports \subseteq Supported

(* build_connector skips an unknown type, main() a disabled transport.         *)
Connectors == Enabled \cap Supported

VARIABLES
    server,     \* what main() is suspended in
    signalled,  \* stop_event
    shutdown,   \* shutdown_flag and the gauge SHUTTING_DOWN
    listening,  \* the TCP listener accepts connections
    store,      \* the client of MongoDB
    mongo,      \* MongoDB answers a ping
    hard,       \* the timeout of the whole shutdown has expired
    phase,      \* of each connector, what it is busy with
    isUp        \* ... and what its is_up() answers

serverVars == <<server, signalled, shutdown, listening, store, mongo, hard, phase, isUp>>
mainVars == <<server, signalled, shutdown, listening, store, mongo, hard>>

Stages == {"booting", "serving", "closing", "draining", "exited", "failed"}

Life(c) == INSTANCE ConnectorLifecycle
               WITH phase <- phase[c], up <- isUp[c], Callbacks <- c \in NATSTransports

Phases == {"New", "Connecting", "Subscribing", "Serving", "Closing", "Resting",
           "Stopping", "Stopped"}

ServerTypeOK ==
    /\ server \in Stages
    /\ signalled \in BOOLEAN /\ shutdown \in BOOLEAN /\ listening \in BOOLEAN
    /\ store \in {"none", "open", "closed"}
    /\ mongo \in BOOLEAN /\ hard \in BOOLEAN
    /\ phase \in [Connectors -> Phases]
    /\ isUp \in [Connectors -> BOOLEAN]
    /\ \A c \in Connectors : Life(c)!LifeTypeOK

Init ==
    /\ server = "booting"
    /\ signalled = FALSE /\ shutdown = FALSE /\ listening = FALSE /\ hard = FALSE
    /\ store = "none"
    /\ mongo \in BOOLEAN
    /\ phase = [c \in Connectors |-> "New"]
    /\ isUp = [c \in Connectors |-> FALSE]

--------------------------------------------------------------------------------
(* main() *)

(* MongoDB goes away and comes back.                                           *)
MongoChanges ==
    /\ mongo' = ~mongo
    /\ UNCHANGED <<server, signalled, shutdown, listening, store, hard, phase, isUp>>

(* The configuration is read, the supervisors are started and the port is      *)
(* bound without a suspension in between: no connector has run by then.        *)
Boot ==
    /\ server = "booting" /\ mongo
    /\ server' = "serving"
    /\ store' = "open"
    /\ listening' = TRUE
    /\ UNCHANGED <<signalled, shutdown, mongo, hard, phase, isUp>>

(* The first ping fails: main() raises.                                        *)
BootFails ==
    /\ server = "booting" /\ ~mongo
    /\ server' = "failed"
    /\ UNCHANGED <<signalled, shutdown, listening, store, mongo, hard, phase, isUp>>

(* SIGINT or SIGTERM; a second one changes nothing.                            *)
Signal ==
    /\ server = "serving" /\ ~signalled
    /\ signalled' = TRUE
    /\ UNCHANGED <<server, shutdown, listening, store, mongo, hard, phase, isUp>>

\* Mutant: the flag is set when the connectors have been drained.
BeginShutdown_FlagLate ==
    /\ server = "serving" /\ signalled
    /\ server' = "closing"
    /\ UNCHANGED <<signalled, shutdown, listening, store, mongo, hard, phase, isUp>>

(* main() resumes and sets the flag before anything is torn down.              *)
BeginShutdown ==
    /\ server = "serving" /\ signalled
    /\ server' = "closing"
    /\ shutdown' = TRUE
    /\ UNCHANGED <<signalled, listening, store, mongo, hard, phase, isUp>>

\* Mutant: the listener is left open.
StopListening_Forgotten ==
    /\ server = "closing"
    /\ server' = "draining"
    /\ UNCHANGED <<signalled, shutdown, listening, store, mongo, hard, phase, isUp>>

(* _drain_and_close starts: the listener closes and stop() is scheduled on     *)
(* every connector.                                                            *)
StopListening ==
    /\ server = "closing"
    /\ server' = "draining"
    /\ listening' = FALSE
    /\ UNCHANGED <<signalled, shutdown, store, mongo, hard, phase, isUp>>

AllStopped == \A c \in Connectors : phase[c] = "Stopped"

\* Mutant: the store is closed before the connectors are waited for.
Drained_NoWait ==
    /\ server = "draining"
    /\ server' = "exited"
    /\ store' = IF hard THEN store ELSE "closed"
    /\ UNCHANGED <<signalled, shutdown, listening, mongo, hard, phase, isUp>>

(* gather() returns when every stop() has ended.  Cancelled by the timeout it  *)
(* raises, and the closing of the store is skipped.                            *)
Drained ==
    /\ server = "draining" /\ AllStopped
    /\ server' = "exited"
    /\ store' = IF hard THEN store ELSE "closed"
    /\ UNCHANGED <<signalled, shutdown, listening, mongo, hard, phase, isUp>>

(* Five seconds after the timeout of each stop(): by then each of them runs,   *)
(* and each still running is cancelled.                                        *)
HardTimeout ==
    /\ server = "draining" /\ ~hard /\ ~AllStopped
    /\ \A c \in Connectors : phase[c] \in {"Stopping", "Stopped"}
    /\ hard' = TRUE
    /\ UNCHANGED <<server, signalled, shutdown, listening, store, mongo, phase, isUp>>

--------------------------------------------------------------------------------
(* The connectors, on the loop of the server                                   *)

LoopRuns == server \in {"serving", "closing", "draining"}

(* What a step of connector c may change.                                      *)
Touch(c) ==
    /\ \E p \in Phases, u \in BOOLEAN : /\ phase' = [phase EXCEPT ![c] = p]
                                      /\ isUp' = [isUp EXCEPT ![c] = u]
    /\ UNCHANGED mainVars

(* The supervisor task of c and, where there is one, its client.               *)
Supervise(c) ==
    /\ LoopRuns
    /\ Touch(c)
    /\ \/ Life(c)!Begin \/ Life(c)!Connected \/ Life(c)!Serve
       \/ Life(c)!Fail \/ Life(c)!Closed \/ Life(c)!Retry
       \/ Life(c)!Flip \/ Life(c)!Withdraw

\* Mutant: only the connectors that are up are stopped.
RequestStop_OnlyUp(c) ==
    server = "draining" /\ isUp[c] /\ Touch(c) /\ Life(c)!RequestStop

(* The stop() scheduled on the connector takes its first step.                 *)
RequestStop(c) == server = "draining" /\ Touch(c) /\ Life(c)!RequestStop

(* It returns or is cancelled.                                                 *)
End(c) == LoopRuns /\ Touch(c) /\ Life(c)!End

Connector(c) == Supervise(c) \/ RequestStop(c) \/ End(c)

Next ==
    \/ MongoChanges \/ Boot \/ BootFails
    \/ Signal \/ BeginShutdown \/ StopListening \/ Drained \/ HardTimeout
    \/ \E c \in Connectors : Connector(c)

Spec == Init /\ [][Next]_serverVars

(* main() and the tasks it schedules run; every stop() ends, which is what     *)
(* Supervisor's StopEnds shows.                                                *)
Fairness ==
    /\ WF_serverVars(BeginShutdown) /\ WF_serverVars(StopListening)
    /\ WF_serverVars(Drained)
    /\ \A c \in Connectors : WF_serverVars(RequestStop(c)) /\ WF_serverVars(End(c))

FairSpec == Spec /\ Fairness

--------------------------------------------------------------------------------
(* The probes: synchronous handlers, each an answer read off one state         *)

Answering == LoopRuns

(* LivenessHandler: 200.                                                       *)
Live == Answering /\ ~shutdown

\* Mutant: readiness does not look at the flag.
Ready_IgnoresShutdown ==
    Answering /\ mongo /\ (Connectors = {} \/ \E c \in Connectors : isUp[c])

(* ReadinessHandler: 200.                                                      *)
Ready ==
    /\ Answering /\ ~shutdown
    /\ mongo
    /\ Connectors = {} \/ \E c \in Connectors : isUp[c]

--------------------------------------------------------------------------------
(* Properties *)

(* A ready server has a connector, if it has any, that is connected: in a      *)
(* complete session, or, where the client's callbacks write the flag, with a   *)
(* client that may not have subscribed yet or is being closed.  Readiness      *)
(* never rests on one that is being stopped or is left over from a stop(),     *)
(* because the flag is set before the first stop() (health.py,                 *)
(* ReadinessHandler; server.py, main; nats.py, the callbacks).                 *)
ReadyMeansConnected ==
    Ready /\ Connectors # {} =>
        \E c \in Connectors :
            /\ isUp[c]
            /\ \/ phase[c] = "Serving"
               \/ c \in NATSTransports /\ phase[c] \in {"Subscribing", "Closing"}

(* A server that is not live has been told to stop, has not yet dropped its    *)
(* listener or is draining: no connector is stopped under a live probe.        *)
LiveUntouched == Live => \A c \in Connectors : phase[c] \notin {"Stopping", "Stopped"}

(* The store is closed after every connector has ended (server.py,             *)
(* _drain_and_close).                                                          *)
StoreClosedLast == store = "closed" => AllStopped

(* The process ends with nothing running, nothing accepting and, unless the    *)
(* timeout expired, the store closed.                                          *)
CleanExit ==
    server = "exited" =>
        AllStopped /\ ~listening /\ shutdown /\ (store = "closed" <=> ~hard)

(* The order of boot and shutdown, from which the four properties above follow.*)
ShutdownOrder ==
    /\ shutdown <=> server \in {"closing", "draining", "exited"}
    /\ listening <=> server \in {"serving", "closing"}
    /\ server \in {"draining", "exited"} \/ ~hard
    /\ server \in {"draining", "exited"}
       \/ \A c \in Connectors : phase[c] \notin {"Stopping", "Stopped"}
    /\ store = "closed" => server = "exited"
    /\ server = "exited" => AllStopped /\ (store = "closed" <=> ~hard)

(* A signal is followed by the end of the process.                             *)
ShutdownCompletes == signalled ~> server = "exited"

================================================================================
