----------------------------- MODULE NATSConnector -----------------------------
(***************************************************************************)
(* NATSConnector (vortex/connectors/nats.py): the supervisor of            *)
(* Supervisor with the hooks of the NATS subclass, and the NATS client,    *)
(* which calls back into the connector from the same event loop.           *)
(*                                                                         *)
(* Every action is an action of Supervisor together with what the hook     *)
(* adds to it, so the results about the supervisor's own variables, the    *)
(* gauge among them, carry over (ImplementsBase).  What is_up() answers is *)
(* not one of them: the callbacks write it as well.                        *)
(* The reference _nc is Supervisor's handle.  A client lives from a        *)
(* successful nats.connect() until it is closed, whoever closes it, and    *)
(* reconnects by itself; its status is that of the latest client made.     *)
(***************************************************************************)
EXTENDS Supervisor, FiniteSets

CONSTANTS
    CoreTables,         \* tables of this transport with nats_mode "core"
    JetStreamTables     \* ... and with nats_mode "jetstream"

ASSUME NATSAssumption ==
    /\ IsFiniteSet(CoreTables \cup JetStreamTables)
    /\ CoreTables \cap JetStreamTables = {}

VARIABLES
    client,     \* the NATS client
    connected,  \* _connected, what is_up() answers: unlike the gauge, the
                \* callbacks change it too
    disc,       \* _disconnect_event
    watch,      \* disc_task: created, waiting for the event, or done with it
    todo,       \* tables _do_subscribe has still to go through
    subs        \* tables with a subscription on the client

natsVars == <<client, connected, disc, watch, todo, subs>>
nVars == <<superVars, natsVars>>

Tables == CoreTables \cup JetStreamTables
Clients == {"none", "linked", "unlinked", "closed"}

Alive == client \in {"linked", "unlinked"}

NATSTypeOK ==
    /\ client \in Clients
    /\ connected \in BOOLEAN /\ disc \in BOOLEAN
    /\ watch \in {"none", "created", "waiting", "seen"}
    /\ todo \subseteq (IF task = "subscribing" THEN Tables ELSE {})
    /\ subs \subseteq Tables

NATSInit ==
    /\ Init
    /\ client = "none"
    /\ connected = FALSE /\ disc = FALSE /\ watch = "none"
    /\ todo = {} /\ subs = {}

--------------------------------------------------------------------------------
(* The NATS client.  It is not part of the repository: its reconnect loop runs *)
(* the callbacks that _do_connect passed to it, on whatever client they belong *)
(* to, also on one the connector no longer refers to.                          *)

(* set() reaches a disc_task that waits; one that has not run yet looks at the *)
(* event when it does.                                                         *)
Notify == watch' = IF watch = "waiting" THEN "seen" ELSE watch

(* _on_disconnected: the client goes on to reconnect by itself.                *)
OnDisconnected ==
    /\ connected' = FALSE
    /\ disc' = TRUE
    /\ Notify

\* Mutant: only _on_closed sets the event.
LinkLost_KeepsEvent ==
    /\ client = "linked"
    /\ client' = "unlinked"
    /\ connected' = FALSE
    /\ UNCHANGED <<superVars, disc, watch, todo, subs>>

LinkLost ==
    /\ client = "linked"
    /\ client' = "unlinked"
    /\ OnDisconnected
    /\ UNCHANGED <<superVars, todo, subs>>

(* _on_reconnected: a disc_task that has seen the event is not called back.    *)
LinkBack ==
    /\ client = "unlinked"
    /\ client' = "linked"
    /\ connected' = TRUE
    /\ disc' = FALSE
    /\ UNCHANGED <<superVars, watch, todo, subs>>

(* The client gives up, by a fatal error of its server: both callbacks run.    *)
ClientDies ==
    /\ Alive
    /\ client' = "closed"
    /\ OnDisconnected
    /\ UNCHANGED <<superVars, todo, subs>>

--------------------------------------------------------------------------------
(* The supervisor with the hooks                                               *)

(* A step of the supervisor that runs no code of this subclass.                *)
Inherited ==
    /\ \/ Start \/ CancelledBeforeRun \/ DisconnectAbsorbs \/ BackoffInterrupted
       \/ StopCall \/ JoinTimeout
    /\ UNCHANGED natsVars

(* _do_connect up to its await: the event of the last session is cleared.      *)
BeginConnect ==
    /\ Run \/ BackoffExpires
    /\ disc' = FALSE
    /\ UNCHANGED <<client, connected, watch, todo, subs>>

(* nats.connect() returns: a new client without subscriptions.                 *)
NATSConnectReturns ==
    /\ ConnectReturns
    /\ client' = "linked"
    /\ todo' = Tables
    /\ subs' = {}
    /\ UNCHANGED <<connected, disc, watch>>

(* The finally clause clears _connected with the gauge.                        *)
NATSConnectRaises ==
    /\ ConnectRaises /\ handle' = "none"
    /\ connected' = FALSE
    /\ UNCHANGED <<client, disc, watch, todo, subs>>

\* Mutant: a core subscription that fails is logged and skipped too.
SubscribeOne_Lenient(t) ==
    /\ task = "subscribing" /\ ~cancel
    /\ t \in todo
    /\ todo' = todo \ {t}
    /\ subs' \in {subs, subs \cup {t}}
    /\ UNCHANGED <<superVars, client, connected, disc, watch>>

(* _subscribe_one: on a closed client a subscription fails; a JetStream one    *)
(* may fail on any client, and its failure is logged and skipped.              *)
SubscribeOne(t) ==
    /\ task = "subscribing" /\ ~cancel
    /\ t \in todo
    /\ todo' = todo \ {t}
    /\ \/ client # "closed" /\ subs' = subs \cup {t}
       \/ t \in JetStreamTables /\ UNCHANGED subs
    /\ UNCHANGED <<superVars, client, connected, disc, watch>>

(* All tables gone through: connected, and the wait creates disc_task.         *)
NATSSubscribeReturns ==
    /\ SubscribeReturns
    /\ todo = {}
    /\ connected' = TRUE
    /\ watch' = "created"
    /\ UNCHANGED <<client, disc, todo, subs>>

\* Mutant: disc_task waits for the next event, whether it is set or not.
Watch_NextOnly ==
    /\ task = "waiting" /\ watch = "created"
    /\ watch' = "waiting"
    /\ UNCHANGED <<superVars, client, connected, disc, todo, subs>>

(* Its first step, an iteration of the loop later, looks at the event.         *)
Watch ==
    /\ task = "waiting" /\ watch = "created"
    /\ watch' = IF disc THEN "seen" ELSE "waiting"
    /\ UNCHANGED <<superVars, client, connected, disc, todo, subs>>

(* A core subscription that fails fails the attempt.                           *)
NATSSubscribeRaises ==
    /\ SubscribeRaises
    /\ todo \cap CoreTables # {}
    /\ connected' = FALSE
    /\ todo' = {}
    /\ UNCHANGED <<client, disc, watch, subs>>

(* _wait_until_done raises ConnectionError once disc_task is done.             *)
NATSWaitEnds ==
    /\ WaitEnds
    /\ watch = "seen"
    /\ connected' = FALSE
    /\ watch' = "none"
    /\ UNCHANGED <<client, disc, todo, subs>>

\* Mutant: a hook of the subclass swallows CancelledError.
NATSTryCancelled_Swallows ==
    /\ task \in TryAwaits /\ cancel
    /\ cancel' = FALSE
    /\ UNCHANGED <<current, task, raising, handle, leaked, up, stopping, restarts,
                   stop, hard, natsVars>>

NATSTryCancelled ==
    /\ TryCancelled
    /\ task = "connecting" => handle' = "none"
    /\ connected' = FALSE
    /\ watch' = "none"
    /\ todo' = {}
    /\ UNCHANGED <<client, disc, subs>>

(* drain() and close() end with a closed client, whose callbacks have run.     *)
CloseClient ==
    /\ client' = "closed"
    /\ connected' = FALSE
    /\ disc' = TRUE
    /\ UNCHANGED <<watch, todo, subs>>

\* Mutant: _do_disconnect drops its reference and leaves the client alone.
NATSDisconnectReturns_Forgets == DisconnectReturns /\ UNCHANGED natsVars

NATSDisconnectReturns == DisconnectReturns /\ CloseClient

(* Interrupted in drain() or close(), _do_disconnect drops its reference and   *)
(* skips what is left: the client may be closed by then or not.                *)
InterruptedClose ==
    /\ handle' = "none"
    /\ \/ CloseClient /\ UNCHANGED leaked
       \/ UNCHANGED natsVars /\ leaked' = (leaked \/ Alive)

NATSDisconnectCancelled == DisconnectCancelled /\ InterruptedClose

(* stop() marks the connector down when it returns.                            *)
NATSJoin ==
    /\ Join
    /\ connected' = (connected /\ stop' # "stopped")
    /\ UNCHANGED <<client, disc, watch, todo, subs>>

NATSStopDisconnectReturns == StopDisconnectReturns /\ CloseClient

NATSHardTimeout ==
    /\ HardTimeout
    /\ \/ stop = "closing" /\ InterruptedClose
       \/ stop = "reaping" /\ UNCHANGED natsVars

(* Stopped, ended and with no client left to call back.                        *)
NATSFinished == Finished /\ ~Alive /\ UNCHANGED natsVars

NATSNext ==
    \/ Inherited \/ BeginConnect
    \/ NATSConnectReturns \/ NATSConnectRaises
    \/ \E t \in Tables : SubscribeOne(t)
    \/ NATSSubscribeReturns \/ NATSSubscribeRaises
    \/ Watch \/ NATSWaitEnds \/ NATSTryCancelled
    \/ NATSDisconnectReturns \/ NATSDisconnectCancelled
    \/ NATSJoin \/ NATSStopDisconnectReturns \/ NATSHardTimeout
    \/ LinkLost \/ LinkBack \/ ClientDies
    \/ NATSFinished

NATSSpec == NATSInit /\ [][NATSNext]_nVars

(* The loop runs disc_task, and the supervisor when its wait has been woken; a *)
(* subscribe request is answered or times out.                                 *)
WakeSpec ==
    /\ NATSSpec
    /\ WF_nVars(Watch) /\ WF_nVars(NATSWaitEnds) /\ WF_nVars(NATSTryCancelled)
    /\ WF_nVars(\E t \in Tables : SubscribeOne(t)) /\ WF_nVars(NATSSubscribeReturns)

--------------------------------------------------------------------------------
(* Properties *)

(* On the variables of Supervisor, the gauge but not is_up(), the hooks of     *)
(* this subclass keep to the behaviour Supervisor is proved for.               *)
ImplementsBase == Spec

NATSLife == INSTANCE ConnectorLifecycle
                WITH phase <- Phase, up <- connected, Callbacks <- TRUE

(* With what is_up() really answers, the connector keeps the contract that the *)
(* server builds on for a client that calls back: the flag changes outside a   *)
(* complete session only while there is a client, so no connector that is      *)
(* connecting or waits to reconnect answers true, and every session starts up  *)
(* and ends down (nats.py, the callbacks; base.py, _supervise_inner).          *)
NATSKeepsContract == NATSLife!Spec

(* No attempt begins while an older client is alive: no callback of an old     *)
(* client ever reaches a newer session (nats.py, the callbacks of _do_connect  *)
(* close over the connector, not over the session).                            *)
OldClientsGone == task \in {"created", "connecting", "backoff"} => ~Alive

(* The event a new session starts with has not been set by the one before it:  *)
(* the callbacks of the old client have all run before _do_connect clears it.  *)
FreshEvent == task = "connecting" => ~disc

(* While it runs, the connector holds a reference to every live client.        *)
ClientHeld == Alive /\ ~stopping => handle = "open"

(* is_up() may be true on a client that has no link, because the link was lost *)
(* before the last subscribe completed; then the event is set and disc_task    *)
(* about to look at it, or has seen it, so the session ends unless the link is *)
(* back before that (nats.py, _on_disconnected and _wait_until_done against    *)
(* base.py, _supervise_inner).                                                 *)
StaleUpIsNoticed ==
    connected /\ client # "linked" /\ ~stopping =>
        /\ task = "waiting"
        /\ watch = "seen" \/ (watch = "created" /\ disc)

(* While the gauge is up, the connector has subscribed every core table        *)
(* (base.py, _supervise_inner; nats.py, _subscribe_one).  is_up() says less: a *)
(* link lost and regained while it subscribes sets the flag before it is done. *)
CoreTablesFed == up => CoreTables \subseteq subs

(* What a session keeps true at each of its awaits, from which the four        *)
(* properties above follow.                                                    *)
SessionInvariant ==
    /\ task \in {"none", "created", "connecting", "backoff"} => ~Alive
    /\ task = "connecting" => ~disc
    /\ Alive /\ ~stopping => handle = "open"
    /\ watch # "none" <=> task = "waiting"
    /\ task = "subscribing" /\ client # "linked" => disc
    /\ task = "waiting" /\ client # "linked" =>
         watch = "seen" \/ (watch = "created" /\ disc)
    /\ connected /\ client # "linked" /\ ~stopping => task = "waiting"
    /\ task = "subscribing" => CoreTables \subseteq subs \cup todo
    /\ task = "waiting" => CoreTables \subseteq subs

(* A session whose client lost its link, or died, ends, unless the link is     *)
(* back before disc_task has looked at the event for the first time; it is not *)
(* left waiting on a client that no longer delivers (nats.py,                  *)
(* _wait_until_done).                                                          *)
BrokenSessionEnds ==
    task = "waiting" /\ client # "linked"
        ~> task # "waiting" \/ (client = "linked" /\ watch = "created")

(* The docstring of stop(): it always releases resources, even on timeout.     *)
AlwaysReleases == stop = "stopped" => ~Alive

================================================================================
