-------------------------- MODULE ConnectorLifecycle --------------------------
(***************************************************************************)
(* What the server may rely on in a connector, whatever its transport: the *)
(* contract that start(), stop() and is_up() of BaseConnector              *)
(* (vortex/connectors/base.py) offer.  Supervisor and its three subclasses *)
(* implement it, and the server is modelled on top of it.                  *)
(*                                                                         *)
(* is_up() reads a flag, _connected.  The supervisor sets it when a        *)
(* session is complete and clears it when one ends.  Where the client      *)
(* library calls back into the connector (NATS), the callbacks write it    *)
(* too, whenever there is a client: the contract of such a connector is    *)
(* weaker.                                                                 *)
(***************************************************************************)
CONSTANT Callbacks  \* do callbacks of a client library write the flag too?

VARIABLES
    phase,  \* what the connector is busy with
    up      \* the answer of is_up()

lifeVars == <<phase, up>>

Phases == {"New", "Connecting", "Subscribing", "Serving", "Closing", "Resting",
           "Stopping", "Stopped"}

(* Where there may be a client that calls back: from the end of a connect to   *)
(* the end of its close; a stop() may leave one behind.                        *)
Attached == {"Subscribing", "Serving", "Closing", "Stopping", "Stopped"}

(* Without callbacks a connector is up while it serves, and possibly for a     *)
(* moment after stop() was called on a connector that serves.                  *)
LifeTypeOK ==
    /\ phase \in Phases
    /\ up \in BOOLEAN
    /\ up => phase \in (IF Callbacks THEN Attached ELSE {"Serving", "Stopping"})
    /\ phase = "Serving" => up \/ Callbacks

Init == phase = "New" /\ up = FALSE

(* The supervisor task begins its first attempt.                               *)
Begin == phase = "New" /\ phase' = "Connecting" /\ UNCHANGED up

Connected == phase = "Connecting" /\ phase' = "Subscribing" /\ UNCHANGED up

(* Connected and subscribed.                                                   *)
Serve == phase = "Subscribing" /\ phase' = "Serving" /\ up' = TRUE

(* A hook failed, or the session ended; what is open is closed.                *)
Fail ==
    /\ phase \in {"Connecting", "Subscribing", "Serving"}
    /\ phase' \in {"Closing", "Resting"}
    /\ up' = FALSE

Closed == phase = "Closing" /\ phase' = "Resting" /\ up' = FALSE

(* The delay has elapsed: the next attempt.                                    *)
Retry == phase = "Resting" /\ phase' = "Connecting" /\ UNCHANGED up

(* A callback of the client.                                                   *)
Flip == Callbacks /\ phase \in Attached /\ up' = ~up /\ UNCHANGED phase

(* stop() is called.                                                           *)
RequestStop ==
    phase \notin {"Stopping", "Stopped"} /\ phase' = "Stopping" /\ UNCHANGED up

(* The supervisor task leaves its session on the way out.                      *)
Withdraw == phase = "Stopping" /\ up /\ up' = FALSE /\ UNCHANGED phase

(* stop() returns or is cancelled; cancelled, it leaves the flag as it is.     *)
End ==
    /\ phase = "Stopping" /\ phase' = "Stopped"
    /\ up' \in {FALSE, Callbacks /\ up}

Next ==
    \/ Begin \/ Connected \/ Serve \/ Fail \/ Closed \/ Retry
    \/ Flip \/ RequestStop \/ Withdraw \/ End

Spec == Init /\ [][Next]_lifeVars

================================================================================
