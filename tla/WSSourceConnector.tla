--------------------------- MODULE WSSourceConnector ---------------------------
(***************************************************************************)
(* WSSourceConnector (vortex/connectors/websocket_src.py): the supervisor  *)
(* of Supervisor with the hooks of the WebSocket subclass, and the socket, *)
(* which the peer, or an unanswered ping, may close at any moment.         *)
(*                                                                         *)
(* The reference _ws is Supervisor's handle.  The wait is the read loop;   *)
(* without tables it reads nothing and waits for stop().  The branch of    *)
(* the read loop that looks at _stopping is left out: stop() cancels the   *)
(* task in the step that sets the flag, so the loop never gets there.      *)
(***************************************************************************)
EXTENDS Supervisor

CONSTANTS
    HasTables,  \* does the registry have tables for this transport?
    MaxBuffer   \* bound: messages received and not yet read

ASSUME WSAssumption == HasTables \in BOOLEAN /\ MaxBuffer \in Nat

VARIABLES
    socket,     \* the latest socket opened
    buffer      \* messages on it, received and not yet read

wsVars == <<socket, buffer>>
wVars == <<superVars, wsVars>>

WSTypeOK ==
    /\ socket \in {"none", "open", "closed"}
    /\ buffer \in 0 .. MaxBuffer

WSInit == Init /\ socket = "none" /\ buffer = 0

--------------------------------------------------------------------------------
(* The peer                                                                    *)

PeerSends ==
    /\ socket = "open" /\ buffer < MaxBuffer
    /\ buffer' = buffer + 1
    /\ UNCHANGED <<superVars, socket>>

(* What has been received can still be read.                                   *)
SocketCloses ==
    /\ socket = "open"
    /\ socket' = "closed"
    /\ UNCHANGED <<superVars, buffer>>

--------------------------------------------------------------------------------
(* The supervisor with the hooks                                               *)

(* A step of the supervisor that leaves the socket alone.  A connect that      *)
(* fails has stored nothing; _do_subscribe cannot fail.                        *)
WSInherited ==
    /\ \/ Start \/ Run \/ CancelledBeforeRun
       \/ ConnectRaises /\ handle' = "none"
       \/ SubscribeReturns
       \/ TryCancelled /\ (task = "connecting" => handle' = "none" /\ leaked' = leaked)
       \/ DisconnectAbsorbs \/ BackoffExpires \/ BackoffInterrupted
       \/ StopCall \/ Join \/ JoinTimeout
    /\ UNCHANGED wsVars

WSConnectReturns ==
    /\ ConnectReturns
    /\ socket' = "open"
    /\ buffer' = 0

\* Mutant: the loop goes on reading when it has been cancelled.
ReadMessage_IgnoresCancel ==
    /\ task = "waiting" /\ HasTables /\ buffer > 0
    /\ buffer' = buffer - 1
    /\ UNCHANGED <<superVars, socket>>

(* A message read and dispatched, which never raises (Ingest follows what      *)
(* becomes of it).                                                             *)
ReadMessage ==
    /\ task = "waiting" /\ HasTables /\ ~cancel /\ buffer > 0
    /\ buffer' = buffer - 1
    /\ UNCHANGED <<superVars, socket>>

\* Mutant: a connection the peer closes normally is waited on for ever.
WSWaitEnds_Never == FALSE /\ WaitEnds /\ UNCHANGED wsVars

(* The iteration over a closed socket ends, by its end or by ConnectionClosed, *)
(* once everything received has been read.                                     *)
WSWaitEnds ==
    /\ WaitEnds
    /\ HasTables /\ socket = "closed" /\ buffer = 0
    /\ UNCHANGED wsVars

Close == socket' = "closed" /\ buffer' = 0

\* Mutant: _do_disconnect closes the socket and keeps its reference.
WSDisconnectReturns_Keeps ==
    /\ task = "disconnecting" /\ ~cancel
    /\ LoopEnd(raising)
    /\ Close
    /\ UNCHANGED <<cancel, handle, leaked, up, stopping, restarts, stop, hard>>

\* Mutant: a close that takes long is given up with its reference.
WSDisconnectReturns_Drops == DisconnectReturns /\ (Close \/ UNCHANGED wsVars)

(* close() sends a close frame and waits at most close_timeout for an answer;  *)
(* an exception of it is swallowed.                                            *)
WSDisconnectReturns == DisconnectReturns /\ Close

(* close() interrupted: the reference is dropped, the socket closed or not.    *)
WSInterrupted ==
    /\ handle' = "none"
    /\ \/ Close /\ UNCHANGED leaked
       \/ UNCHANGED wsVars /\ leaked' = (leaked \/ socket = "open")

WSDisconnectCancelled == DisconnectCancelled /\ WSInterrupted

WSStopDisconnectReturns == StopDisconnectReturns /\ Close

WSHardTimeout ==
    /\ HardTimeout
    /\ \/ stop = "closing" /\ WSInterrupted
       \/ stop = "reaping" /\ UNCHANGED wsVars

(* Stopped, ended and with no socket left that could receive.                  *)
WSFinished == Finished /\ socket # "open" /\ UNCHANGED wsVars

WSNext ==
    \/ WSInherited \/ WSConnectReturns
    \/ ReadMessage \/ WSWaitEnds
    \/ WSDisconnectReturns \/ WSDisconnectCancelled
    \/ WSStopDisconnectReturns \/ WSHardTimeout
    \/ PeerSends \/ SocketCloses
    \/ WSFinished

(* The loop runs a reader that has something to read, or whose socket closed.  *)
WSSpec ==
    /\ WSInit /\ [][WSNext]_wVars
    /\ WF_wVars(ReadMessage) /\ WF_wVars(WSWaitEnds)
    /\ WF_wVars(TryCancelled /\ UNCHANGED wsVars)

--------------------------------------------------------------------------------
(* Properties *)

(* The hooks of this subclass keep to the behaviour Supervisor is proved for.  *)
WSImplementsBase == Spec

(* A socket is open only while _ws refers to it, or when stop() has cut its    *)
(* close short; so an attempt never opens one beside another                   *)
(* (websocket_src.py, _do_disconnect, which drops its reference however the    *)
(* close ends).                                                                *)
OneSocket ==
    /\ task \in {"created", "connecting", "backoff"} => socket # "open"
    /\ socket = "open" => handle = "open" \/ (leaked /\ stopping)

(* Nothing is dispatched once stop() has been called (websocket_src.py, the    *)
(* look at _stopping inside the read loop).                                    *)
NothingReadAfterStop ==
    [][stopping /\ task = "waiting" /\ task' = "waiting" => buffer' >= buffer]_wVars

(* With a table to feed, a closed socket is noticed and its session ends;      *)
(* without one the wait holds on to it (websocket_src.py, _wait_until_done).   *)
ClosedSocketIsNoticed ==
    HasTables => (task = "waiting" /\ socket = "closed" ~> task # "waiting")

================================================================================
