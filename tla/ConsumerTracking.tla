---------------------------- MODULE ConsumerTracking ----------------------------
(***************************************************************************)
(* TrackedPerspectiveHandler (vortex/perspective_handler.py): one handler  *)
(* for each WebSocket session of a Perspective client, and the gauges of   *)
(* sessions and of consumers of each table that all of them share.         *)
(*                                                                         *)
(* A message is the set of table names that occur in its bytes: the table  *)
(* a client asks for, names contained in that name, names in a payload.    *)
(***************************************************************************)
EXTENDS Naturals, FiniteSets

CONSTANTS Sessions, Tables

VARIABLES
    phase,      \* of each session, as Tornado sees it
    instances,  \* TrackedPerspectiveHandler._instances
    touched,    \* _tables_touched of each handler
    clients,    \* gauge WS_CLIENTS
    consumers,  \* gauge TABLE_CONSUMERS of each table
    named       \* history: the tables named in the messages of each session

trackVars == <<phase, instances, touched, clients, consumers, named>>

TrackInit ==
    /\ phase = [s \in Sessions |-> "new"]
    /\ instances = {}
    /\ touched = [s \in Sessions |-> {}]
    /\ clients = 0
    /\ consumers = [t \in Tables |-> 0]
    /\ named = [s \in Sessions |-> {}]

--------------------------------------------------------------------------------

(* open() of the base class may raise: Tornado aborts a session that has not   *)
(* been counted, and calls its on_close like that of any other.                *)
Open(s) ==
    /\ phase[s] = "new"
    /\ phase' = [phase EXCEPT ![s] = "open"]
    /\ instances' = instances \cup {s}
    /\ clients' = Cardinality(instances')
    /\ UNCHANGED <<touched, consumers, named>>

OpenRaises(s) ==
    /\ phase[s] = "new"
    /\ phase' = [phase EXCEPT ![s] = "aborted"]
    /\ UNCHANGED <<instances, touched, clients, consumers, named>>

\* Mutant: a table is counted each time it is named.
Message_CountsAgain(s) ==
    /\ phase[s] = "open"
    /\ \E names \in SUBSET Tables :
         /\ touched' = [touched EXCEPT ![s] = @ \cup names]
         /\ consumers' = [t \in Tables |-> IF t \in names THEN consumers[t] + 1 ELSE consumers[t]]
         /\ named' = [named EXCEPT ![s] = @ \cup names]
    /\ phase' \in { [phase EXCEPT ![s] = end] : end \in {"open", "aborted"} }
    /\ UNCHANGED <<instances, clients>>

(* on_message: the tables named for the first time are counted, then the base  *)
(* class handles the message or raises, whereupon Tornado aborts the session.  *)
Message(s) ==
    /\ phase[s] = "open"
    /\ \E names \in SUBSET Tables :
         /\ touched' = [touched EXCEPT ![s] = @ \cup names]
         /\ consumers' = [t \in Tables |->
                            IF t \in names \ touched[s] THEN consumers[t] + 1 ELSE consumers[t]]
         /\ named' = [named EXCEPT ![s] = @ \cup names]
    /\ phase' \in { [phase EXCEPT ![s] = end] : end \in {"open", "aborted"} }
    /\ UNCHANGED <<instances, clients>>

(* on_close, of sessions that never opened too; what the base class raises is  *)
(* swallowed.                                                                  *)
OnClose(s) ==
    /\ phase[s] \in {"open", "aborted"}
    /\ phase' = [phase EXCEPT ![s] = "closed"]
    /\ instances' = instances \ {s}
    /\ clients' = Cardinality(instances')
    /\ consumers' = [t \in Tables |-> IF t \in touched[s] THEN consumers[t] - 1 ELSE consumers[t]]
    /\ touched' = [touched EXCEPT ![s] = {}]
    /\ UNCHANGED named

TrackNext == \E s \in Sessions : Open(s) \/ OpenRaises(s) \/ Message(s) \/ OnClose(s)

--------------------------------------------------------------------------------
(* Properties *)

Connected == { s \in Sessions : phase[s] \in {"open", "aborted"} }

(* The consumers of a table are the connected sessions in whose messages its   *)
(* name has occurred, each once; the gauge of sessions counts all that are     *)
(* open and none that is gone.  Both are back at zero when the last session    *)
(* has ended, whatever ended it (perspective_handler.py, open, on_message,     *)
(* on_close).                                                                  *)
GaugesExact ==
    /\ \A t \in Tables : consumers[t] = Cardinality({ s \in Connected : t \in named[s] })
    /\ clients >= Cardinality({ s \in Sessions : phase[s] = "open" })
    /\ clients <= Cardinality(Connected)

================================================================================
