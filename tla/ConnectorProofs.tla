---------------------------- MODULE ConnectorProofs ----------------------------
(***************************************************************************)
(* The three subclasses of BaseConnector.  The hooks of each keep to the   *)
(* base class, so that what is proved of Supervisor's variables holds of   *)
(* all of them.  Each keeps the contract the server relies on, NATS with   *)
(* the flag its callbacks write.  Then what each promises of its own       *)
(* resources, for any tables, any behaviour of the client library, any     *)
(* time at which a thread ends and any number of messages on the wire.     *)
(***************************************************************************)
EXTENDS NATSConnector, SolaceConnector, WSSourceConnector, SupervisorProofs

--------------------------------------------------------------------------------
(* NATS *)

(* A step with the hooks is a step of the base class.                          *)
LEMMA NATSBaseStep == [NATSNext]_nVars => [Next]_superVars
BY DEF NATSNext, nVars, superVars, natsVars, Next, Supervise, StopConnector, Inherited, BeginConnect,
   NATSConnectReturns, NATSConnectRaises, SubscribeOne, NATSSubscribeReturns,
   NATSSubscribeRaises, Watch, NATSWaitEnds, NATSTryCancelled, NATSDisconnectReturns,
   NATSDisconnectCancelled, NATSJoin, NATSStopDisconnectReturns, NATSHardTimeout,
   LinkLost, LinkBack, ClientDies, NATSFinished

(* The NATS subclass implements the base class on the base class's variables.  *)
LEMMA NATSHooksKeepToBase == NATSSpec => ImplementsBase
<1>1. NATSInit => Init
  BY DEF NATSInit
<1> QED BY <1>1, NATSBaseStep, PTL DEF NATSSpec, Spec, ImplementsBase

(* The types of the subclass's own variables.                                  *)
LEMMA NATSTypeStep ==
    ASSUME TypeOK, Coordination, NATSTypeOK, [NATSNext]_nVars
    PROVE  NATSTypeOK'
<1> USE DEF NATSTypeOK, Clients, TypeOK, Coordination, Tasks, Stops, Handles
<1>1. CASE Inherited
  BY <1>1 DEF Inherited, Start, CancelledBeforeRun, DisconnectAbsorbs, BackoffInterrupted, StopCall, JoinTimeout, natsVars
<1>2. CASE BeginConnect
  BY <1>2 DEF BeginConnect, Run, BackoffExpires
<1>3. CASE NATSConnectReturns
  BY <1>3 DEF NATSConnectReturns, ConnectReturns
<1>4. CASE NATSConnectRaises
  BY <1>4 DEF NATSConnectRaises, ConnectRaises, LeaveTry, LoopEnd
<1>5. CASE \E t \in Tables : SubscribeOne(t)
  BY <1>5 DEF SubscribeOne, superVars, Tables
<1>6. CASE NATSSubscribeReturns
  BY <1>6 DEF NATSSubscribeReturns, SubscribeReturns
<1>7. CASE NATSSubscribeRaises
  BY <1>7 DEF NATSSubscribeRaises, SubscribeRaises, LeaveTry, LoopEnd
<1>8. CASE NATSWaitEnds
  BY <1>8 DEF NATSWaitEnds, WaitEnds, LeaveTry, LoopEnd
<1>9. CASE NATSTryCancelled
  BY <1>9 DEF NATSTryCancelled, TryCancelled, TryAwaits, LeaveTry, LoopEnd
<1>10. CASE NATSDisconnectReturns
  BY <1>10 DEF NATSDisconnectReturns, DisconnectReturns, CloseClient, LoopEnd
<1>11. CASE NATSDisconnectCancelled
  BY <1>11 DEF NATSDisconnectCancelled, DisconnectCancelled, InterruptedClose, CloseClient, natsVars
<1>12. CASE NATSJoin
  BY <1>12 DEF NATSJoin, Join, EnterClosing
<1>13. CASE NATSStopDisconnectReturns
  BY <1>13 DEF NATSStopDisconnectReturns, StopDisconnectReturns, CloseClient
<1>14. CASE NATSHardTimeout
  BY <1>14 DEF NATSHardTimeout, HardTimeout, InterruptedClose, CloseClient, EnterClosing, natsVars
<1>15. CASE LinkLost
  BY <1>15 DEF LinkLost, OnDisconnected, Notify, superVars
<1>16. CASE LinkBack
  BY <1>16 DEF LinkBack, superVars
<1>17. CASE ClientDies
  BY <1>17 DEF ClientDies, OnDisconnected, Notify, superVars
<1>18. CASE NATSFinished
  BY <1>18 DEF NATSFinished, Finished, superVars, natsVars
<1>19. CASE Watch
  BY <1>19 DEF Watch, superVars
<1>20. CASE UNCHANGED nVars
  BY <1>20 DEF nVars, superVars, natsVars
<1> QED
  BY <1>1, <1>2, <1>3, <1>4, <1>5, <1>6, <1>7, <1>8, <1>9, <1>10, <1>11, <1>12, <1>13, <1>14, <1>15, <1>16, <1>17, <1>18, <1>19, <1>20
  DEF NATSNext

(* The session invariant survives every step.                                  *)
LEMMA SessionStep ==
    ASSUME TypeOK, Coordination, NATSTypeOK, SessionInvariant, [NATSNext]_nVars
    PROVE  SessionInvariant'
<1> USE DEF NATSTypeOK, Clients, TypeOK, Coordination, Tasks, Stops, Handles
<1> USE DEF SessionInvariant, Alive
<1>1. CASE Inherited
  BY <1>1 DEF Inherited, Start, CancelledBeforeRun, DisconnectAbsorbs, BackoffInterrupted, StopCall, JoinTimeout, natsVars
<1>2. CASE BeginConnect
  BY <1>2 DEF BeginConnect, Run, BackoffExpires
<1>3. CASE NATSConnectReturns
  BY <1>3 DEF NATSConnectReturns, ConnectReturns, Tables
<1>4. CASE NATSConnectRaises
  BY <1>4 DEF NATSConnectRaises, ConnectRaises, LeaveTry, LoopEnd
<1>5. CASE \E t \in Tables : SubscribeOne(t)
  <2>1. PICK t \in Tables : SubscribeOne(t)
    BY <1>5
  <2>2. CoreTables \subseteq subs' \cup todo'
    <3>1. CoreTables \subseteq subs \cup todo /\ todo' = todo \ {t}
      BY <2>1 DEF SubscribeOne
    <3>2. CASE subs' = subs \cup {t}
      BY <3>1, <3>2
    <3>3. CASE t \in JetStreamTables /\ subs' = subs
      BY <3>1, <3>3, NATSAssumption
    <3> QED BY <2>1, <3>2, <3>3 DEF SubscribeOne
  <2>3. UNCHANGED <<task, client, connected, disc, watch, handle, stopping>> /\ task = "subscribing"
    BY <2>1 DEF SubscribeOne, superVars
  <2> QED BY <2>2, <2>3
<1>6. CASE NATSSubscribeReturns
  BY <1>6 DEF NATSSubscribeReturns, SubscribeReturns
<1>7. CASE NATSSubscribeRaises
  BY <1>7 DEF NATSSubscribeRaises, SubscribeRaises, LeaveTry, LoopEnd
<1>8. CASE NATSWaitEnds
  BY <1>8 DEF NATSWaitEnds, WaitEnds, LeaveTry, LoopEnd
<1>9. CASE NATSTryCancelled
  BY <1>9 DEF NATSTryCancelled, TryCancelled, TryAwaits, LeaveTry, LoopEnd
<1>10. CASE NATSDisconnectReturns
  BY <1>10 DEF NATSDisconnectReturns, DisconnectReturns, CloseClient, LoopEnd
<1>11. CASE NATSDisconnectCancelled
  BY <1>11 DEF NATSDisconnectCancelled, DisconnectCancelled, InterruptedClose, CloseClient, natsVars
<1>12. CASE NATSJoin
  BY <1>12 DEF NATSJoin, Join, EnterClosing
<1>13. CASE NATSStopDisconnectReturns
  BY <1>13 DEF NATSStopDisconnectReturns, StopDisconnectReturns, CloseClient
<1>14. CASE NATSHardTimeout
  BY <1>14 DEF NATSHardTimeout, HardTimeout, InterruptedClose, CloseClient, EnterClosing, natsVars
<1>15. CASE LinkLost
  BY <1>15 DEF LinkLost, OnDisconnected, Notify, superVars
<1>16. CASE LinkBack
  BY <1>16 DEF LinkBack, superVars
<1>17. CASE ClientDies
  BY <1>17 DEF ClientDies, OnDisconnected, Notify, superVars
<1>18. CASE NATSFinished
  BY <1>18 DEF NATSFinished, Finished, superVars, natsVars
<1>19. CASE Watch
  BY <1>19 DEF Watch, superVars
<1>20. CASE UNCHANGED nVars
  BY <1>20 DEF nVars, superVars, natsVars
<1> QED
  BY <1>1, <1>2, <1>3, <1>4, <1>5, <1>6, <1>7, <1>8, <1>9, <1>10, <1>11, <1>12, <1>13, <1>14, <1>15, <1>16, <1>17, <1>18, <1>19, <1>20
  DEF NATSNext

(* Every session of the NATS connector is consistent at every await.           *)
THEOREM SessionsConsistent ==
    NATSSpec => [](TypeOK /\ Coordination /\ NATSTypeOK /\ SessionInvariant)
<1>1. NATSInit => NATSTypeOK /\ SessionInvariant
  BY DEF NATSInit, Init, NATSTypeOK, SessionInvariant, Clients, Alive
<1>2. /\ TypeOK /\ Coordination /\ (NATSTypeOK /\ SessionInvariant)
      /\ [NATSNext]_nVars
      => (NATSTypeOK /\ SessionInvariant)'
  BY NATSTypeStep, SessionStep
<1>3. NATSSpec => [](TypeOK /\ Coordination)
  BY NATSHooksKeepToBase, Coordinated DEF ImplementsBase
<1> QED BY <1>1, <1>2, <1>3, PTL DEF NATSSpec

LEMMA SafeSessions ==
    ASSUME TypeOK, Coordination, SessionInvariant
    PROVE  OldClientsGone /\ FreshEvent /\ ClientHeld /\ StaleUpIsNoticed /\ CoreTablesFed
BY DEF TypeOK, Coordination, SessionInvariant, OldClientsGone, FreshEvent, ClientHeld,
       StaleUpIsNoticed, CoreTablesFed, Alive

(* No callback of an old client reaches a new session, whose event is its own, *)
(* and every live client is held (nats.py, _do_connect and _do_disconnect).    *)
THEOREM NATSIsSafe == NATSSpec => [](OldClientsGone /\ FreshEvent /\ ClientHeld)
BY SafeSessions, SessionsConsistent, PTL

(* A stale is_up() is about to be withdrawn, whatever the client does (nats.py,*)
(* _on_disconnected and _wait_for_disconnect).                                 *)
THEOREM StaleUpEnds == NATSSpec => []StaleUpIsNoticed
BY SafeSessions, SessionsConsistent, PTL

(* A session that is up feeds every core table, for any tables (nats.py,       *)
(* _do_subscribe_tables).                                                      *)
THEOREM CoreTablesAreFed == NATSSpec => []CoreTablesFed
BY SafeSessions, SessionsConsistent, PTL

(* A step of the connector, its callbacks included, is a step of the contract  *)
(* of a connector whose client calls back, or leaves it unchanged.             *)
LEMMA NATSContractStep ==
    ASSUME TypeOK, Coordination, NATSTypeOK, SessionInvariant, [NATSNext]_nVars
    PROVE  [NATSLife!Next]_(NATSLife!lifeVars)
<1> USE DEF NATSTypeOK, Clients, TypeOK, Coordination, Tasks, Stops, Handles
<1> USE DEF SessionInvariant, Alive, Phase, NATSLife!Attached
<1> USE DEF NATSLife!Next, NATSLife!lifeVars, NATSLife!Begin, NATSLife!Connected,
            NATSLife!Serve, NATSLife!Fail, NATSLife!Closed, NATSLife!Retry, NATSLife!Flip,
            NATSLife!RequestStop, NATSLife!Withdraw, NATSLife!End
<1>1. CASE Inherited
  BY <1>1 DEF Inherited, Start, CancelledBeforeRun, DisconnectAbsorbs, BackoffInterrupted, StopCall, JoinTimeout, natsVars
<1>2. CASE BeginConnect
  BY <1>2 DEF BeginConnect, Run, BackoffExpires
<1>3. CASE NATSConnectReturns
  BY <1>3 DEF NATSConnectReturns, ConnectReturns
<1>4. CASE NATSConnectRaises
  BY <1>4 DEF NATSConnectRaises, ConnectRaises, LeaveTry, LoopEnd
<1>5. CASE \E t \in Tables : SubscribeOne(t)
  BY <1>5 DEF SubscribeOne, superVars
<1>6. CASE NATSSubscribeReturns
  BY <1>6 DEF NATSSubscribeReturns, SubscribeReturns
<1>7. CASE NATSSubscribeRaises
  BY <1>7 DEF NATSSubscribeRaises, SubscribeRaises, LeaveTry, LoopEnd
<1>8. CASE NATSWaitEnds
  BY <1>8 DEF NATSWaitEnds, WaitEnds, LeaveTry, LoopEnd
<1>9. CASE NATSTryCancelled
  BY <1>9 DEF NATSTryCancelled, TryCancelled, TryAwaits, LeaveTry, LoopEnd
<1>10. CASE NATSDisconnectReturns
  BY <1>10 DEF NATSDisconnectReturns, DisconnectReturns, CloseClient, LoopEnd
<1>11. CASE NATSDisconnectCancelled
  BY <1>11 DEF NATSDisconnectCancelled, DisconnectCancelled, InterruptedClose, CloseClient, natsVars
<1>12. CASE NATSJoin
  BY <1>12 DEF NATSJoin, Join, EnterClosing
<1>13. CASE NATSStopDisconnectReturns
  BY <1>13 DEF NATSStopDisconnectReturns, StopDisconnectReturns, CloseClient
<1>14. CASE NATSHardTimeout
  BY <1>14 DEF NATSHardTimeout, HardTimeout, InterruptedClose, CloseClient, EnterClosing, natsVars
<1>15. CASE LinkLost
  BY <1>15 DEF LinkLost, OnDisconnected, superVars
<1>16. CASE LinkBack
  BY <1>16 DEF LinkBack, superVars
<1>17. CASE ClientDies
  BY <1>17 DEF ClientDies, OnDisconnected, superVars
<1>18. CASE NATSFinished
  BY <1>18 DEF NATSFinished, Finished, superVars, natsVars
<1>19. CASE Watch
  BY <1>19 DEF Watch, superVars
<1>20. CASE UNCHANGED nVars
  BY <1>20 DEF nVars, superVars, natsVars
<1> QED
  BY <1>1, <1>2, <1>3, <1>4, <1>5, <1>6, <1>7, <1>8, <1>9, <1>10, <1>11, <1>12, <1>13, <1>14, <1>15, <1>16, <1>17, <1>18, <1>19, <1>20
  DEF NATSNext

(* The NATS connector keeps the contract of a connector whose client calls     *)
(* back, with the flag that is_up() reads, callbacks and all (nats.py; base.py,*)
(* _supervise_inner and stop).                                                 *)
THEOREM NATSImplementsContract == NATSSpec => NATSKeepsContract
<1>1. NATSInit => NATSLife!Init
  BY DEF NATSInit, Init, NATSLife!Init, Phase
<1>2. /\ TypeOK /\ Coordination /\ NATSTypeOK /\ SessionInvariant
      /\ [NATSNext]_nVars
      => [NATSLife!Next]_(NATSLife!lifeVars)
  BY NATSContractStep
<1> QED BY <1>1, <1>2, SessionsConsistent, PTL DEF NATSSpec, NATSKeepsContract, NATSLife!Spec

--------------------------------------------------------------------------------
(* Solace *)

(* A step with the hooks is a step of the base class.                          *)
LEMMA SolaceBaseStep == [SolaceNext]_sVars => [Next]_superVars
BY DEF SolaceNext, sVars, superVars, Next, Supervise, StopConnector, SolaceInherited, BuildService,
   SolaceConnectReturns, SolaceConnectRaises, SolaceSubscribeReturns, SolaceSubscribeRaises,
   SolaceTryCancelled, Terminate, SolaceDisconnectReturns, SolaceDisconnectCancelled,
   SolaceStopDisconnectReturns, SolaceHardTimeout, DialEnds, HangUpEnds, SolaceFinished

(* The Solace subclass implements the base class (solace.py).                  *)
THEOREM SolaceHooksKeepToBase == SolaceSpec => SolaceImplementsBase
<1>1. SolaceInit => Init
  BY DEF SolaceInit
<1> QED BY <1>1, SolaceBaseStep, PTL DEF SolaceSpec, Spec, SolaceImplementsBase

(* Between attempts nothing is open and no thread is at work.  Threads outlive *)
(* their hooks only once the connector is being stopped.  A task that ended    *)
(* without a reference has closed its service, or was cancelled while it did.  *)
ServiceInvariant ==
    /\ SolaceTypeOK /\ ServiceHeld
    /\ abandoned \/ hangUp # "idle" => stopping
    /\ task \in {"none", "created", "backoff"} =>
         service \in {"none", "closed"} /\ ~dialing /\ hangUp = "idle" /\ ~receiver
    /\ task = "done" /\ handle = "none" /\ ~hard /\ ~abandoned =>
         service \in {"none", "closed"} \/ hangUp # "idle"

(* What an interrupted _do_disconnect leaves behind.                           *)
LEMMA Interruption ==
    ASSUME SolaceTypeOK, SolaceInterrupted
    PROVE  /\ UNCHANGED <<service, dialing, abandoned>>
           /\ ~receiver' /\ receiver' \in BOOLEAN
           /\ \/ receiver /\ handle' = handle /\ hangUp' = hangUp
              \/ handle' = "none" /\ hangUp' \in {"running", "unstarted"}
<1>1. UNCHANGED <<service, dialing, abandoned>>
  BY DEF SolaceInterrupted
<1>2. receiver' \in BOOLEAN /\ ~receiver'
  <2>1. CASE receiver' = FALSE
    BY <2>1
  <2>2. CASE ~receiver /\ receiver' = receiver
    BY <2>2 DEF SolaceTypeOK
  <2> QED BY <2>1, <2>2, Zenon DEF SolaceInterrupted
<1> QED BY <1>1, <1>2, Zenon DEF SolaceInterrupted

LEMMA ServiceStep ==
    ASSUME TypeOK, Coordination, ServiceInvariant, [SolaceNext]_sVars
    PROVE  ServiceInvariant'
<1> USE DEF ServiceInvariant, SolaceTypeOK, ServiceHeld, Coordination, TypeOK, Tasks, Handles
<1>1. CASE SolaceInherited
  <2>1. UNCHANGED solaceVars
    BY <1>1 DEF SolaceInherited
  <2>2. CASE Start \/ CancelledBeforeRun \/ BackoffInterrupted
    BY <2>1, <2>2 DEF Start, CancelledBeforeRun, BackoffInterrupted, solaceVars
  <2>3. CASE StopCall \/ Join \/ JoinTimeout
    BY <2>1, <2>3 DEF StopCall, Join, JoinTimeout, solaceVars
  <2> QED BY <1>1, <2>2, <2>3 DEF SolaceInherited
<1>2. CASE BuildService
  <2>1. /\ task \in {"created", "backoff"} /\ task' = "connecting"
        /\ UNCHANGED <<abandoned, hangUp, receiver, handle, stopping, hard>>
    BY <1>2 DEF BuildService, Run, BackoffExpires
  <2>2. \/ service' = "built" /\ dialing' \in BOOLEAN
        \/ UNCHANGED <<service, dialing>>
    BY <1>2 DEF BuildService
  <2> QED BY <2>1, <2>2
<1>3. CASE SolaceConnectReturns
  BY <1>3 DEF SolaceConnectReturns, ConnectReturns, solaceVars
<1>4. CASE SolaceConnectRaises
  BY <1>4 DEF SolaceConnectRaises, ConnectRaises, LeaveTry, LoopEnd, solaceVars
<1>5. CASE SolaceSubscribeReturns
  BY <1>5 DEF SolaceSubscribeReturns, SubscribeReturns
<1>6. CASE SolaceSubscribeRaises
  BY <1>6 DEF SolaceSubscribeRaises, SubscribeRaises, LeaveTry, LoopEnd
<1>7. CASE SolaceTryCancelled
  <2>1. /\ task \in TryAwaits /\ cancel /\ stopping /\ stopping' = stopping
        /\ UNCHANGED <<service, hangUp, receiver, hard>>
        /\ dialing' \in {dialing, FALSE} /\ abandoned' = (abandoned \/ dialing')
    BY <1>7 DEF SolaceTryCancelled, TryCancelled
  <2>2. /\ task' = IF handle' = "open" THEN "disconnecting" ELSE "done"
        /\ handle' \in Handles
        /\ task # "connecting" => handle' = handle /\ handle = "open"
        /\ task = "connecting" /\ handle' = "none" => service \notin {"built", "connected"}
    BY <1>7 DEF SolaceTryCancelled, TryCancelled, TryAwaits, LeaveTry, LoopEnd
  <2>3. dialing' \in BOOLEAN /\ abandoned' \in BOOLEAN
    BY <2>1
  <2>4. dialing' => dialing /\ abandoned'
    BY <2>1
  <2>5. SolaceTypeOK'
    BY <2>1, <2>3, <2>4
  <2> QED BY <2>1, <2>2, <2>5 DEF TryAwaits
<1>8. CASE Terminate
  BY <1>8 DEF Terminate, superVars
<1>9. CASE SolaceDisconnectReturns
  BY <1>9 DEF SolaceDisconnectReturns, DisconnectReturns, Disconnected, LoopEnd
<1>10. CASE SolaceDisconnectCancelled
  <2>1. /\ task = "disconnecting" /\ task' = "done" /\ stopping
        /\ UNCHANGED <<service, dialing, abandoned, stopping, hard>>
        /\ ~receiver' /\ receiver' \in BOOLEAN
        /\ \/ receiver /\ handle' = handle /\ hangUp' = hangUp
           \/ handle' = "none" /\ hangUp' \in {"running", "unstarted"}
    BY <1>10, Interruption DEF SolaceDisconnectCancelled, DisconnectCancelled
  <2> QED BY <2>1
<1>11. CASE SolaceStopDisconnectReturns
  BY <1>11 DEF SolaceStopDisconnectReturns, StopDisconnectReturns, Disconnected
<1>12. CASE SolaceHardTimeout
  <2>1. hard' /\ stopping /\ UNCHANGED <<task, stopping>>
        /\ task \in {"disconnecting", "done"}
    BY <1>12 DEF SolaceHardTimeout, HardTimeout
  <2>2. CASE stop = "closing" /\ SolaceInterrupted
    <3>1. /\ UNCHANGED <<service, dialing, abandoned>>
          /\ ~receiver' /\ receiver' \in BOOLEAN
          /\ hangUp' \in {hangUp, "running", "unstarted"}
          /\ handle' \in {handle, "none"}
      BY <2>2, Interruption
    <3> QED BY <2>1, <3>1
  <2>3. CASE stop = "reaping" /\ UNCHANGED solaceVars
    <3>1. UNCHANGED handle
      BY <1>12, <2>3 DEF SolaceHardTimeout, HardTimeout
    <3> QED BY <2>1, <2>3, <3>1 DEF solaceVars
  <2> QED BY <1>12, <2>2, <2>3 DEF SolaceHardTimeout
<1>13. CASE DialEnds
  BY <1>13 DEF DialEnds, superVars
<1>14. CASE HangUpEnds
  BY <1>14 DEF HangUpEnds, Disconnected, superVars
<1>15. CASE SolaceFinished \/ UNCHANGED sVars
  BY <1>15 DEF SolaceFinished, Finished, sVars, superVars, solaceVars
<1> QED
  BY <1>1, <1>2, <1>3, <1>4, <1>5, <1>6, <1>7, <1>8, <1>9, <1>10, <1>11, <1>12, <1>13, <1>14, <1>15
  DEF SolaceNext

LEMMA ServicesConsistent == SolaceSpec => [](TypeOK /\ Coordination /\ ServiceInvariant)
<1>1. SolaceInit => ServiceInvariant
  BY DEF SolaceInit, Init, ServiceInvariant, SolaceTypeOK, ServiceHeld
<1>2. SolaceSpec => [](TypeOK /\ Coordination)
  BY SolaceHooksKeepToBase, Coordinated DEF SolaceImplementsBase
<1> QED BY <1>1, <1>2, ServiceStep, PTL DEF SolaceSpec

(* Every service is held while the connector runs, and a stop() that is not    *)
(* cut short leaves one open only where a connect was abandoned in its thread, *)
(* or a disconnect cancelled before its thread had begun (solace.py,           *)
(* _do_connect and _do_disconnect).                                            *)
THEOREM ServicesAreClosed == SolaceSpec => [](ServiceHeld /\ StopClosesService)
<1>1. TypeOK /\ Coordination /\ ServiceInvariant => ServiceHeld /\ StopClosesService
  BY DEF ServiceInvariant, SolaceTypeOK, Coordination, StopClosesService
<1> QED BY <1>1, ServicesConsistent, PTL

(* A new service is built only when the last one is closed and no thread works *)
(* on it, so that overwriting _service loses nothing (solace.py, _do_connect). *)
THEOREM OneServiceAtATime == SolaceSpec => NewServiceAfterOld
<1>1. Coordination /\ ServiceInvariant /\ [SolaceNext]_sVars =>
        [task # "connecting" /\ task' = "connecting"
           => service \in {"none", "closed"} /\ ~dialing
                /\ hangUp = "idle" /\ ~receiver]_sVars
  <2> SUFFICES ASSUME Coordination, ServiceInvariant, [SolaceNext]_sVars,
                      task # "connecting", task' = "connecting"
               PROVE  task \in {"none", "created", "backoff"}
    BY DEF ServiceInvariant
  <2>1. [Next]_superVars
    BY SolaceBaseStep
  <2> QED BY <2>1 DEF Next, Supervise, StopConnector, superVars, Start, Run, CancelledBeforeRun, ConnectReturns,
      ConnectRaises, SubscribeReturns, SubscribeRaises, WaitEnds, TryCancelled, DisconnectReturns,
      DisconnectCancelled, DisconnectAbsorbs, BackoffExpires, BackoffInterrupted, LeaveTry, LoopEnd,
      StopCall, Join, JoinTimeout, StopDisconnectReturns, HardTimeout, Finished
<1> QED BY <1>1, ServicesConsistent, PTL DEF SolaceSpec, NewServiceAfterOld

--------------------------------------------------------------------------------
(* WebSocket *)

(* A step with the hooks is a step of the base class.                          *)
LEMMA WSBaseStep == [WSNext]_wVars => [Next]_superVars
BY DEF WSNext, wVars, superVars, Next, Supervise, StopConnector, WSInherited, WSConnectReturns,
   ReadMessage, WSWaitEnds, WSDisconnectReturns, WSDisconnectCancelled,
   WSStopDisconnectReturns, WSHardTimeout, PeerSends, SocketCloses, WSFinished

(* The WebSocket subclass implements the base class (websocket_src.py).        *)
THEOREM WSHooksKeepToBase == WSSpec => WSImplementsBase
<1>1. WSInit => Init
  BY DEF WSInit
<1> QED BY <1>1, WSBaseStep, PTL DEF WSSpec, Spec, WSImplementsBase

(* A supervisor that has never run has no socket either.                       *)
SocketInvariant == WSTypeOK /\ OneSocket /\ (task = "none" => socket # "open")

LEMMA SocketStep ==
    ASSUME TypeOK, Coordination, SocketInvariant, [WSNext]_wVars
    PROVE  SocketInvariant'
<1> USE WSAssumption DEF SocketInvariant, WSTypeOK, OneSocket, Coordination
<1>1. CASE WSInherited
  <2>1. UNCHANGED wsVars
    BY <1>1 DEF WSInherited
  <2>2. CASE Start \/ Run \/ CancelledBeforeRun \/ BackoffExpires \/ BackoffInterrupted
    BY <2>1, <2>2 DEF wsVars, Start, Run, CancelledBeforeRun, BackoffExpires, BackoffInterrupted
  <2>3. CASE StopCall \/ Join \/ JoinTimeout \/ DisconnectAbsorbs \/ SubscribeReturns
    BY <2>1, <2>3 DEF wsVars, StopCall, Join, JoinTimeout, DisconnectAbsorbs, SubscribeReturns
  <2>4. CASE ConnectRaises
    BY <2>1, <2>4 DEF wsVars, ConnectRaises, LeaveTry, LoopEnd
  <2>5. CASE TryCancelled
    BY <2>1, <2>5 DEF wsVars, TryCancelled, TryAwaits, LeaveTry, LoopEnd
  <2> QED BY <1>1, <2>2, <2>3, <2>4, <2>5 DEF WSInherited
<1>2. CASE WSConnectReturns
  BY <1>2 DEF WSConnectReturns, ConnectReturns
<1>3. CASE ReadMessage
  BY <1>3 DEF ReadMessage, superVars
<1>4. CASE WSWaitEnds
  BY <1>4 DEF WSWaitEnds, WaitEnds, LeaveTry, LoopEnd, wsVars
<1>5. CASE WSDisconnectReturns
  BY <1>5 DEF WSDisconnectReturns, DisconnectReturns, Close, LoopEnd
<1>6. CASE WSDisconnectCancelled
  <2>1. stopping /\ stopping' /\ task' = "done" /\ handle' = "none"
    BY <1>6 DEF WSDisconnectCancelled, DisconnectCancelled, WSInterrupted
  <2>2. socket' = "open" => leaked'
    BY <1>6 DEF WSDisconnectCancelled, WSInterrupted, Close, wsVars
  <2>3. WSTypeOK'
    BY <1>6 DEF WSDisconnectCancelled, WSInterrupted, Close, wsVars
  <2> QED BY <2>1, <2>2, <2>3
<1>7. CASE WSStopDisconnectReturns
  BY <1>7 DEF WSStopDisconnectReturns, StopDisconnectReturns, Close
<1>8. CASE WSHardTimeout
  <2>1. stopping /\ stopping' /\ task' = task
    BY <1>8 DEF WSHardTimeout, HardTimeout
  <2>2. CASE stop = "closing" /\ WSInterrupted
    <3>1. task \in {"disconnecting", "done"} /\ handle' = "none"
      BY <1>8, <2>2 DEF WSInterrupted, TypeOK
    <3>2. socket' = "open" => leaked'
      BY <2>2 DEF WSInterrupted, Close, wsVars
    <3>3. WSTypeOK'
      BY <2>2 DEF WSInterrupted, Close, wsVars
    <3> QED BY <2>1, <3>1, <3>2, <3>3
  <2>3. CASE stop = "reaping" /\ UNCHANGED wsVars
    BY <1>8, <2>1, <2>3 DEF WSHardTimeout, HardTimeout, EnterClosing, wsVars
  <2> QED BY <1>8, <2>2, <2>3 DEF WSHardTimeout
<1>9. CASE PeerSends
  BY <1>9 DEF PeerSends, superVars
<1>10. CASE SocketCloses
  BY <1>10 DEF SocketCloses, superVars
<1>11. CASE WSFinished \/ UNCHANGED wVars
  BY <1>11 DEF WSFinished, Finished, wVars, wsVars, superVars
<1> QED BY <1>1, <1>2, <1>3, <1>4, <1>5, <1>6, <1>7, <1>8, <1>9, <1>10, <1>11 DEF WSNext

LEMMA SocketsConsistent == WSSpec => [](TypeOK /\ Coordination /\ SocketInvariant)
<1>1. WSInit => SocketInvariant
  BY WSAssumption DEF WSInit, Init, SocketInvariant, WSTypeOK, OneSocket
<1>2. WSSpec => [](TypeOK /\ Coordination)
  BY WSHooksKeepToBase, Coordinated DEF WSImplementsBase
<1> QED BY <1>1, <1>2, SocketStep, PTL DEF WSSpec

(* No attempt begins beside an open socket, and one that nobody refers to is   *)
(* left by a close that stop() has cut short (websocket_src.py, _do_connect    *)
(* and _do_disconnect).                                                        *)
THEOREM NeverTwoSockets == WSSpec => []OneSocket
<1>1. SocketInvariant => OneSocket
  BY DEF SocketInvariant
<1> QED BY <1>1, SocketsConsistent, PTL

(* Nothing is read once stop() has been called: the task it cancels is still   *)
(* in its read loop, and leaves it in its next step (base.py, stop;            *)
(* websocket_src.py, _wait_until_done).                                        *)
THEOREM StopEndsReading == WSSpec => NothingReadAfterStop
<1>1. SocketInvariant /\ Coordination /\ [WSNext]_wVars =>
        [stopping /\ task = "waiting" /\ task' = "waiting" => buffer' >= buffer]_wVars
  <2> SUFFICES ASSUME SocketInvariant, Coordination, WSNext,
                      stopping, task = "waiting", task' = "waiting"
               PROVE  buffer' >= buffer
    OBVIOUS
  <2>1. cancel /\ stop = "joining" /\ buffer \in Nat
    BY WSAssumption DEF Coordination, SocketInvariant, WSTypeOK
  <2>2. WSInherited \/ WSWaitEnds \/ SocketCloses \/ WSFinished => buffer' = buffer
    BY DEF WSInherited, WSWaitEnds, SocketCloses, WSFinished, wsVars
  <2>3. PeerSends => buffer' = buffer + 1
    BY DEF PeerSends
  <2>4. ~(ReadMessage \/ WSConnectReturns \/ WSDisconnectReturns \/ WSDisconnectCancelled)
    BY <2>1 DEF ReadMessage, WSConnectReturns, ConnectReturns, WSDisconnectReturns,
       DisconnectReturns, WSDisconnectCancelled, DisconnectCancelled
  <2>5. ~(WSStopDisconnectReturns \/ WSHardTimeout)
    BY <2>1 DEF WSStopDisconnectReturns, StopDisconnectReturns, WSHardTimeout
  <2> QED BY <2>1, <2>2, <2>3, <2>4, <2>5 DEF WSNext
<1> QED BY <1>1, SocketsConsistent, PTL DEF WSSpec, NothingReadAfterStop

--------------------------------------------------------------------------------
(* All of them *)

(* Every subclass keeps the contract ConnectorLifecycle with its own is_up():  *)
(* Solace and WebSocket the one in which the supervisor alone writes the flag, *)
(* NATS the one in which its client writes it too.  The server is modelled on  *)
(* the two (base.py with the hooks of nats.py, solace.py, websocket_src.py).   *)
THEOREM SubclassesKeepContract ==
    /\ NATSSpec => NATSKeepsContract
    /\ SolaceSpec => KeepsContract
    /\ WSSpec => KeepsContract
<1>1. NATSSpec => NATSKeepsContract
  BY NATSImplementsContract
<1>2. SolaceSpec => KeepsContract
  BY SolaceHooksKeepToBase, ImplementsContract, PTL DEF SolaceImplementsBase
<1>3. WSSpec => KeepsContract
  BY WSHooksKeepToBase, ImplementsContract, PTL DEF WSImplementsBase
<1> QED BY <1>1, <1>2, <1>3

(* What stop() leaves behind, whose closes overlap and what follows it, of any *)
(* of the three, hooks included (base.py, stop).                               *)
THEOREM SubclassesStopSafely ==
    /\ NATSSpec => [](StopReleases /\ NoTwoDisconnects /\ LeaksOnlyWhenStopping) /\ NoConnectAfterStop
    /\ SolaceSpec => [](StopReleases /\ NoTwoDisconnects /\ LeaksOnlyWhenStopping) /\ NoConnectAfterStop
    /\ WSSpec => [](StopReleases /\ NoTwoDisconnects /\ LeaksOnlyWhenStopping) /\ NoConnectAfterStop
<1>1. Spec => [](StopReleases /\ NoTwoDisconnects /\ LeaksOnlyWhenStopping) /\ NoConnectAfterStop
  BY SafeStates, Coordinated, NeverReconnects, PTL
<1>2. NATSSpec => [](StopReleases /\ NoTwoDisconnects /\ LeaksOnlyWhenStopping) /\ NoConnectAfterStop
  BY <1>1, NATSHooksKeepToBase, PTL DEF ImplementsBase
<1>3. SolaceSpec => [](StopReleases /\ NoTwoDisconnects /\ LeaksOnlyWhenStopping) /\ NoConnectAfterStop
  BY <1>1, SolaceHooksKeepToBase, PTL DEF SolaceImplementsBase
<1>4. WSSpec => [](StopReleases /\ NoTwoDisconnects /\ LeaksOnlyWhenStopping) /\ NoConnectAfterStop
  BY <1>1, WSHooksKeepToBase, PTL DEF WSImplementsBase
<1> QED BY <1>2, <1>3, <1>4

================================================================================
