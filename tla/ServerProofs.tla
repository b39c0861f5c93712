----------------------------- MODULE ServerProofs -----------------------------
(***************************************************************************)
(* The order of boot and shutdown for any set of transports.               *)
(***************************************************************************)
EXTENDS Server, TLAPS

(* A step of one connector: what its contract lets it change, and nothing of   *)
(* another connector or of main().                                             *)
LEMMA ContractMoves ==
    ASSUME ServerTypeOK, NEW c \in Connectors, Connector(c)
    PROVE  /\ LoopRuns /\ UNCHANGED mainVars
           /\ phase' \in [Connectors -> Phases] /\ isUp' \in [Connectors -> BOOLEAN]
           /\ \A d \in Connectors : Life(d)!LifeTypeOK'
           /\ server # "draining" => phase'[c] # "Stopping" \/ phase[c] = "Stopping"
           /\ phase'[c] = "Stopped" => phase[c] \in {"Stopping", "Stopped"}
           /\ \A d \in Connectors : d # c => phase'[d] = phase[d]
           /\ phase[c] = "Stopped" => phase'[c] = "Stopped"
<1> USE DEF ServerTypeOK, Phases
<1>1. LoopRuns /\ Touch(c)
  BY DEF Connector, Supervise, RequestStop, End, LoopRuns
<1>2. PICK p \in Phases, u \in BOOLEAN : /\ phase' = [phase EXCEPT ![c] = p]
                                         /\ isUp' = [isUp EXCEPT ![c] = u]
  BY <1>1 DEF Touch
<1>3. /\ phase' \in [Connectors -> Phases] /\ isUp' \in [Connectors -> BOOLEAN]
      /\ phase'[c] = p /\ isUp'[c] = u
      /\ \A d \in Connectors : d # c => phase'[d] = phase[d] /\ isUp'[d] = isUp[d]
  BY <1>2
<1>4. Life(c)!LifeTypeOK
  OBVIOUS
<1>5. /\ Life(c)!LifeTypeOK'
      /\ server # "draining" => p # "Stopping" \/ phase[c] = "Stopping"
      /\ p = "Stopped" => phase[c] \in {"Stopping", "Stopped"}
      /\ phase[c] = "Stopped" => p = "Stopped"
  BY <1>3, <1>4 DEF Connector, Supervise, RequestStop, End, Life!LifeTypeOK, Life!Phases,
     Life!Attached, Life!Begin, Life!Connected, Life!Serve,
     Life!Fail, Life!Closed, Life!Retry, Life!Flip, Life!Withdraw, Life!RequestStop, Life!End
<1>6. ASSUME NEW d \in Connectors, d # c PROVE Life(d)!LifeTypeOK'
  BY <1>3, <1>6 DEF Life!LifeTypeOK, Life!Phases
<1> QED BY <1>1, <1>3, <1>5, <1>6 DEF Touch

(* Every step leaves the variables in their types.                             *)
LEMMA ServerTypeStep ==
    ASSUME ServerTypeOK, [Next]_serverVars
    PROVE  ServerTypeOK'
<1> USE DEF ServerTypeOK, Stages, Phases, Life!LifeTypeOK, Life!Phases, Life!Attached
<1>1. CASE MongoChanges
  BY <1>1 DEF MongoChanges
<1>2. CASE Boot
  BY <1>2 DEF Boot
<1>3. CASE BootFails
  BY <1>3 DEF BootFails
<1>4. CASE Signal
  BY <1>4 DEF Signal
<1>5. CASE BeginShutdown
  BY <1>5 DEF BeginShutdown
<1>6. CASE StopListening
  BY <1>6 DEF StopListening
<1>7. CASE Drained
  BY <1>7 DEF Drained, AllStopped
<1>8. CASE HardTimeout
  BY <1>8 DEF HardTimeout, AllStopped
<1>9. ASSUME NEW c \in Connectors, Connector(c) PROVE ServerTypeOK'
  BY <1>9, ContractMoves DEF mainVars
<1>10. CASE UNCHANGED serverVars
  BY <1>10 DEF serverVars
<1> QED
  BY <1>1, <1>2, <1>3, <1>4, <1>5, <1>6, <1>7, <1>8, <1>9, <1>10 DEF Next

(* Every step of main() or of a connector keeps the order.                     *)
LEMMA OrderStep ==
    ASSUME ServerTypeOK, ShutdownOrder, [Next]_serverVars
    PROVE  ShutdownOrder'
<1> USE DEF ServerTypeOK, ShutdownOrder, Stages, Phases, AllStopped
<1>1. CASE MongoChanges
  BY <1>1 DEF MongoChanges
<1>2. CASE Boot
  BY <1>2 DEF Boot
<1>3. CASE BootFails
  BY <1>3 DEF BootFails
<1>4. CASE Signal
  BY <1>4 DEF Signal
<1>5. CASE BeginShutdown
  BY <1>5 DEF BeginShutdown
<1>6. CASE StopListening
  BY <1>6 DEF StopListening
<1>7. CASE Drained
  BY <1>7 DEF Drained, AllStopped
<1>8. CASE HardTimeout
  BY <1>8 DEF HardTimeout, AllStopped
<1>9. ASSUME NEW c \in Connectors, Connector(c) PROVE ShutdownOrder'
  BY <1>9, ContractMoves DEF mainVars, LoopRuns
<1>10. CASE UNCHANGED serverVars
  BY <1>10 DEF serverVars
<1> QED
  BY <1>1, <1>2, <1>3, <1>4, <1>5, <1>6, <1>7, <1>8, <1>9, <1>10 DEF Next

(* Boot and shutdown run in their order in every execution.                    *)
THEOREM ShutdownOrdered == Spec => [](ServerTypeOK /\ ShutdownOrder)
<1>1. Init => ServerTypeOK /\ ShutdownOrder
  BY DEF Init, ServerTypeOK, ShutdownOrder, Stages, Phases, Life!LifeTypeOK, Life!Phases
<1>2. (ServerTypeOK /\ ShutdownOrder) /\ [Next]_serverVars => (ServerTypeOK /\ ShutdownOrder)'
  BY ServerTypeStep, OrderStep
<1> QED BY <1>1, <1>2, PTL DEF Spec

LEMMA SafeStages ==
    ASSUME ServerTypeOK, ShutdownOrder
    PROVE  ReadyMeansConnected /\ LiveUntouched /\ StoreClosedLast /\ CleanExit
<1> USE DEF ServerTypeOK, ShutdownOrder, Stages, Phases
<1>1. ReadyMeansConnected
  BY DEF ReadyMeansConnected, Ready, Answering, LoopRuns, Life!LifeTypeOK, Life!Attached
<1>2. LiveUntouched
  BY DEF LiveUntouched, Live, Answering, LoopRuns
<1>3. StoreClosedLast
  BY DEF StoreClosedLast, AllStopped
<1>4. CleanExit
  BY DEF CleanExit
<1> QED BY <1>1, <1>2, <1>3, <1>4

(* Readiness rests on a connector that is connected and not being stopped: in  *)
(* a complete session, unless its client's callbacks write the flag; for any   *)
(* set of transports, enabled or not, supported or not, for NATS or not        *)
(* (health.py, ReadinessHandler).                                              *)
THEOREM ReadinessIsSound == Spec => []ReadyMeansConnected
BY SafeStages, ShutdownOrdered, PTL

(* No connector is stopped under a live probe (server.py, shutdown).           *)
THEOREM LiveIsUntouched == Spec => []LiveUntouched
BY SafeStages, ShutdownOrdered, PTL

(* The store is closed after every connector (server.py, shutdown).            *)
THEOREM StoreGoesLast == Spec => []StoreClosedLast
BY SafeStages, ShutdownOrdered, PTL

(* The process ends with nothing running (server.py, shutdown).                *)
THEOREM ExitIsClean == Spec => []CleanExit
BY SafeStages, ShutdownOrdered, PTL

================================================================================
