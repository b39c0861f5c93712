--------------------------- MODULE SupervisorProofs ---------------------------
(***************************************************************************)
(* Safety of the supervisor for every backoff configuration, every bound   *)
(* on the restart counter and either behaviour of the client libraries.    *)
(* Everything rests on Coordination, which is inductive together with the  *)
(* type invariant.                                                         *)
(***************************************************************************)
EXTENDS Supervisor, TLAPS

(* next() keeps the delay between the initial one and the cap.                 *)
LEMMA AdvanceBounds ==
    ASSUME current \in Initial .. Cap, Advance
    PROVE  current' \in Initial .. Cap
<1>1. current \in Nat /\ Initial \in Nat /\ Cap \in Nat /\ Factor \in Nat /\ Factor >= 2 /\ Initial <= Cap
  BY BackoffAssumption
<1>2. current * Factor \in Int /\ current * Factor >= current
  <2>1. \A c, f \in Nat : f >= 2 => c * f \in Int /\ c * f >= c
    OBVIOUS
  <2> QED BY <1>1, <2>1
<1> QED BY <1>1, <1>2 DEF Advance, Lesser

(* The restart counter stays below its bound.                                  *)
LEMMA RestartBounds ==
    ASSUME restarts \in 0 .. MaxRestarts
    PROVE  Lesser(restarts + 1, MaxRestarts) \in 0 .. MaxRestarts
BY SupervisorAssumption DEF Lesser

(* Every action leaves in each variable a value the variable may have.         *)
LEMMA TypeStep ==
    ASSUME TypeOK, [Next]_superVars
    PROVE  TypeOK'
<1> USE DEF TypeOK, Tasks, Stops, Handles
<1>1. CASE Start
  BY <1>1 DEF Start
<1>2. CASE Run
  BY <1>2 DEF Run
<1>3. CASE CancelledBeforeRun
  BY <1>3 DEF CancelledBeforeRun
<1>4. CASE ConnectReturns
  BY <1>4 DEF ConnectReturns
<1>5. CASE ConnectRaises
  BY <1>5, AdvanceBounds DEF ConnectRaises, LeaveTry, LoopEnd
<1>6. CASE SubscribeReturns
  BY <1>6, BackoffAssumption DEF SubscribeReturns, Reset
<1>7. CASE SubscribeRaises
  BY <1>7, AdvanceBounds DEF SubscribeRaises, LeaveTry, LoopEnd
<1>8. CASE WaitEnds
  BY <1>8, AdvanceBounds DEF WaitEnds, LeaveTry, LoopEnd
<1>9. CASE TryCancelled
  BY <1>9, AdvanceBounds DEF TryCancelled, LeaveTry, LoopEnd, TryAwaits
<1>10. CASE DisconnectReturns
  BY <1>10, AdvanceBounds DEF DisconnectReturns, LoopEnd
<1>11. CASE DisconnectCancelled
  BY <1>11 DEF DisconnectCancelled, InterruptedDisconnect
<1>12. CASE DisconnectAbsorbs
  BY <1>12 DEF DisconnectAbsorbs
<1>13. CASE BackoffExpires
  BY <1>13, RestartBounds DEF BackoffExpires
<1>14. CASE BackoffInterrupted
  BY <1>14 DEF BackoffInterrupted
<1>15. CASE StopCall
  BY <1>15 DEF StopCall
<1>16. CASE Join
  BY <1>16 DEF Join, EnterClosing
<1>17. CASE JoinTimeout
  BY <1>17 DEF JoinTimeout
<1>18. CASE StopDisconnectReturns
  BY <1>18 DEF StopDisconnectReturns
<1>19. CASE HardTimeout
  BY <1>19 DEF HardTimeout, EnterClosing, InterruptedDisconnect
<1>20. CASE Finished
  BY <1>20 DEF Finished, superVars
<1>21. CASE UNCHANGED superVars
  BY <1>21 DEF superVars
<1> QED
  BY <1>1, <1>2, <1>3, <1>4, <1>5, <1>6, <1>7, <1>8, <1>9, <1>10, <1>11, <1>12, <1>13, <1>14, <1>15, <1>16, <1>17, <1>18, <1>19, <1>20, <1>21
  DEF Next, Supervise, StopConnector

(* Coordination survives every action.                                         *)
LEMMA CoordinationStep ==
    ASSUME TypeOK, Coordination, [Next]_superVars
    PROVE  Coordination'
<1> USE DEF TypeOK, Coordination, Tasks, Stops, Handles
<1>1. CASE Start
  BY <1>1 DEF Start
<1>2. CASE Run
  BY <1>2 DEF Run
<1>3. CASE CancelledBeforeRun
  BY <1>3 DEF CancelledBeforeRun
<1>4. CASE ConnectReturns
  BY <1>4 DEF ConnectReturns
<1>5. CASE ConnectRaises
  BY <1>5 DEF ConnectRaises, LeaveTry, LoopEnd
<1>6. CASE SubscribeReturns
  BY <1>6 DEF SubscribeReturns
<1>7. CASE SubscribeRaises
  BY <1>7 DEF SubscribeRaises, LeaveTry, LoopEnd
<1>8. CASE WaitEnds
  BY <1>8 DEF WaitEnds, LeaveTry, LoopEnd
<1>9. CASE TryCancelled
  BY <1>9 DEF TryCancelled, LeaveTry, LoopEnd, TryAwaits
<1>10. CASE DisconnectReturns
  BY <1>10 DEF DisconnectReturns, LoopEnd
<1>11. CASE DisconnectCancelled
  BY <1>11 DEF DisconnectCancelled, InterruptedDisconnect
<1>12. CASE DisconnectAbsorbs
  BY <1>12 DEF DisconnectAbsorbs
<1>13. CASE BackoffExpires
  BY <1>13 DEF BackoffExpires
<1>14. CASE BackoffInterrupted
  BY <1>14 DEF BackoffInterrupted
<1>15. CASE StopCall
  BY <1>15 DEF StopCall
<1>16. CASE Join
  BY <1>16 DEF Join, EnterClosing
<1>17. CASE JoinTimeout
  BY <1>17 DEF JoinTimeout
<1>18. CASE StopDisconnectReturns
  BY <1>18 DEF StopDisconnectReturns
<1>19. CASE HardTimeout
  <2>1. CASE stop = "reaping"
    <3>1. task = "disconnecting" /\ up = FALSE
      BY <1>19, <2>1 DEF HardTimeout
    <3> QED BY <1>19, <2>1, <3>1 DEF HardTimeout, EnterClosing
  <2>2. CASE stop = "closing"
    BY <1>19, <2>2 DEF HardTimeout, InterruptedDisconnect
  <2> QED BY <1>19, <2>1, <2>2 DEF HardTimeout
<1>20. CASE Finished
  BY <1>20 DEF Finished, superVars
<1>21. CASE UNCHANGED superVars
  BY <1>21 DEF superVars
<1> QED
  BY <1>1, <1>2, <1>3, <1>4, <1>5, <1>6, <1>7, <1>8, <1>9, <1>10, <1>11, <1>12, <1>13, <1>14, <1>15, <1>16, <1>17, <1>18, <1>19, <1>20, <1>21
  DEF Next, Supervise, StopConnector

(* The initial state satisfies both.                                           *)
LEMMA InitEstablishes == Init => TypeOK /\ Coordination
<1> SUFFICES ASSUME Init PROVE TypeOK /\ Coordination
  OBVIOUS
<1>1. current \in Initial .. Cap /\ restarts \in 0 .. MaxRestarts
  BY BackoffAssumption, SupervisorAssumption DEF Init, BackoffInit
<1>2. TypeOK
  BY <1>1 DEF Init, TypeOK, Tasks, Stops, Handles
<1>3. Coordination
  BY DEF Init, Coordination
<1> QED BY <1>2, <1>3

(* In every execution the variables have their types and the supervisor and    *)
(* stop() stand to each other as Coordination says.                            *)
THEOREM Coordinated == Spec => [](TypeOK /\ Coordination)
<1>1. Init => TypeOK /\ Coordination
  BY InitEstablishes
<1>2. TypeOK /\ Coordination /\ [Next]_superVars => (TypeOK /\ Coordination)'
  BY TypeStep, CoordinationStep
<1> QED BY <1>1, <1>2, PTL DEF Spec

LEMMA SafeStates ==
    ASSUME TypeOK, Coordination
    PROVE  /\ StopReleases /\ NoTwoDisconnects /\ OutlivesErrors
           /\ LeaksOnlyWhenStopping /\ UpMeansServing
BY DEF TypeOK, Coordination, Tasks, Stops, Handles, StopReleases, NoTwoDisconnects,
       OutlivesErrors, LeaksOnlyWhenStopping, UpMeansServing

(* stop() that returns uncut leaves no task, no reference and no stale gauge,  *)
(* and nothing but stop() ends the task (base.py, stop, _supervise_inner).     *)
THEOREM StopIsSafe == Spec => [](StopReleases /\ OutlivesErrors)
BY SafeStates, Coordinated, PTL

(* The two callers of _do_disconnect never overlap (base.py, stop and          *)
(* _supervise_inner).                                                          *)
THEOREM DisconnectsDoNotOverlap == Spec => []NoTwoDisconnects
BY SafeStates, Coordinated, PTL

(* A connector that has not been told to stop drops no connection unclosed     *)
(* (base.py, _supervise_inner).                                                *)
THEOREM RunningLeaksNothing == Spec => []LeaksOnlyWhenStopping
BY SafeStates, Coordinated, PTL

(* The gauge is up in a complete session only (base.py).                       *)
THEOREM UpIsLive == Spec => []UpMeansServing
BY SafeStates, Coordinated, PTL

(* After stop() no step begins an attempt to connect.                          *)
THEOREM NeverReconnects == Spec => NoConnectAfterStop
<1>1. TypeOK /\ Coordination /\ [Next]_superVars
      => [stopping => ~(task # "connecting" /\ task' = "connecting")]_superVars
  <2> SUFFICES ASSUME TypeOK, Coordination, Next, stopping, task # "connecting",
                      task' = "connecting"
               PROVE  FALSE
    OBVIOUS
  <2>1. task' # "connecting" \/ Run \/ BackoffExpires \/ task' = task
    BY DEF Next, Supervise, StopConnector, Start, CancelledBeforeRun, ConnectReturns,
       ConnectRaises, SubscribeReturns, SubscribeRaises, WaitEnds, TryCancelled,
       DisconnectReturns, DisconnectCancelled, DisconnectAbsorbs, BackoffInterrupted,
       LeaveTry, LoopEnd, StopCall, Join, JoinTimeout, StopDisconnectReturns,
       HardTimeout, Finished, superVars
  <2> QED BY <2>1 DEF Run, BackoffExpires
<1> QED BY <1>1, Coordinated, PTL DEF Spec, NoConnectAfterStop

(* The delay is lowered by nothing but a completed subscribe.                  *)
THEOREM BacksOff == Spec => DelayFallsOnSuccess
<1>1. TypeOK /\ [Next]_superVars => [current' < current => up']_superVars
  <2> SUFFICES ASSUME TypeOK, Next, current' < current
               PROVE  up'
    OBVIOUS
  <2>1. CASE Advance
    <3>1. current \in Nat /\ Factor \in Nat /\ Factor >= 2 /\ Cap \in Nat /\ current <= Cap
      BY BackoffAssumption DEF TypeOK
    <3>2. \A c, f \in Nat : f >= 2 => c * f \in Int /\ c * f >= c
      OBVIOUS
    <3>3. current * Factor \in Int /\ current * Factor >= current
      BY <3>1, <3>2
    <3> QED BY <2>1, <3>1, <3>3 DEF Advance, Lesser
  <2>2. CASE SubscribeReturns
    BY <2>2 DEF SubscribeReturns
  <2>3. CASE UNCHANGED current
    BY <2>3, BackoffAssumption DEF TypeOK
  <2>4. Advance \/ SubscribeReturns \/ UNCHANGED current
    BY DEF Next, Supervise, StopConnector, Start, Run, CancelledBeforeRun,
       ConnectReturns, ConnectRaises, SubscribeRaises, WaitEnds, TryCancelled,
       DisconnectReturns, DisconnectCancelled, DisconnectAbsorbs, BackoffExpires,
       BackoffInterrupted, LeaveTry, LoopEnd, StopCall, Join, JoinTimeout,
       StopDisconnectReturns, HardTimeout, Finished, superVars
  <2> QED BY <2>1, <2>2, <2>3, <2>4
<1> QED BY <1>1, Coordinated, PTL DEF Spec, DelayFallsOnSuccess

(* A step of the supervisor or of stop() is a step of the contract or leaves   *)
(* it unchanged.                                                               *)
LEMMA ContractStep ==
    ASSUME TypeOK, Coordination, [Next]_superVars
    PROVE  [Life!Next]_(Life!lifeVars)
<1> USE DEF TypeOK, Coordination, Tasks, Stops, Handles, Phase
<1> USE DEF Life!Next, Life!lifeVars, Life!Begin, Life!Connected, Life!Serve, Life!Fail,
            Life!Closed, Life!Retry, Life!RequestStop, Life!Withdraw, Life!End
<1>1. CASE Start
  BY <1>1 DEF Start
<1>2. CASE Run
  BY <1>2 DEF Run
<1>3. CASE CancelledBeforeRun
  BY <1>3 DEF CancelledBeforeRun
<1>4. CASE ConnectReturns
  BY <1>4 DEF ConnectReturns
<1>5. CASE ConnectRaises
  BY <1>5 DEF ConnectRaises, LeaveTry, LoopEnd
<1>6. CASE SubscribeReturns
  BY <1>6 DEF SubscribeReturns
<1>7. CASE SubscribeRaises
  BY <1>7 DEF SubscribeRaises, LeaveTry, LoopEnd
<1>8. CASE WaitEnds
  BY <1>8 DEF WaitEnds, LeaveTry, LoopEnd
<1>9. CASE TryCancelled
  BY <1>9 DEF TryCancelled, LeaveTry, LoopEnd, TryAwaits
<1>10. CASE DisconnectReturns
  BY <1>10 DEF DisconnectReturns, LoopEnd
<1>11. CASE DisconnectCancelled
  BY <1>11 DEF DisconnectCancelled, InterruptedDisconnect
<1>12. CASE DisconnectAbsorbs
  BY <1>12 DEF DisconnectAbsorbs
<1>13. CASE BackoffExpires
  BY <1>13 DEF BackoffExpires
<1>14. CASE BackoffInterrupted
  BY <1>14 DEF BackoffInterrupted
<1>15. CASE StopCall
  BY <1>15 DEF StopCall
<1>16. CASE Join
  BY <1>16 DEF Join, EnterClosing
<1>17. CASE JoinTimeout
  BY <1>17 DEF JoinTimeout
<1>18. CASE StopDisconnectReturns
  BY <1>18 DEF StopDisconnectReturns
<1>19. CASE HardTimeout
  BY <1>19 DEF HardTimeout, EnterClosing, InterruptedDisconnect
<1>20. CASE Finished
  BY <1>20 DEF Finished, superVars
<1>21. CASE UNCHANGED superVars
  BY <1>21 DEF superVars
<1> QED
  BY <1>1, <1>2, <1>3, <1>4, <1>5, <1>6, <1>7, <1>8, <1>9, <1>10, <1>11, <1>12, <1>13, <1>14, <1>15, <1>16, <1>17, <1>18, <1>19, <1>20, <1>21
  DEF Next, Supervise, StopConnector

(* BaseConnector implements the contract of ConnectorLifecycle.                *)
THEOREM ImplementsContract == Spec => KeepsContract
<1>1. Init => Life!Init
  BY DEF Init, Life!Init, Phase
<1>2. TypeOK /\ Coordination /\ [Next]_superVars => [Life!Next]_(Life!lifeVars)
  BY ContractStep
<1> QED BY <1>1, <1>2, Coordinated, PTL DEF Spec, KeepsContract, Life!Spec

================================================================================
