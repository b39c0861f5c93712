------------------------------- MODULE MCIngest -------------------------------
(* Two Solace tables over subscriptions of which one level begins another, a   *)
(* "*" and a bare level; one JetStream and one WebSocket table.                *)
EXTENDS Ingest

FX == <<"FX">>
Exec == <<"EXEC">>
Executions == <<"EXEC", "UTIONS">>
Tick == <<"TICK">>

MCPatterns ==
    { [levels |-> <<FX, Exec>>, rest |-> TRUE],
      [levels |-> <<FX, Executions>>, rest |-> TRUE],
      [levels |-> <<FX, Star, Tick>>, rest |-> FALSE],
      [levels |-> <<Exec>>, rest |-> TRUE] }

MCTopics == { <<FX, Exec, Tick>>, <<FX, Executions, Tick>>, <<Exec, Tick>> }
================================================================================
