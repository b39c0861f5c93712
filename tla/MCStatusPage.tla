------------------------------ MODULE MCStatusPage ------------------------------
(* Two sessions, one table, two polls in flight, two dispatches of any latency.*)
EXTENDS StatusPage
================================================================================
