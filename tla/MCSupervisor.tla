----------------------------- MODULE MCSupervisor -----------------------------
(* Supervisor on small delays: 10 tenths of a second, doubling up to 60 s.     *)
EXTENDS Supervisor
================================================================================
