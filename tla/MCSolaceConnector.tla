--------------------------- MODULE MCSolaceConnector ---------------------------
(* Three delays; futures of an executor honour a cancellation.               *)
EXTENDS SolaceConnector
================================================================================
