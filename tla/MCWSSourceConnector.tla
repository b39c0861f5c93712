--------------------------- MODULE MCWSSourceConnector ---------------------------
(* A table to feed, three messages in the buffer, three delays.               *)
EXTENDS WSSourceConnector
================================================================================
