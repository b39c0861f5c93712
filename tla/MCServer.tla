-------------------------------- MODULE MCServer --------------------------------
(* Two connectors that run, one of them for NATS, a disabled transport and one *)
(* of an unknown type.                                                         *)
EXTENDS Server
================================================================================
