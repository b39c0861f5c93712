--------------------------- MODULE MCNATSConnector ---------------------------
(* One core and one JetStream table, and delays that are all alike: the        *)
(* backoff is checked elsewhere.                                               *)
EXTENDS NATSConnector
================================================================================
