---------------------------- MODULE MCBackoffDelays ----------------------------
(* The parameters of BaseConnector, in units that make its delays integers.    *)
EXTENDS BackoffDelays
================================================================================
