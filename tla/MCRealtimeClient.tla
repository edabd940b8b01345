-------------------------- MODULE MCRealtimeClient --------------------------
(* RealtimeClient with small sets for TLC.                                 *)
EXTENDS RealtimeClient

CONSTANTS names, list, log, own, other
=============================================================================
