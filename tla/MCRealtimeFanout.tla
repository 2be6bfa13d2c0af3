-------------------------- MODULE MCRealtimeFanout --------------------------
(* Fan-out to a few connections.                                             *)
EXTENDS RealtimeFanout
=============================================================================
