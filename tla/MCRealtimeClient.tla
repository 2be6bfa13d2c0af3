-------------------------- MODULE MCRealtimeClient --------------------------
(* One browser session and a few receiver threads.                           *)
EXTENDS RealtimeClient
=============================================================================
