-------------------------- MODULE MCRealtimePacing --------------------------
(* Triggers and writes in time.                                              *)
EXTENDS RealtimePacing
=============================================================================
