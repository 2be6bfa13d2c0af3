------------------------- MODULE MCRealtimePipeline -------------------------
(* One backend process after another over one database.                      *)
EXTENDS RealtimePipeline
=============================================================================
