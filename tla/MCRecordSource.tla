--------------------------- MODULE MCRecordSource ---------------------------
(* RecordSource for TLC; the instances are in the configurations. *)
EXTENDS RecordSource
=============================================================================
