----------------------------- MODULE MCSchedule -----------------------------
(***************************************************************************)
(* Instance of Schedule for TLC: a job due at 1 whose window admits the    *)
(* first turn and two retries, or has no end.                              *)
(***************************************************************************)
EXTENDS Schedule

MCWindows == {2, NoLimit}
=============================================================================
