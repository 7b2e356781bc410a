---------------------------- MODULE MCDispatcher ----------------------------
(***************************************************************************)
(* An instance of Dispatcher for TLC: two types of message share the main  *)
(* session, and suggestions of two urgencies overflow theirs.              *)
(***************************************************************************)
EXTENDS Dispatcher, TLC

CONSTANTS i1, b1, s1, s2, s3

MCTypeOf ==
    [e \in Event |-> CASE e = i1 -> "interaction"
                       [] e = b1 -> "bind"
                       [] OTHER  -> "suggestion"]

(* Only suggestions differ in their urgency inside the type.               *)
MCIntraOf == [e \in Event |-> IF e = s2 THEN 1 ELSE 0]

(* Messages of one type and urgency are interchangeable.                   *)
Interchangeable == Permutations({s1, s3})

=============================================================================
