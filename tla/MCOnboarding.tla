---------------------------- MODULE MCOnboarding ----------------------------
(***************************************************************************)
(* An instance of Onboarding for TLC: two interactions and an invitation   *)
(* share the main session.                                                 *)
(***************************************************************************)
EXTENDS Onboarding, TLC

CONSTANTS i1, i2, o1

MCTypeOf ==
    [e \in Event |-> IF e \in Invitation THEN "onboarding" ELSE "interaction"]

MCIntraOf == [e \in Event |-> 0]

=============================================================================
