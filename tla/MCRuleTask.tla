----------------------------- MODULE MCRuleTask -----------------------------
(* Small tasks for TLC.  In the names of the rules, s is a session, e an    *)
(* enter, x an exit and g a guard; the letter i marks a device property.   *)
EXTENDS RuleTask, TLC

AllRules == {"s", "si", "st", "e", "f", "et", "x", "xi", "g", "gi", "hi"}

DirectionOf(r) ==
    CASE r \in {"s", "si", "st"} -> "session" [] r \in {"e", "f", "et"} -> "enter"
      [] r \in {"x", "xi"} -> "exit" [] r \in {"g", "gi", "hi"} -> "guard"

MCDirection == [r \in Rules |-> DirectionOf(r)]
MCIot == Rules \cap {"si", "xi", "gi", "hi"}
MCTimed == Rules \cap {"st", "et"}
OneCamera == [r \in Rules |-> {"c1"}]
TwoCameras == [r \in Rules |-> IF r = "s" THEN {"c1", "c2"} ELSE {"c1"}]
=============================================================================
