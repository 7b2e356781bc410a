------------------------------ MODULE Delivery ------------------------------
(***************************************************************************)
(* What AgentDispatcher promises the producers of events, without queues,  *)
(* drainers or turns: every dispatched event is answered exactly once,     *)
(* "sent" only by a dispatcher that is open, and none is left unanswered   *)
(* when stop() returns.                                                    *)
(***************************************************************************)
CONSTANT Event

VARIABLES
    fut,    \* the delivery future of each event
    phase   \* "open", "stopping" while stop() runs, "stopped"

vars == <<fut, phase>>

Init ==
    /\ fut = [e \in Event |-> "none"]
    /\ phase = "open"

(* dispatch() takes the event, or refuses it, or takes it at the price of  *)
(* others: the events of S are answered "dropped".                         *)
Dispatch(e, S) ==
    /\ fut[e] = "none"
    /\ phase # "open" => S = {e}
    /\ fut' = [x \in Event |-> IF x \in S /\ fut[x] \in {"none", "pending"}
                               THEN "dropped"
                               ELSE IF x = e THEN "pending" ELSE fut[x]]
    /\ \A x \in S : fut[x] = "none" => x = e
    /\ UNCHANGED phase

(* A turn ends: B was delivered, D was not.                                *)
Answer(B, D) ==
    /\ \A e \in B \cup D : fut[e] = "pending"
    /\ B # {} => phase = "open"
    /\ fut' = [e \in Event |-> IF e \in B THEN "sent"
                               ELSE IF e \in D THEN "dropped" ELSE fut[e]]
    /\ UNCHANGED phase

(* A producer cancels its future, or lets go of an answered event.         *)
GiveUp(e) ==
    /\ fut[e] = "pending"
    /\ fut' = [fut EXCEPT ![e] = "cancelled"]
    /\ UNCHANGED phase

Forget(e) ==
    /\ fut[e] \in {"sent", "dropped", "cancelled"}
    /\ fut' = [fut EXCEPT ![e] = "none"]
    /\ UNCHANGED phase

Stop == phase = "open" /\ phase' = "stopping" /\ UNCHANGED fut

(* stop() returns: whatever was still pending is answered.                 *)
Stopped ==
    /\ phase = "stopping"
    /\ phase' = "stopped"
    /\ fut' = [e \in Event |-> IF fut[e] = "pending" THEN "dropped" ELSE fut[e]]

Start == phase = "stopped" /\ phase' = "open" /\ UNCHANGED fut

Next ==
    \/ \E e \in Event :
        \/ GiveUp(e)
        \/ Forget(e)
        \/ \E S \in SUBSET Event : Dispatch(e, S)
    \/ \E B, D \in SUBSET Event : Answer(B, D)
    \/ Stop
    \/ Stopped
    \/ Start

Spec == Init /\ [][Next]_vars

(* The process is killed and starts again: its futures are gone with it.   *)
Killed ==
    /\ fut' = [e \in Event |-> "none"]
    /\ phase' = "open"

(* No event waits for its answer for ever, and stop() returns.             *)
Answered == \A e \in Event : fut[e] = "pending" ~> fut[e] # "pending"

StopReturns == phase = "stopping" ~> phase # "stopping"

(* The promise over any number of processes: its steps, and the whole.     *)
StepsOfLives == Init /\ [][Next \/ Killed]_vars

PromiseOfLives == StepsOfLives /\ Answered /\ StopReturns

=============================================================================
