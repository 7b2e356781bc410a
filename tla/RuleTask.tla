------------------------------ MODULE RuleTask ------------------------------
(***************************************************************************)
(* One task and the rules attached to it: the condition layer of           *)
(* rule/runner.py (RuleRunner), the task layer of task/state_machine.py    *)
(* (TaskStateMachine), and the RuleService operations that edit, toggle,   *)
(* delete and pause them (rule/service.py).                                *)
(*                                                                         *)
(* update_state, _feed_iot, a debounce that lands and every service        *)
(* operation run to completion on the event loop: none of the awaits       *)
(* inside them suspends (settle and the guard refresh call update_state,   *)
(* the actions are spawned), so each is one action.  What interleaves is   *)
(* the frames, the iot evaluations, the debounce timers, the edits, the    *)
(* rollover at midnight and restarts.                                      *)
(*                                                                         *)
(* `w` is everything the process keeps about the task in memory; `out` is  *)
(* the boundary actions the step spawned.                                  *)
(***************************************************************************)
EXTENDS Integers, Sequences, FiniteSets, FiniteSetsExt, SequencesExt

CONSTANTS
    Rules,      \* the rules the task may have
    Direction,  \* what a rule's condition means for the task
    Iot,        \* rules whose condition is a device property; the others are seen by cameras
    Sources,    \* Sources[r]: the dids that report rule r
    Timed,      \* rules with duration_seconds
    Window,     \* samples in a duration window
    Quota,      \* true samples a full window needs (duration_ratio)
    Ops         \* what else happens: edits, pauses, rollovers, restarts

ASSUME RuleTaskAssumption ==
    /\ IsFiniteSet(Rules) /\ Iot \subseteq Rules /\ Timed \subseteq Rules \ Iot
    /\ Direction \in [Rules -> {"enter", "exit", "session", "guard"}]
    /\ \A r \in Rules : Sources[r] # {} /\ IsFiniteSet(Sources[r])
    /\ \A r \in Iot : Cardinality(Sources[r]) = 1
    /\ \A r \in Timed : Direction[r] # "guard"
    /\ Window \in Nat \ {0} /\ Quota \in 1 .. Window
    /\ Ops \subseteq {"create", "delete", "toggle", "edit", "touch", "pause", "rollover", "restart"}

VARIABLES
    w,          \* the runner's and the state machine's memory for this task
    value,      \* what the state container says of each iot condition
    present,    \* rules in the database
    enabled,    \* those the user has enabled: the task's topology
    paused      \* the task is paused

vars == <<w, value, present, enabled, paused>>

Known == {"true", "false"}
Tri == Known \cup {"unknown"}
Pairs(r) == {r} \X Sources[r]

(* The memory of a process that has observed nothing. *)
Fresh == [seen    |-> [r \in Rules |-> [s \in Sources[r] |-> "none"]],
          pexit   |-> {}, penter |-> {},    \* sources inside a two-frame filter
          latched |-> {},                   \* last_rule_state
          leaving |-> {},                   \* rules with an exit debounce under way
          fired   |-> {},                   \* state_duration_fired
          win     |-> [r \in Rules |-> <<>>],
          on      |-> FALSE,                \* runtime_state
          pending |-> <<>>,                 \* enters a guard holds back, oldest first
          out     |-> <<>>]

(* The topology: which rules open, close and guard the task. *)
Of(T, ds) == {r \in T : Direction[r] \in ds}
EnterSide(T) == Of(T, {"enter", "session"})
ExitSide(T) == Of(T, {"exit", "session"})
SessionType(T) == ExitSide(T) # {}

(* A session has its task for itself; a task needs a way in.               *)
RuleSetError(R) ==
    LET m == Of(R, {"enter", "exit", "session"})
    IN  m # {} /\ (EnterSide(m) = {} \/ (Of(m, {"session"}) # {} /\ Cardinality(m) > 1))

Init ==
    /\ w = Fresh
    /\ value \in [Iot -> Tri]
    /\ present \in {R \in SUBSET Rules : ~RuleSetError(R)} /\ enabled \in SUBSET present
    /\ paused = FALSE

--------------------------------------------------------------------------
(* The condition layer. *)

Or3(vals) == IF "true" \in vals THEN "true"
             ELSE IF vals \subseteq {"false"} /\ vals # {} THEN "false" ELSE "unknown"

Cond(m, r) == Or3({m.seen[r][s] : s \in Sources[r]} \ {"none"})

(* The enters of q that are in A, in their order. *)
Keep(q, A) == FoldLeft(LAMBDA kept, r : IF r \in A THEN Append(kept, r) ELSE kept, <<>>, q)

Without(q, R) == Keep(q, Rules \ R)

Fire(m, slot) == [m EXCEPT !.out = Append(@, slot)]

Effective(r) == r \in enabled /\ ~paused

(* Mutant: a guard nobody can read lets the task open.                     *)
GuardsHold_UnknownPasses(m, T) == \A g \in Of(T, {"guard"}) : Cond(m, g) # "false"
GuardsHold(m, T) == \A g \in Of(T, {"guard"}) : Cond(m, g) = "true"
(* Mutant: exit rules are not asked.                                       *)
ExitAlreadyTrue_SessionOnly(m, T, r) == \E x \in Of(T, {"session"}) \ {r} : Cond(m, x) = "true"
ExitAlreadyTrue(m, T, r) == \E x \in ExitSide(T) \ {r} : Cond(m, x) = "true"
OtherSessionHolds(m, T, r) == \E x \in Of(T, {"session"}) \ {r} : Cond(m, x) = "true"

(* The task layer's answer to an edge: its new memory, and whether the     *)
(* action may run.                                                         *)
Yes(m) == [m |-> m, ok |-> TRUE]
No(m) == [m |-> m, ok |-> FALSE]

HandleEnter(m, T, r) ==
    CASE SessionType(T) /\ m.on -> No([m EXCEPT !.pending = <<>>])
      [] ~(SessionType(T) /\ m.on) /\ ~GuardsHold(m, T) ->
            No([m EXCEPT !.pending = IF r \in Range(@) THEN @ ELSE Append(@, r)])
      [] GuardsHold(m, T) /\ ~SessionType(T) -> Yes([m EXCEPT !.pending = Without(@, {r})])
      [] GuardsHold(m, T) /\ SessionType(T) /\ ~m.on ->
            IF ExitAlreadyTrue(m, T, r) THEN No(m)
            ELSE Yes([m EXCEPT !.on = TRUE, !.pending = <<>>])

(* Mutant: a task that is off may exit.                                    *)
HandleExit_WhenOff(m, T, r) ==
    IF ~OtherSessionHolds(m, T, r) THEN Yes([m EXCEPT !.on = FALSE]) ELSE No(m)

HandleExit(m, T, r) ==
    IF m.on /\ ~OtherSessionHolds(m, T, r) THEN Yes([m EXCEPT !.on = FALSE]) ELSE No(m)

(* The actions the released enters q run, and what they do to a duration. *)
Released(m, q) ==
    LET timed == Range(q) \cap Timed
        sessions == Of(timed, {"session"})
    IN  [m EXCEPT !.fired = @ \cup sessions,
                  !.win = [r \in Rules |-> IF r \in timed \ sessions THEN <<>> ELSE @[r]],
                  !.out = @ \o [i \in 1 .. Len(q) |-> "on_enter"]]

MayWait(m, T) == {r \in EnterSide(T) : Cond(m, r) # "false"}
MayOpen(m, T) == {r \in Rules : /\ Cond(m, r) = "true" /\ GuardsHold(m, T)
                                /\ ~ExitAlreadyTrue(m, T, r)}

Release(m, T) ==
    LET kept == Keep(m.pending, MayWait(m, T))
        ready == Keep(kept, MayOpen(m, T))
    IN  IF m.on THEN [m EXCEPT !.pending = <<>>]
        ELSE IF ready = <<>> THEN [m EXCEPT !.pending = kept]
        ELSE IF SessionType(T)
             THEN Released([m EXCEPT !.on = TRUE, !.pending = <<>>], <<Head(ready)>>)
             ELSE Released([m EXCEPT !.pending = Without(kept, Range(ready))], ready)

(* mark_source_unknown: a device that cannot be read takes back the exit   *)
(* it had announced.                                                       *)
(* Mutant: the edge is not taken back.                                     *)
Rewind_KeepsEdge(m, r) == [m EXCEPT !.leaving = @ \ {r}]
Rewind(m, r) == [m EXCEPT !.leaving = @ \ {r}, !.latched = @ \cup {r}]

MarkUnknown(m, r) ==
    LET u == [m EXCEPT !.seen[r] = [s \in Sources[r] |-> "unknown"],
                       !.pexit = @ \ Pairs(r), !.penter = @ \ Pairs(r)]
    IN  IF r \in m.leaving THEN Rewind(u, r) ELSE u

(* A guard's value read in the middle of an enter: a flip to true releases *)
(* what waits for it.                                                      *)
RefreshOne(g, m) ==
    LET was == g \in m.latched
        v == [m EXCEPT !.seen[g] = [s \in Sources[g] |-> value[g]],
                       !.latched = IF value[g] = "true" THEN @ \cup {g} ELSE @ \ {g}]
    IN  IF value[g] = "unknown" THEN MarkUnknown(m, g)
        ELSE IF ~Effective(g) THEN m
        ELSE IF value[g] = "true" /\ ~was THEN Release(v, enabled) ELSE v

RefreshGuards(m, r) ==
    FoldSet(RefreshOne, m, (Of(present, {"guard"}) \cap Iot) \ {r})

(* _state_machine_allows and the spawn that follows, for a rule that has   *)
(* just become true.                                                       *)
Ask(m, r) ==
    IF r \notin enabled THEN No(m)
    ELSE IF Direction[r] = "exit" THEN HandleExit(m, enabled, r)
    ELSE HandleEnter(m, enabled, r)

SlotOf(r) == IF Direction[r] = "exit" THEN "on_exit" ELSE "on_enter"

Refreshed(m, r) == IF Direction[r] \in {"enter", "session"} THEN RefreshGuards(m, r) ELSE m

(* _dispatch_event. *)
Entered(m, r) ==
    LET calm == [m EXCEPT !.leaving = @ \ {r}, !.penter = @ \ Pairs(r)]
        asked == Ask(Refreshed(calm, r), r)
    IN  IF Direction[r] = "guard" THEN Release(m, enabled)
        ELSE IF r \in m.leaving \/ r \in Timed THEN calm
        ELSE IF asked.ok THEN Fire(asked.m, SlotOf(r)) ELSE asked.m

Exited(m, r) ==
    LET c == [m EXCEPT !.pending = Without(@, {r})]
    IN  IF Direction[r] # "session" \/ (r \in Timed /\ r \notin m.fired) THEN c
        ELSE [c EXCEPT !.leaving = @ \cup {r}, !.penter = @ \ Pairs(r)]

(* _evaluate_duration: one sample per round; a gap of k rounds counts as   *)
(* false, a gap of a whole window forgets it.  k = -1: the same round.     *)
LastN(q, n) == IF Len(q) <= n THEN q ELSE SubSeq(q, Len(q) - n + 1, Len(q))

Sampled(q, v, k) ==
    LET aged == IF q = <<>> \/ k >= Window THEN <<>> ELSE q \o [i \in 1 .. k |-> FALSE]
    IN  LastN(Append(aged, v), Window)

Met(q) == Len(q) = Window /\ Cardinality({i \in DOMAIN q : q[i]}) >= Quota

EvaluateDuration(m, r, v, k) ==
    LET sampled == [m EXCEPT !.win[r] = Sampled(@, v, k)]
        ready == IF v THEN Refreshed(sampled, r) ELSE sampled
        asked == Ask(ready, r)
        done == IF Direction[r] = "session" THEN [asked.m EXCEPT !.fired = @ \cup {r}]
                ELSE [asked.m EXCEPT !.win[r] = <<>>]
    IN  IF r \in m.fired \/ (k = -1 /\ m.win[r] # <<>>) THEN m
        ELSE IF ~Met(sampled.win[r]) THEN sampled
        ELSE IF ready.win[r] # sampled.win[r] THEN ready    \* released by the refresh
        ELSE IF asked.ok THEN Fire(done, SlotOf(r)) ELSE asked.m

(* The two-frame filter of camera sources: a source is believed to turn    *)
(* false at its second false frame and, while the exit debounces, to turn  *)
(* true at its second true frame.                                          *)
Doubted(m, r, s, v) ==
    /\ r \notin Iot
    /\ \/ m.seen[r][s] = "true" /\ (v = (<<r, s>> \in m.pexit))
       \/ m.seen[r][s] # "true" /\ r \in m.leaving /\ (v # (<<r, s>> \in m.penter))

Filtered(m, r, s, v) ==
    IF m.seen[r][s] = "true"
    THEN [m EXCEPT !.pexit = IF v THEN @ \ {<<r, s>>} ELSE @ \cup {<<r, s>>}]
    ELSE [m EXCEPT !.penter = IF v THEN @ \cup {<<r, s>>} ELSE @ \ {<<r, s>>}]

(* No flip: a way in that is still true asks again for what it waits for.  *)
(* Mutant: asks only on an edge.                                           *)
Steady_Waits(m, r) == m

Steady(m, r) == IF r \in EnterSide(Rules) THEN Release(m, enabled) ELSE m

(* The rest of update_state: aggregate, compare with the last aggregate,   *)
(* and act on a flip.                                                      *)
Aggregated(m, r, s, v) ==
    LET b == [m EXCEPT !.seen[r][s] = IF v THEN "true" ELSE "false",
                       !.pexit = @ \ {<<r, s>>},
                       !.penter = IF r \in m.leaving /\ r \notin Iot THEN @ \ {<<r, s>>} ELSE @]
        now == Cond(b, r)
        l == [b EXCEPT !.latched = IF now = "true" THEN @ \cup {r} ELSE @ \ {r}]
    IN  IF now = "unknown" THEN b
        ELSE IF now = "true" /\ r \notin m.latched THEN Entered(l, r)
        ELSE IF now = "false" /\ r \in m.latched THEN Exited(l, r)
        ELSE IF now = "true" THEN Steady(l, r) ELSE l

UpdateState(m, r, s, v, cycle, k) ==
    LET known == IF m.seen[r][s] = "none" THEN [m EXCEPT !.seen[r][s] = "false"] ELSE m
        timed == IF r \in Timed THEN EvaluateDuration(known, r, v \/ cycle, k) ELSE known
    IN  IF ~Effective(r) THEN m
        ELSE IF Doubted(timed, r, s, v) THEN Filtered(timed, r, s, v)
        ELSE Aggregated(timed, r, s, v)

(* _reconcile_iot_task_state: the exit an edge did not deliver. *)
Reconciled(m, r) ==
    IF ~Effective(r) \/ ~m.on THEN m
    ELSE IF Direction[r] = "exit" /\ value[r] = "true"
         THEN LET h == HandleExit(m, enabled, r)
              IN  IF h.ok THEN Fire(h.m, "on_exit") ELSE h.m
    ELSE IF Direction[r] = "session" /\ value[r] = "false" /\ r \notin m.leaving
         THEN Exited(m, r)
    ELSE m

(* The rules R start over, as if nothing had been observed of them. *)
Reset(m, R) ==
    [m EXCEPT !.seen = [r \in Rules |-> IF r \in R THEN Fresh.seen[r] ELSE @[r]],
              !.pexit = {x \in @ : x[1] \notin R}, !.penter = {x \in @ : x[1] \notin R},
              !.latched = @ \ R, !.leaving = @ \ R, !.fired = @ \ R,
              !.win = [r \in Rules |-> IF r \in R THEN <<>> ELSE @[r]],
              !.pending = Without(@, R)]

HasDispatchedEnter(m, r) ==
    r \in m.leaving \/ (IF r \in Timed THEN r \in m.fired ELSE r \in m.latched)

(* A changed condition starts over, but what was entered stays entered. *)
(* Mutant: an edit always starts afresh.                                   *)
Reshaped_CarriesNothing(m, r) == Reset(m, {r})

Reshaped(m, r) ==
    IF ~HasDispatchedEnter(m, r) THEN Reset(m, {r})
    ELSE [Reset(m, {r}) EXCEPT !.latched = @ \cup {r},
                             !.fired = IF r \in Timed THEN @ \cup {r} ELSE @]

ShouldStayOn(m, T) ==
    IF Of(T, {"session"}) # {} THEN \E r \in Of(T, {"session"}) : Cond(m, r) # "false"
    ELSE ExitSide(T) # {} /\ ~\E x \in ExitSide(T) : Cond(m, x) = "true"

Reconfigured(m, T) ==
    LET p == [m EXCEPT !.pending = Keep(@, EnterSide(T))]
    IN  IF m.on /\ ~ShouldStayOn(m, T) THEN Fire([p EXCEPT !.on = FALSE], "on_exit") ELSE p

--------------------------------------------------------------------------
(* The actions. *)

Quiet == [w EXCEPT !.out = <<>>]

(* Perception reports a camera rule. *)
Frame(r, s) ==
    /\ r \in present \ Iot
    /\ \E v \in BOOLEAN :
       \E cycle \in IF r \in Timed /\ Sources[r] # {s} THEN BOOLEAN ELSE {FALSE} :
       \E k \in IF r \in Timed THEN -1 .. Window ELSE {0} :
          w' = UpdateState(Quiet, r, s, v, cycle, k)
    /\ UNCHANGED <<value, present, enabled, paused>>

(* The device property behind a rule changes, or the device goes away. *)
DeviceChanges(r) ==
    /\ \E v \in Tri \ {value[r]} : value' = [value EXCEPT ![r] = v]
    /\ w' = Quiet
    /\ UNCHANGED <<present, enabled, paused>>

(* IotSource evaluates a rule: its property changed, the rule was seeded,  *)
(* or four seconds have passed.                                            *)
IotEval(r) ==
    /\ r \in present \cap Iot
    /\ w' = IF value[r] = "unknown" THEN MarkUnknown(Quiet, r)
            ELSE Reconciled(UpdateState(Quiet, r, CHOOSE s \in Sources[r] : TRUE,
                                        value[r] = "true", FALSE, 0), r)
    /\ UNCHANGED <<value, present, enabled, paused>>

(* The exit debounce of r runs out. *)
(* Mutant: the check after the sleep is inverted.                          *)
ExitLands_Inverted(r) ==
    LET h == HandleExit([Quiet EXCEPT !.leaving = @ \ {r}], enabled, r)
    IN  /\ r \in w.leaving
        /\ w' = IF Cond(w, r) = "false" THEN Rewind(Quiet, r)
                ELSE IF h.ok THEN Fire(h.m, "on_exit") ELSE h.m
        /\ UNCHANGED <<value, present, enabled, paused>>

ExitLands(r) ==
    LET c == [Quiet EXCEPT !.leaving = @ \ {r}, !.penter = @ \ Pairs(r)]
        d == IF r \in Timed THEN [c EXCEPT !.fired = @ \ {r}, !.win[r] = <<>>] ELSE c
        h == HandleExit(d, enabled, r)
    IN  /\ r \in w.leaving
        /\ w' = IF Cond(w, r) # "false" THEN Rewind(Quiet, r)
                ELSE IF h.ok THEN Fire(h.m, "on_exit") ELSE h.m
        /\ UNCHANGED <<value, present, enabled, paused>>

(* Only an error this rule brings in is refused. *)
Create(r) ==
    /\ "create" \in Ops /\ r \notin present
    /\ RuleSetError(present \cup {r}) => RuleSetError(present)
    /\ present' = present \cup {r} /\ enabled' = enabled \cup {r}
    /\ w' = Reconfigured(Quiet, enabled')
    /\ UNCHANGED <<value, paused>>

(* The topology loses the rule before the runner does, so the forced exit  *)
(* still has a rule to be logged under.                                    *)
Delete(r) ==
    /\ "delete" \in Ops /\ r \in present
    /\ present' = present \ {r} /\ enabled' = enabled \ {r}
    /\ w' = Reset(Reconfigured(Quiet, enabled'), {r})
    /\ UNCHANGED <<value, paused>>

Toggle(r) ==
    /\ "toggle" \in Ops /\ r \in present
    /\ enabled' = IF r \in enabled THEN enabled \ {r} ELSE enabled \cup {r}
    /\ w' = Reconfigured(Reset(Quiet, {r}), enabled')
    /\ UNCHANGED <<value, present, paused>>

(* A new condition: another query, other cameras, another device. *)
EditCondition(r) ==
    /\ "edit" \in Ops /\ r \in present
    /\ w' = Reconfigured(Reshaped(Quiet, r), enabled)
    /\ UNCHANGED <<value, present, enabled, paused>>

(* Any other edit of a rule, or of the task's actions. *)
Touch ==
    /\ "touch" \in Ops /\ present # {}
    /\ w' = Reconfigured(Quiet, enabled)
    /\ UNCHANGED <<value, present, enabled, paused>>

Pause ==
    /\ "pause" \in Ops /\ ~paused
    /\ paused' = TRUE
    /\ w' = [Reset(Quiet, present) EXCEPT !.on = FALSE, !.pending = <<>>]
    /\ UNCHANGED <<value, present, enabled>>

Resume ==
    /\ paused
    /\ paused' = FALSE
    /\ w' = Reconfigured(Quiet, enabled)
    /\ UNCHANGED <<value, present, enabled>>

(* Midnight, for a task with a recurring record: every session rule that   *)
(* is true closes yesterday and opens today, past the task layer.          *)
CrossDay ==
    LET affected == Of(present, {"session"}) \cap w.latched
    IN  /\ "rollover" \in Ops /\ affected # {}
        /\ w' = [Quiet EXCEPT !.leaving = @ \ affected, !.fired = @ \ affected,
                              !.win = [r \in Rules |-> IF r \in affected THEN <<>> ELSE @[r]],
                              !.out = <<"on_exit", "on_enter">>]
        /\ UNCHANGED <<value, present, enabled, paused>>

Restart ==
    /\ "restart" \in Ops
    /\ w' = Fresh
    /\ UNCHANGED <<value, present, enabled, paused>>

Next ==
    \/ \E r \in Rules : \E s \in Sources[r] : Frame(r, s)
    \/ \E r \in Iot : DeviceChanges(r) \/ IotEval(r)
    \/ \E r \in Rules : ExitLands(r) \/ Create(r) \/ Delete(r) \/ Toggle(r) \/ EditCondition(r)
    \/ Touch \/ Pause \/ Resume \/ CrossDay \/ Restart

Spec == Init /\ [][Next]_vars

(* The sleep of a debounce ends; the four-second loop evaluates every iot  *)
(* rule again and again; a paused task is resumed some day only if the     *)
(* user does so, hence no fairness on anything else.                       *)
FairSpec == Spec /\ \A r \in Rules : WF_vars(ExitLands(r)) /\ WF_vars(r \in Iot /\ IotEval(r))
--------------------------------------------------------------------------
(* Properties. *)

(* Every field keeps its type; what waits for a guard waits once.          *)
TypeOK ==
    /\ w.seen \in [Rules -> UNION {[Sources[r] -> Tri \cup {"none"}] : r \in Rules}]
    /\ \A r \in Rules : DOMAIN w.seen[r] = Sources[r] /\ Len(w.win[r]) <= Window
    /\ w.pexit \cup w.penter \subseteq UNION {Pairs(r) : r \in Rules \ Iot}
    /\ w.latched \cup w.leaving \cup w.fired \subseteq present
    /\ w.on \in BOOLEAN
    /\ Range(w.pending) \subseteq Rules /\ Cardinality(Range(w.pending)) = Len(w.pending)
    /\ value \in [Iot -> Tri] /\ enabled \subseteq present /\ present \subseteq Rules

(* A debounce under way belongs to a session that is still seen to be      *)
(* over: not to a rule that came back, whose device went away, or that was *)
(* edited, disabled or paused in between.  Its landing may then act.       *)
LeavingIsOver ==
    \A r \in w.leaving : /\ Effective(r) /\ Direction[r] = "session"
                         /\ Cond(w, r) = "false" /\ r \notin w.latched

(* What a guard holds back is an enter the task may still make: its rule   *)
(* is an enabled way in of a task that is off, and nobody has paused it;   *)
(* and unless it counts a duration, its condition has not been seen to end.*)
PendingIsAlive ==
    \A r \in Range(w.pending) :
        /\ Effective(r) /\ r \in EnterSide(enabled)
        /\ ~(w.on /\ SessionType(enabled))
        /\ r \notin Timed => r \in w.latched

(* A task that is on has a way out that is still being watched.            *)
OnHasExit == w.on => SessionType(enabled) /\ ~paused

(* A task whose session is over is off, or on its way out.                 *)
OverIsLeaving ==
    w.on => \A r \in Of(enabled, {"session"}) : Cond(w, r) = "false" => r \in w.leaving

(* A rule, its debounce and its task tell the same story of a session that *)
(* is over, whatever was edited, paused, reset or unreadable in between.   *)
SessionInv == TypeOK /\ LeavingIsOver /\ OverIsLeaving

(* The edge detector and the task agree that a session is on: otherwise no *)
(* exit edge will ever close it.                                           *)
OnIsLatched ==
    w.on => \A r \in Of(enabled, {"session"}) : HasDispatchedEnter(w, r)

(* Both ways round: no session is on that the edge detector has lost, and  *)
(* none that is over is on and not on its way out.                         *)
EdgeInv == OnIsLatched /\ OverIsLeaving

(* A session rule that is seen to be true has opened its task, or waits    *)
(* for a guard: nothing else will open it before its condition ends.       *)
SessionNotForgotten ==
    \A r \in Of(enabled, {"session"}) \ Timed :
        r \in w.latched => w.on \/ r \in Range(w.pending)

(* A task is not on while an exit condition, not counted over a duration,  *)
(* is seen to be true, whichever came first.                               *)
NotOnAgainstExit ==
    w.on => \A x \in Of(enabled, {"exit"}) \ Timed : Cond(w, x) # "true"

(* What a guard holds back may still be entered, and what is on has a way  *)
(* out that is watched and not true yet.                                   *)
WayOutInv == PendingIsAlive /\ OnHasExit /\ NotOnAgainstExit

(* A task opens only when every guard is seen to be true, nothing on its   *)
(* way out is, and, unless it counts a duration, some way in is true.      *)
OpensWhenAllowed ==
    [][(~w.on /\ w'.on) =>
          /\ \A g \in Of(enabled', {"guard"}) : Cond(w', g) = "true"
          /\ \A x \in Of(enabled', {"exit"}) : Cond(w', x) # "true"
          /\ \E r \in EnterSide(enabled') : r \in Timed \/ Cond(w', r) = "true"]_vars

(* The actions a task with a way out runs are on_enter and on_exit in      *)
(* turn, in step with its state; it is closed without an action only when  *)
(* it is paused or the process restarts.                                   *)
InTurn(m, acts, n) ==
    /\ \A i \in DOMAIN acts : acts[i] = IF (i % 2 = 1) = m.on THEN "on_exit" ELSE "on_enter"
    /\ n.on = IF acts = <<>> THEN n.on /\ m.on ELSE acts[Len(acts)] = "on_enter"

ActionsAlternate ==
    [][(w.on \/ SessionType(enabled')) =>
          \/ InTurn(w, w'.out, w') /\ (w'.out = <<>> => w'.on = w.on)
          \/ w'.out = <<>> /\ ~w'.on /\ (paused' \/ w' = Fresh)]_vars

(* An enter held back by a guard is released or dropped in the end when    *)
(* the device behind it and those behind its guards stay true and the      *)
(* rules of the task are left alone.                                       *)
HeldBackNotForever ==
    <>[][UNCHANGED enabled /\ ~\E r \in Rules : EditCondition(r)]_vars =>
        \A r \in Iot : []<>~(/\ r \in Range(w.pending) /\ value[r] = "true"
                             /\ \A g \in Of(enabled, {"guard"}) : g \in Iot /\ value[g] = "true")

(* When a session's device stays false and its rule is left alone, the     *)
(* task ends up off, however often the rule was edited, paused or          *)
(* unreadable before.                                                      *)
LeavesWhenOver ==
    \A r \in Iot : Direction[r] = "session" =>
        (/\ <>[](r \in enabled /\ value[r] = "false")
         /\ <>[][~EditCondition(r)]_vars
         => <>[]~w.on)
=============================================================================
