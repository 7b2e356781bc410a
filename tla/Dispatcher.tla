----------------------------- MODULE Dispatcher -----------------------------
(***************************************************************************)
(* AgentDispatcher (backend/miloco/src/miloco/dispatch/dispatcher.py): one *)
(* queue and at most one drainer task per agent session, on one asyncio    *)
(* loop.  An action is a stretch of code between two awaits.               *)
(*                                                                         *)
(* An element of Event is a message some producer may dispatch, again once *)
(* its previous life is over.  Monotonic time is abstracted to what the    *)
(* code compares: which of two messages is older (arrived) and which have  *)
(* outlived message_ttl_sec (stale).                                       *)
(***************************************************************************)
EXTENDS Integers, FiniteSets

CONSTANTS
    Event,      \* the messages producers dispatch
    TypeOf,     \* TypeOf[e]: the event_type of e
    IntraOf,    \* IntraOf[e]: its intra_priority, smaller is more urgent
    Cap,        \* settings.dispatcher.max_queue
    TtlOn       \* settings.dispatcher.message_ttl_sec > 0

EventType == {"interaction", "rule", "suggestion", "bind", "onboarding"}

ASSUME EventAssumption ==
    /\ TypeOf \in [Event -> EventType]
    /\ IntraOf \in [Event -> Nat]

ASSUME CapAssumption == Cap \in Nat

ASSUME TtlAssumption == TtlOn \in BOOLEAN

Session == {"main", "rule", "suggest"}

(* _ROUTE: the session an event type queues in, and its priority.          *)
SessionOf(e) ==
    CASE TypeOf[e] = "rule"       -> "rule"
      [] TypeOf[e] = "suggestion" -> "suggest"
      [] OTHER                    -> "main"

Priority(e) ==
    CASE TypeOf[e] = "interaction" -> 0
      [] TypeOf[e] = "rule"        -> 10
      [] TypeOf[e] = "suggestion"  -> 20
      [] OTHER                     -> 30

VARIABLES
    queue,      \* _queues: the events waiting in each session
    arrived,    \* <<x, y>> \in arrived: x.enqueued_at is before y.enqueued_at
    stale,      \* the queued events older than the TTL
    tasks,      \* the live drainer tasks of each session: a task is the batch
                \* it is sending, {} when it was created and has not run yet
    draining,   \* _draining
    closed,     \* _closed
    stopping,   \* stop() awaits the drainers it cancelled
    fut         \* the delivery future of each event

vars == <<queue, arrived, stale, tasks, draining, closed, stopping, fut>>

Final == {"sent", "dropped", "cancelled"}

TypeOK ==
    /\ queue \in [Session -> SUBSET Event]
    /\ arrived \subseteq Event \X Event
    /\ stale \subseteq Event
    /\ tasks \in [Session -> SUBSET (SUBSET Event)]
    /\ draining \subseteq Session
    /\ closed \in BOOLEAN
    /\ stopping \in BOOLEAN
    /\ fut \in [Event -> {"none", "pending"} \cup Final]

Queued(e) == \E s \in Session : e \in queue[s]

InFlight(e) == \E s \in Session : \E b \in tasks[s] : e \in b

Init ==
    /\ queue = [s \in Session |-> {}]
    /\ arrived = {}
    /\ stale = {}
    /\ tasks = [s \in Session |-> {}]
    /\ draining = {}
    /\ closed = FALSE
    /\ stopping = FALSE
    /\ fut = [e \in Event |-> "none"]

-----------------------------------------------------------------------------
(* Mutant: resolves futures that are already done.                         *)
Resolved_NoDoneCheck(f, S, result) ==
    [e \in Event |-> IF e \in S THEN result ELSE f[e]]

(* _resolve_delivered on every event of S: a future that is already done   *)
(* is left alone.                                                          *)
Resolved(f, S, result) ==
    [e \in Event |-> IF e \in S /\ f[e] = "pending" THEN result ELSE f[e]]

(* Mutant: _drop_expired never finds anything.                             *)
Expired_Never(S) == {}

(* The events in S that _drop_expired removes.                             *)
Expired(S) == S \cap stale

(* Mutant: the sign of the item's urgency is swapped.                      *)
EvictedBefore_UrgentItem(v, w, order) ==
    \/ Priority(v) > Priority(w)
    \/ Priority(v) = Priority(w) /\ IntraOf[v] < IntraOf[w]
    \/ /\ Priority(v) = Priority(w)
       /\ IntraOf[v] = IntraOf[w]
       /\ <<v, w>> \in order

(* The order in which _enforce_cap picks victims: the least urgent type,   *)
(* then the least urgent item, then the oldest.                            *)
EvictedBefore(v, w, order) ==
    \/ Priority(v) > Priority(w)
    \/ Priority(v) = Priority(w) /\ IntraOf[v] > IntraOf[w]
    \/ /\ Priority(v) = Priority(w)
       /\ IntraOf[v] = IntraOf[w]
       /\ <<v, w>> \in order

Victims(q, order) ==
    {v \in q : /\ Cardinality(q) > Cap
               /\ \A w \in q \ {v} : EvictedBefore(v, w, order)}

(* Mutant: max() for min(), the least urgent type goes first.              *)
Lead_LeastUrgent(q) ==
    CHOOSE x \in q : \A y \in q \ {x} :
        \/ Priority(x) > Priority(y)
        \/ Priority(x) = Priority(y) /\ <<x, y>> \in arrived

(* _take_batch: min() takes the first event of the least priority number,  *)
(* the batch is every queued event of its type.                            *)
Lead(q) ==
    CHOOSE x \in q : \A y \in q \ {x} :
        \/ Priority(x) < Priority(y)
        \/ Priority(x) = Priority(y) /\ <<x, y>> \in arrived

Batch(q) == {x \in q : TypeOf[x] = TypeOf[Lead(q)]}

(* _kick: start a drainer unless one is marked for the session.            *)
Kick(s) ==
    IF s \in draining
    THEN UNCHANGED <<draining, tasks>>
    ELSE /\ draining' = draining \cup {s}
         /\ tasks' = [tasks EXCEPT ![s] = @ \cup {{}}]

-----------------------------------------------------------------------------
(* dispatch() on a closed dispatcher.                                      *)
Refuse(e) ==
    /\ fut[e] = "none"
    /\ closed
    /\ fut' = [fut EXCEPT ![e] = "dropped"]
    /\ UNCHANGED <<queue, arrived, stale, tasks, draining, closed, stopping>>

(* dispatch(): append, drop what has expired, enforce the cap, kick.  The  *)
(* queue is within Cap before the call, so one victim restores it.         *)
Dispatch(e) ==
    /\ fut[e] = "none"
    /\ ~closed
    /\ LET s       == SessionOf(e)
           order   == arrived \cup {<<x, e>> : x \in {y \in Event : Queued(y)}}
           expired == Expired(queue[s])
           q       == (queue[s] \ expired) \cup {e}
           victims == Victims(q, order)
       IN  /\ queue' = [queue EXCEPT ![s] = q \ victims]
           /\ arrived' = order \ {p \in order : p[1] \in expired \cup victims
                                             \/ p[2] \in expired \cup victims}
           /\ stale' = stale \ expired
           /\ fut' = Resolved([fut EXCEPT ![e] = "pending"],
                              expired \cup victims, "dropped")
           /\ Kick(s)
    /\ UNCHANGED <<closed, stopping>>

(* One turn of _drain's loop for the task that held batch b: b is resolved *)
(* by _send_batch's finally, then _take_batch drops what has expired and   *)
(* hands over the next batch; with nothing left the task ends.             *)
NextBatch(s, b, result) ==
    LET expired == Expired(queue[s])
        rest    == queue[s] \ expired
        batch   == IF rest = {} THEN {} ELSE Batch(rest)
        gone    == expired \cup batch
    IN  /\ fut' = Resolved(Resolved(fut, b, result), expired, "dropped")
        /\ queue' = [queue EXCEPT ![s] = rest \ batch]
        /\ arrived' = {p \in arrived : p[1] \notin gone /\ p[2] \notin gone}
        /\ stale' = stale \ expired
        /\ tasks' = [tasks EXCEPT ![s] = (@ \ {b}) \cup
                                         (IF rest = {} THEN {} ELSE {batch})]
        /\ draining' = IF rest = {} THEN draining \ {s} ELSE draining

(* A drainer the event loop runs for the first time.                       *)
StartDrain(s) ==
    /\ ~stopping
    /\ {} \in tasks[s]
    /\ NextBatch(s, {}, "dropped")
    /\ UNCHANGED <<closed, stopping>>

(* How _send_batch can return.  "skipped": the builder raised or had       *)
(* nothing to say; "transport": AdapterTransportError.                     *)
Delivered == {"ok", "timeout"}
Outcome == Delivered \cup {"error", "no-channel", "transport", "skipped"}

SendEnds(s, b, outcome) ==
    /\ ~stopping
    /\ b \in tasks[s] \ {{}}
    /\ NextBatch(s, b, IF outcome \in Delivered THEN "sent" ELSE "dropped")
    /\ UNCHANGED <<closed, stopping>>

(* Mutants: the finally of _send_batch is missing; the finally of _drain   *)
(* does not kick again.                                                    *)
DrainerDies_Unanswered(s, b) ==
    /\ ~stopping
    /\ b \in tasks[s] \ {{}}
    /\ tasks' = [tasks EXCEPT ![s] = @ \ {b}]
    /\ draining' = draining \ {s}
    /\ UNCHANGED <<queue, arrived, stale, closed, stopping, fut>>

DrainerDies_NoRekick(s, b) ==
    /\ ~stopping
    /\ b \in tasks[s] \ {{}}
    /\ fut' = Resolved(fut, b, "dropped")
    /\ tasks' = [tasks EXCEPT ![s] = @ \ {b}]
    /\ draining' = draining \ {s}
    /\ UNCHANGED <<queue, arrived, stale, closed, stopping>>

(* send_turn raises what _send_batch does not catch: the batch is resolved *)
(* and the task dies in _drain's finally, which kicks a new one if events  *)
(* are waiting.                                                            *)
DrainerDies(s, b) ==
    /\ ~stopping
    /\ b \in tasks[s] \ {{}}
    /\ fut' = Resolved(fut, b, "dropped")
    /\ IF queue[s] # {} /\ ~closed
       THEN /\ tasks' = [tasks EXCEPT ![s] = (@ \ {b}) \cup {{}}]
            /\ UNCHANGED draining
       ELSE /\ tasks' = [tasks EXCEPT ![s] = @ \ {b}]
            /\ draining' = draining \ {s}
    /\ UNCHANGED <<queue, arrived, stale, closed, stopping>>

-----------------------------------------------------------------------------
(* stop(): close and cancel every drainer ...                              *)
StopBegin ==
    /\ ~closed
    /\ closed' = TRUE
    /\ stopping' = TRUE
    /\ UNCHANGED <<queue, arrived, stale, tasks, draining, fut>>

(* ... each ends with CancelledError: one that is sending resolves its     *)
(* batch and unmarks its session, one that never ran has no finally ...    *)
Cancelled(s, b) ==
    /\ stopping
    /\ b \in tasks[s]
    /\ fut' = Resolved(fut, b, "dropped")
    /\ tasks' = [tasks EXCEPT ![s] = @ \ {b}]
    /\ draining' = IF b = {} THEN draining ELSE draining \ {s}
    /\ UNCHANGED <<queue, arrived, stale, closed, stopping>>

(* ... and when all have ended the queues are resolved and cleared.        *)
StopEnd ==
    /\ stopping
    /\ \A s \in Session : tasks[s] = {}
    /\ stopping' = FALSE
    /\ draining' = {}
    /\ fut' = Resolved(fut, {e \in Event : Queued(e)}, "dropped")
    /\ queue' = [s \in Session |-> {}]
    /\ arrived' = {}
    /\ stale' = {}
    /\ UNCHANGED <<tasks, closed>>

(* start(), which the application calls on a dispatcher that is at rest.   *)
Start ==
    /\ closed
    /\ ~stopping
    /\ closed' = FALSE
    /\ UNCHANGED <<queue, arrived, stale, tasks, draining, stopping, fut>>

-----------------------------------------------------------------------------
(* Time passes: the oldest queued event that is not stale becomes so.      *)
Age(e) ==
    /\ TtlOn
    /\ Queued(e)
    /\ e \notin stale
    /\ \A x \in Event : <<x, e>> \in arrived => x \in stale
    /\ stale' = stale \cup {e}
    /\ UNCHANGED <<queue, arrived, tasks, draining, closed, stopping, fut>>

(* The producer stops waiting (asyncio.wait_for cancels the future).       *)
GiveUp(e) ==
    /\ fut[e] = "pending"
    /\ fut' = [fut EXCEPT ![e] = "cancelled"]
    /\ UNCHANGED <<queue, arrived, stale, tasks, draining, closed, stopping>>

(* The producer is done with e and may dispatch such an event again.       *)
Forget(e) ==
    /\ fut[e] \in Final
    /\ ~Queued(e)
    /\ ~InFlight(e)
    /\ fut' = [fut EXCEPT ![e] = "none"]
    /\ UNCHANGED <<queue, arrived, stale, tasks, draining, closed, stopping>>

Next ==
    \/ \E e \in Event :
        \/ Dispatch(e)
        \/ Refuse(e)
        \/ Age(e)
        \/ GiveUp(e)
        \/ Forget(e)
    \/ \E s \in Session :
        \/ StartDrain(s)
        \/ \E b \in tasks[s] :
            \/ \E o \in Outcome : SendEnds(s, b, o)
            \/ DrainerDies(s, b)
            \/ Cancelled(s, b)
    \/ StopBegin
    \/ StopEnd
    \/ Start

Spec == Init /\ [][Next]_vars

(***************************************************************************)
(* Fairness.  The loop runs every task that is ready; send_turn returns    *)
(* within its HTTP timeouts and its finite retries; a cancelled task is    *)
(* woken; stop() runs to its end; the clock advances.  Nothing obliges a   *)
(* producer to dispatch, to give up or to start the dispatcher again.      *)
(***************************************************************************)
SendReturns(s) ==
    \E b \in tasks[s] :
        \/ \E o \in Outcome : SendEnds(s, b, o)
        \/ DrainerDies(s, b)
        \/ Cancelled(s, b)

Fairness ==
    /\ \A s \in Session :
        /\ WF_vars(StartDrain(s))
        /\ WF_vars(SendReturns(s))
    /\ WF_vars(StopEnd)
    /\ \A e \in Event : WF_vars(Age(e))

-----------------------------------------------------------------------------
(* No lost wakeup.  An open dispatcher with waiting events has a drainer   *)
(* task for their session: the check of _draining in _kick, the discard in *)
(* _drain and the second kick never leave events with nobody to send them. *)
NoLostWakeup ==
    ~closed => \A s \in Session : queue[s] # {} => tasks[s] # {}

(* Single flight.  No session ever has two drainers, hence two turns, at   *)
(* the same time, whatever dies and is kicked again.                       *)
SingleFlight == \A s \in Session : \A b, c \in tasks[s] : b = c

(* The _draining mark is never left behind by a drainer that has gone,     *)
(* which would block its session for good.                                 *)
MarkedHasDrainer ==
    ~closed => \A s \in Session : s \in draining <=> tasks[s] # {}

(* Every unresolved future belongs to an event that waits in its session's *)
(* queue or is being sent: no path loses an event and leaves its producer  *)
(* waiting (the promise of _QueuedEvent.delivered).                        *)
NothingDangles ==
    \A e \in Event : fut[e] = "pending" =>
        \/ e \in queue[SessionOf(e)]
        \/ \E b \in tasks[SessionOf(e)] : e \in b

(* An event that is being sent is not queued any more and is in one batch  *)
(* only, of one type: it cannot be sent twice.                             *)
SentFromOnePlace ==
    \A s \in Session : \A b \in tasks[s] :
        /\ \A e \in b : ~Queued(e)
        /\ \A e, f \in b : TypeOf[e] = TypeOf[f]
        /\ \A t \in Session : \A c \in tasks[t] : c # b => b \cap c = {}

(* When stop() has returned nothing is queued, sent or marked.             *)
AtRestWhenStopped ==
    closed /\ ~stopping =>
        /\ \A s \in Session : queue[s] = {} /\ tasks[s] = {}
        /\ draining = {}
        /\ \A e \in Event : fut[e] # "pending"

(* The drainers of AgentDispatcher, whatever dies and is kicked again: an  *)
(* open dispatcher has one drainer in exactly the sessions it has marked,  *)
(* no event waits without one, and stop() leaves nothing behind.           *)
DrainerInv ==
    /\ TypeOK
    /\ SingleFlight
    /\ MarkedHasDrainer
    /\ NoLostWakeup
    /\ AtRestWhenStopped

(* An unanswered event waits or is being sent, in one place: no path loses *)
(* it and leaves its producer waiting, and none sends it twice.            *)
PlaceInv == NothingDangles /\ SentFromOnePlace

(* A message that no TTL has reached is dropped by an open dispatcher ...  *)
Evicted(e) ==
    /\ ~closed
    /\ \/ e \in queue[SessionOf(e)] \ stale
       \/ fut[e] = "none"
    /\ fut'[e] = "dropped"

(* ... which had no room for it: the queue stays full of messages that are *)
(* at least as urgent, none of them expired.                               *)
NoRoom(e) ==
    LET q == queue'[SessionOf(e)]
    IN  /\ Cardinality(q) = Cap
        /\ q \cap stale = {}
        /\ \A x \in q : \/ Priority(x) < Priority(e)
                        \/ Priority(x) = Priority(e) /\ IntraOf[x] <= IntraOf[e]

(* A message within its TTL is dropped from an open dispatcher's queue     *)
(* only for want of room: no expired message is kept in its place, the     *)
(* queue stays full and everything kept is at least as urgent.             *)
EvictsLastResort == [][\A e \in Event : Evicted(e) => NoRoom(e)]_vars

(* A drainer that takes a batch leaves nothing of that type behind, nothing *)
(* more urgent waiting, and no expired message in the batch or the queue.  *)
TakesUrgentFresh ==
    [][\A s \in Session : \A b \in tasks'[s] \ tasks[s] : b # {} =>
        /\ b \cap stale = {}
        /\ queue'[s] \cap stale = {}
        /\ \A e \in b : \A x \in queue'[s] :
              /\ TypeOf[x] # TypeOf[e]
              /\ Priority(e) <= Priority(x)]_vars

(* A closed dispatcher begins no turn.                                     *)
NoTurnOnceClosed ==
    [][closed => \A s \in Session : tasks'[s] \subseteq tasks[s]]_vars

(* The abstract promise: every dispatched event is answered exactly once,  *)
(* and stop() leaves nothing unanswered.                                   *)
D == INSTANCE Delivery WITH
        phase <- IF ~closed THEN "open"
                 ELSE IF stopping THEN "stopping" ELSE "stopped"

AnswersOnce == D!Spec

=============================================================================
