-------------------------- MODULE DispatcherProofs --------------------------
(***************************************************************************)
(* Proofs about Dispatcher for every set of events, every queue cap and    *)
(* with or without a message TTL.                                          *)
(***************************************************************************)
EXTENDS Dispatcher, FiniteSetTheorems, TLAPS

(***************************************************************************)
(* The inductive invariant.  Each conjunct is what the next one needs:     *)
(*   - Phases: stop() runs only on a closed dispatcher, and one that has   *)
(*     returned leaves no queue, task or mark;                             *)
(*   - OneDrainer: a session has at most one task, and an open dispatcher  *)
(*     marks exactly the sessions that have one;                           *)
(*   - Homes: events wait and are sent in the session of their type, in    *)
(*     one place, and only while their future is not "none";               *)
(*   - the properties themselves.                                          *)
(***************************************************************************)
Phases ==
    /\ stopping => closed
    /\ closed /\ ~stopping =>
        /\ draining = {}
        /\ \A s \in Session : queue[s] = {} /\ tasks[s] = {}

OneDrainer == SingleFlight /\ MarkedHasDrainer

Homes ==
    /\ \A s \in Session : \A e \in queue[s] :
        SessionOf(e) = s /\ fut[e] # "none"
    /\ \A s \in Session : \A b \in tasks[s] : \A e \in b :
        /\ SessionOf(e) = s
        /\ fut[e] # "none"
        /\ e \notin queue[s]
        /\ \A f \in b : TypeOf[e] = TypeOf[f]

IInv ==
    /\ TypeOK
    /\ Phases
    /\ OneDrainer
    /\ NoLostWakeup
    /\ Homes
    /\ NothingDangles

-----------------------------------------------------------------------------
(* Every event type has a session of its own in the route table.           *)
LEMMA SessionOfType == \A e : SessionOf(e) \in Session
  BY DEF SessionOf, Session

(* Resolving futures yields futures: an event outside S keeps its answer   *)
(* and none goes back to "none" or "pending".                              *)
LEMMA ResolvedType ==
  ASSUME NEW f \in [Event -> {"none", "pending"} \cup Final],
         NEW S, NEW r \in Final
  PROVE  /\ Resolved(f, S, r) \in [Event -> {"none", "pending"} \cup Final]
         /\ \A e \in Event :
              /\ Resolved(f, S, r)[e] = "none" <=> f[e] = "none"
              /\ Resolved(f, S, r)[e] = "pending" <=>
                    f[e] = "pending" /\ e \notin S
              /\ f[e] # "pending" => Resolved(f, S, r)[e] = f[e]
              /\ f[e] = "pending" /\ e \in S => Resolved(f, S, r)[e] = r
  BY DEF Resolved, Final

(* A batch is taken from the queue and has one type.                       *)
LEMMA BatchFromQueue ==
  \A q : /\ Batch(q) \subseteq q
         /\ \A x, y \in Batch(q) : TypeOf[x] = TypeOf[y]
  BY DEF Batch

(* Type correctness of dispatch().                                         *)
LEMMA DispatchType ==
  ASSUME TypeOK, NEW e \in Event, Dispatch(e)
  PROVE  TypeOK'
<1> DEFINE s       == SessionOf(e)
           order   == arrived \cup {<<x, e>> : x \in {y \in Event : Queued(y)}}
           expired == Expired(queue[s])
           q       == (queue[s] \ expired) \cup {e}
           victims == Victims(q, order)
           f       == [fut EXCEPT ![e] = "pending"]
<1>1. s \in Session
  BY SessionOfType
<1>2. queue' \in [Session -> SUBSET Event]
  <2>1. q \ victims \in SUBSET Event
    BY <1>1 DEF TypeOK
  <2>2. queue' = [queue EXCEPT ![s] = q \ victims]
    BY DEF Dispatch
  <2> QED
    BY <2>1, <2>2 DEF TypeOK
<1>3. arrived' \subseteq Event \X Event
  BY DEF Dispatch, TypeOK
<1>4. stale' \subseteq Event
  BY DEF Dispatch, TypeOK
<1>5. /\ tasks' \in [Session -> SUBSET (SUBSET Event)]
      /\ draining' \subseteq Session
  BY <1>1 DEF Dispatch, Kick, TypeOK
<1>6. fut' \in [Event -> {"none", "pending"} \cup Final]
  <2>1. f \in [Event -> {"none", "pending"} \cup Final]
    BY DEF TypeOK
  <2>2. fut' = Resolved(f, expired \cup victims, "dropped")
    BY DEF Dispatch
  <2> HIDE DEF f, expired, victims
  <2> QED
    BY <2>1, <2>2, ResolvedType DEF Final
<1> QED
  BY <1>2, <1>3, <1>4, <1>5, <1>6 DEF Dispatch, TypeOK

(* Type correctness of one turn of the drainer's loop.                     *)
LEMMA NextBatchType ==
  ASSUME TypeOK, NEW s \in Session, NEW b, NEW r \in Final,
         NextBatch(s, b, r), UNCHANGED <<closed, stopping>>
  PROVE  TypeOK'
<1> DEFINE expired == Expired(queue[s])
           rest    == queue[s] \ expired
           batch   == IF rest = {} THEN {} ELSE Batch(rest)
<1>1. rest \subseteq Event /\ batch \subseteq Event
  BY BatchFromQueue DEF TypeOK
<1>2. fut' \in [Event -> {"none", "pending"} \cup Final]
  <2>1. Resolved(fut, b, r) \in [Event -> {"none", "pending"} \cup Final]
    BY ResolvedType DEF TypeOK
  <2>2. fut' = Resolved(Resolved(fut, b, r), expired, "dropped")
    BY DEF NextBatch
  <2> QED
    BY <2>1, <2>2, ResolvedType DEF Final
<1>3. queue' \in [Session -> SUBSET Event]
  <2>1. queue' = [queue EXCEPT ![s] = rest \ batch]
    BY DEF NextBatch
  <2> QED
    BY <2>1, <1>1 DEF TypeOK
<1>4. tasks' \in [Session -> SUBSET (SUBSET Event)]
  <2> DEFINE left == (tasks[s] \ {b}) \cup
                     (IF rest = {} THEN {} ELSE {batch})
  <2>1. tasks' = [tasks EXCEPT ![s] = left]
    BY DEF NextBatch
  <2>2. left \in SUBSET (SUBSET Event)
    BY <1>1 DEF TypeOK
  <2> HIDE DEF left
  <2> QED
    BY <2>1, <2>2 DEF TypeOK
<1>5. /\ arrived' \subseteq Event \X Event
      /\ stale' \subseteq Event
      /\ draining' \subseteq Session
  BY DEF NextBatch, TypeOK
<1> QED
  BY <1>2, <1>3, <1>4, <1>5 DEF TypeOK

(* Every step keeps the types.                                             *)
LEMMA NextType ==
  ASSUME TypeOK, [Next]_vars
  PROVE  TypeOK'
<1>1. ASSUME NEW e \in Event, Dispatch(e) PROVE TypeOK'
  BY <1>1, DispatchType
<1>2. ASSUME NEW e \in Event, Refuse(e) PROVE TypeOK'
  BY <1>2 DEF Refuse, TypeOK, Final
<1>3. ASSUME NEW e \in Event, Age(e) PROVE TypeOK'
  BY <1>3 DEF Age, TypeOK
<1>4. ASSUME NEW e \in Event, GiveUp(e) \/ Forget(e) PROVE TypeOK'
  BY <1>4 DEF GiveUp, Forget, TypeOK, Final
<1>5. ASSUME NEW s \in Session, StartDrain(s) PROVE TypeOK'
  BY <1>5, NextBatchType DEF StartDrain, Final
<1>6. ASSUME NEW s \in Session, NEW b \in tasks[s], NEW o \in Outcome,
             SendEnds(s, b, o)
      PROVE  TypeOK'
  BY <1>6, NextBatchType DEF SendEnds, Final
<1>7. ASSUME NEW s \in Session, NEW b \in tasks[s], DrainerDies(s, b)
      PROVE  TypeOK'
  <2>1. fut' \in [Event -> {"none", "pending"} \cup Final]
    BY <1>7, ResolvedType DEF DrainerDies, TypeOK, Final
  <2> QED
    BY <1>7, <2>1 DEF DrainerDies, TypeOK
<1>8. ASSUME NEW s \in Session, NEW b \in tasks[s], Cancelled(s, b)
      PROVE  TypeOK'
  <2>1. fut' \in [Event -> {"none", "pending"} \cup Final]
    BY <1>8, ResolvedType DEF Cancelled, TypeOK, Final
  <2> QED
    BY <1>8, <2>1 DEF Cancelled, TypeOK
<1>9. CASE StopBegin
  BY <1>9 DEF StopBegin, TypeOK
<1>10. CASE StopEnd
  <2>1. fut' \in [Event -> {"none", "pending"} \cup Final]
    BY <1>10, ResolvedType DEF StopEnd, TypeOK, Final
  <2> QED
    BY <1>10, <2>1 DEF StopEnd, TypeOK
<1>11. CASE Start
  BY <1>11 DEF Start, TypeOK
<1>12. CASE UNCHANGED vars
  BY <1>12 DEF vars, TypeOK
<1> QED
  BY <1>1, <1>2, <1>3, <1>4, <1>5, <1>6, <1>7, <1>8, <1>9, <1>10, <1>11,
     <1>12 DEF Next

-----------------------------------------------------------------------------
(* dispatch() keeps the invariant.  The new event joins the queue of its   *)
(* session, or is the victim and is answered at once; whoever leaves the   *)
(* queue is answered; and the session has a drainer when it returns.       *)
LEMMA DispatchInv ==
  ASSUME IInv, NEW e \in Event, Dispatch(e)
  PROVE  IInv'
<1> DEFINE s       == SessionOf(e)
           order   == arrived \cup {<<x, e>> : x \in {y \in Event : Queued(y)}}
           expired == Expired(queue[s])
           q       == (queue[s] \ expired) \cup {e}
           victims == Victims(q, order)
           left    == expired \cup victims
           f       == [fut EXCEPT ![e] = "pending"]
<1>1. s \in Session
  BY SessionOfType
<1>2. TypeOK /\ TypeOK'
  BY DispatchType DEF IInv
<1>3. /\ ~closed /\ ~closed' /\ ~stopping /\ ~stopping'
      /\ fut[e] = "none"
      /\ queue' = [queue EXCEPT ![s] = q \ victims]
      /\ fut' = Resolved(f, left, "dropped")
  BY DEF Dispatch, IInv, Phases
<1>4. f \in [Event -> {"none", "pending"} \cup Final]
  BY <1>2 DEF TypeOK
<1>5. /\ \A x \in Event : fut'[x] = "none" => fut[x] = "none" /\ x # e
      /\ \A x \in Event : fut'[x] = "pending" =>
            x \notin left /\ (x = e \/ fut[x] = "pending")
  <2>1. \A x \in Event : /\ fut'[x] = "none" <=> f[x] = "none"
                         /\ fut'[x] = "pending" <=> f[x] = "pending" /\ x \notin left
    <3> HIDE DEF f, left
    <3> QED
      BY <1>3, <1>4, ResolvedType DEF Final
  <2>2. \A x \in Event : f[x] = IF x = e THEN "pending" ELSE fut[x]
    BY <1>2 DEF TypeOK
  <2> QED
    BY <2>1, <2>2
<1>6. /\ \A t \in Session : t # s => queue'[t] = queue[t] /\ tasks'[t] = tasks[t]
      /\ queue'[s] = q \ victims
  BY <1>1, <1>2, <1>3 DEF Dispatch, Kick, TypeOK
<1>7. \/ s \in draining /\ draining' = draining /\ tasks' = tasks
      \/ /\ s \notin draining
         /\ draining' = draining \cup {s}
         /\ tasks'[s] = tasks[s] \cup {{}}
  BY <1>1, <1>2 DEF Dispatch, Kick, TypeOK
<1>8. Phases'
  BY <1>3 DEF Phases
<1>9. SingleFlight' /\ MarkedHasDrainer'
  <2> HIDE DEF s, q, victims
  <2>1. \A t \in Session : t \in draining <=> tasks[t] # {}
    BY <1>3 DEF IInv, OneDrainer, MarkedHasDrainer
  <2>2. tasks'[s] = tasks[s] \/ (tasks[s] = {} /\ tasks'[s] = {{}})
    BY <1>1, <1>7, <2>1
  <2>3. SingleFlight'
    <3> SUFFICES ASSUME NEW t \in Session, NEW b \in tasks'[t], NEW c \in tasks'[t]
                 PROVE  b = c
      BY DEF SingleFlight
    <3>1. tasks'[t] = tasks[t] \/ tasks'[t] = {{}}
      BY <1>6, <2>2
    <3>2. CASE tasks'[t] = tasks[t]
      BY <3>2 DEF IInv, OneDrainer, SingleFlight
    <3>3. CASE tasks'[t] = {{}}
      <4>1. b = {} /\ c = {}
        BY <3>3
      <4> QED
        BY <4>1
    <3> QED
      BY <3>1, <3>2, <3>3
  <2>4. MarkedHasDrainer'
    BY <1>6, <1>7, <2>1 DEF MarkedHasDrainer
  <2> QED
    BY <2>3, <2>4
<1>10. NoLostWakeup'
  BY <1>1, <1>3, <1>6, <1>7 DEF IInv, OneDrainer, MarkedHasDrainer, NoLostWakeup
<1>11. Homes'
  <2>1. ASSUME NEW t \in Session, NEW x \in queue'[t]
        PROVE  SessionOf(x) = t /\ fut'[x] # "none"
    <3>1. x \in queue[t] \/ (x = e /\ t = s)
      BY <1>6
    <3>2. x \in Event
      BY <1>2, <3>1 DEF TypeOK
    <3> QED
      BY <1>5, <3>1, <3>2 DEF IInv, Homes
  <2>2. ASSUME NEW t \in Session, NEW b \in tasks'[t], NEW x \in b
        PROVE  /\ SessionOf(x) = t
               /\ fut'[x] # "none"
               /\ x \notin queue'[t]
               /\ \A y \in b : TypeOf[x] = TypeOf[y]
    <3>1. b \in tasks[t]
      BY <1>6, <1>7
    <3>2. x \in Event /\ x # e
      BY <1>2, <1>3, <3>1 DEF TypeOK, IInv, Homes
    <3>3. x \notin queue[t]
      BY <3>1 DEF IInv, Homes
    <3>4. queue'[t] \subseteq queue[t] \cup {e}
      <4> HIDE DEF victims, expired
      <4> QED
        BY <1>6
    <3> QED
      BY <1>5, <3>1, <3>2, <3>3, <3>4 DEF IInv, Homes
  <2> QED
    BY <2>1, <2>2 DEF Homes
<1>12. NothingDangles'
  <2> SUFFICES ASSUME NEW x \in Event, fut'[x] = "pending"
               PROVE  \/ x \in queue'[SessionOf(x)]
                      \/ \E b \in tasks'[SessionOf(x)] : x \in b
    BY DEF NothingDangles
  <2>1. CASE x = e
    BY <1>5, <1>6, <2>1
  <2>2. CASE x # e /\ x \in queue[SessionOf(x)]
    BY <1>5, <1>6, <2>2, SessionOfType
  <2>3. CASE x # e /\ \E b \in tasks[SessionOf(x)] : x \in b
    BY <1>6, <1>7, <2>3, SessionOfType
  <2> QED
    BY <1>5, <2>1, <2>2, <2>3 DEF IInv, NothingDangles
<1> QED
  BY <1>2, <1>8, <1>9, <1>10, <1>11, <1>12 DEF IInv, OneDrainer

(* One turn of the drainer's loop keeps it: the session's only task either *)
(* goes on with a batch that left the queue, or ends on an empty queue.    *)
LEMMA NextBatchInv ==
  ASSUME IInv, NEW s \in Session, NEW b \in tasks[s], NEW r \in Final,
         ~stopping, NextBatch(s, b, r), UNCHANGED <<closed, stopping>>
  PROVE  IInv'
<1> DEFINE expired == Expired(queue[s])
           rest    == queue[s] \ expired
           batch   == IF rest = {} THEN {} ELSE Batch(rest)
           now     == IF rest = {} THEN {} ELSE {batch}
<1>1. TypeOK /\ TypeOK'
  BY NextBatchType DEF IInv
<1>2. ~closed /\ ~closed' /\ ~stopping'
  BY DEF IInv, Phases
<1>3. tasks[s] = {b} /\ s \in draining
  BY <1>2 DEF IInv, OneDrainer, SingleFlight, MarkedHasDrainer
<1>4. /\ \A t \in Session : t # s => queue'[t] = queue[t] /\ tasks'[t] = tasks[t]
      /\ queue'[s] = rest \ batch
      /\ tasks'[s] = now
  <2>1. /\ queue' = [queue EXCEPT ![s] = rest \ batch]
        /\ tasks' = [tasks EXCEPT ![s] = (@ \ {b}) \cup now]
    BY DEF NextBatch
  <2> HIDE DEF rest, batch, now
  <2> QED
    BY <1>1, <1>3, <2>1 DEF TypeOK
<1>5. draining' = IF rest = {} THEN draining \ {s} ELSE draining
  BY DEF NextBatch
<1>6. /\ batch \subseteq rest
      /\ \A x, y \in batch : TypeOf[x] = TypeOf[y]
  BY BatchFromQueue
<1>7. /\ \A x \in Event : fut'[x] = "none" <=> fut[x] = "none"
      /\ \A x \in Event : fut'[x] = "pending" =>
            fut[x] = "pending" /\ x \notin b /\ x \notin expired
  <2> DEFINE g == Resolved(fut, b, r)
  <2>1. g \in [Event -> {"none", "pending"} \cup Final]
    BY <1>1, ResolvedType DEF TypeOK
  <2>2. \A x \in Event : /\ g[x] = "none" <=> fut[x] = "none"
                         /\ g[x] = "pending" <=> fut[x] = "pending" /\ x \notin b
    BY <1>1, ResolvedType DEF TypeOK
  <2>3. fut' = Resolved(g, expired, "dropped")
    BY DEF NextBatch
  <2> HIDE DEF g, expired
  <2>4. \A x \in Event : /\ fut'[x] = "none" <=> g[x] = "none"
                         /\ fut'[x] = "pending" <=> g[x] = "pending" /\ x \notin expired
    BY <2>1, <2>3, ResolvedType DEF Final
  <2> QED
    BY <2>2, <2>4
<1>8. Phases'
  BY <1>2 DEF Phases
<1>9. SingleFlight' /\ MarkedHasDrainer'
  <2> HIDE DEF rest, batch
  <2> QED
    BY <1>2, <1>4, <1>5 DEF IInv, OneDrainer, SingleFlight, MarkedHasDrainer
<1>10. NoLostWakeup'
  BY <1>2, <1>4 DEF IInv, NoLostWakeup
<1>11. Homes'
  <2>1. ASSUME NEW t \in Session, NEW x \in queue'[t]
        PROVE  SessionOf(x) = t /\ fut'[x] # "none"
    <3>1. x \in queue[t] /\ x \in Event
      BY <1>1, <1>4 DEF TypeOK
    <3> QED
      BY <1>7, <3>1 DEF IInv, Homes
  <2>2. ASSUME NEW t \in Session, NEW c \in tasks'[t], NEW x \in c
        PROVE  /\ SessionOf(x) = t
               /\ fut'[x] # "none"
               /\ x \notin queue'[t]
               /\ \A y \in c : TypeOf[x] = TypeOf[y]
    <3>1. CASE t # s
      <4>1. c \in tasks[t] /\ x \in Event /\ queue'[t] = queue[t]
        BY <1>1, <1>4, <3>1 DEF TypeOK
      <4> QED
        BY <1>7, <4>1 DEF IInv, Homes
    <3>2. CASE t = s
      <4>1. c = batch /\ x \in queue[s] /\ x \in Event
        BY <1>1, <1>4, <1>6, <3>2 DEF TypeOK
      <4>2. SessionOf(x) = s /\ fut[x] # "none"
        BY <4>1 DEF IInv, Homes
      <4>3. x \notin queue'[t]
        BY <1>4, <3>2, <4>1
      <4>4. \A y \in c : TypeOf[x] = TypeOf[y]
        BY <1>6, <4>1
      <4> QED
        BY <1>7, <3>2, <4>1, <4>2, <4>3, <4>4
    <3> QED
      BY <3>1, <3>2
  <2> QED
    BY <2>1, <2>2 DEF Homes
<1>12. NothingDangles'
  <2> SUFFICES ASSUME NEW x \in Event, fut'[x] = "pending"
               PROVE  \/ x \in queue'[SessionOf(x)]
                      \/ \E c \in tasks'[SessionOf(x)] : x \in c
    BY DEF NothingDangles
  <2>1. /\ fut[x] = "pending" /\ x \notin b /\ x \notin expired
        /\ SessionOf(x) \in Session
    BY <1>7, SessionOfType
  <2>2. CASE SessionOf(x) # s
    BY <1>4, <2>1, <2>2 DEF IInv, NothingDangles
  <2>3. CASE SessionOf(x) = s
    <3>1. x \in rest
      BY <1>3, <2>1, <2>3 DEF IInv, NothingDangles
    <3>2. x \in batch \/ x \in rest \ batch
      BY <3>1
    <3> QED
      BY <1>4, <2>3, <3>1, <3>2
  <2> QED
    BY <2>2, <2>3
<1> QED
  BY <1>1, <1>8, <1>9, <1>10, <1>11, <1>12 DEF IInv, OneDrainer

(* A task that ends without taking another batch, by an exception or by    *)
(* cancellation: its batch is answered and the queues are left alone.      *)
LEMMA TaskEndsHomes ==
  ASSUME IInv, TypeOK', NEW s \in Session, NEW b \in tasks[s],
         queue' = queue,
         fut' = Resolved(fut, b, "dropped"),
         \A t \in Session : tasks'[t] \subseteq tasks[t] \cup {{}},
         \A t \in Session : tasks[t] \ tasks'[t] \subseteq {b, {}}
  PROVE  Homes' /\ NothingDangles'
<1>1. \A x \in Event : /\ fut'[x] = "none" <=> fut[x] = "none"
                       /\ fut'[x] = "pending" <=> fut[x] = "pending" /\ x \notin b
  BY ResolvedType DEF IInv, TypeOK, Final
<1>2. Homes'
  <2>1. ASSUME NEW t \in Session, NEW x \in queue'[t]
        PROVE  SessionOf(x) = t /\ fut'[x] # "none"
    BY <1>1 DEF IInv, Homes, TypeOK
  <2>2. ASSUME NEW t \in Session, NEW c \in tasks'[t], NEW x \in c
        PROVE  /\ SessionOf(x) = t
               /\ fut'[x] # "none"
               /\ x \notin queue'[t]
               /\ \A y \in c : TypeOf[x] = TypeOf[y]
    <3>1. c \in tasks[t] /\ x \in Event
      BY DEF TypeOK
    <3> QED
      BY <1>1, <3>1 DEF IInv, Homes
  <2> QED
    BY <2>1, <2>2 DEF Homes
<1>3. NothingDangles'
  <2> SUFFICES ASSUME NEW x \in Event, fut'[x] = "pending"
               PROVE  \/ x \in queue'[SessionOf(x)]
                      \/ \E c \in tasks'[SessionOf(x)] : x \in c
    BY DEF NothingDangles
  <2>1. fut[x] = "pending" /\ x \notin b /\ SessionOf(x) \in Session
    BY <1>1, SessionOfType
  <2> QED
    BY <2>1 DEF IInv, NothingDangles
<1> QED
  BY <1>2, <1>3

(* The step relation keeps the invariant.                                  *)
LEMMA NextInv ==
  ASSUME IInv, [Next]_vars
  PROVE  IInv'
<1>0. TypeOK /\ TypeOK'
  BY NextType DEF IInv
<1>1. ASSUME NEW e \in Event, Dispatch(e) PROVE IInv'
  BY <1>1, DispatchInv
<1>2. ASSUME NEW e \in Event, Refuse(e) PROVE IInv'
  <2>1. Homes' /\ NothingDangles'
    BY <1>0, <1>2 DEF Refuse, TypeOK, IInv, Homes, NothingDangles
  <2> QED
    BY <1>0, <1>2, <2>1 DEF Refuse, IInv, Phases, OneDrainer, SingleFlight,
                            MarkedHasDrainer, NoLostWakeup
<1>3. ASSUME NEW e \in Event, Age(e) PROVE IInv'
  BY <1>0, <1>3 DEF Age, IInv, Phases, OneDrainer, SingleFlight,
                    MarkedHasDrainer, NoLostWakeup, Homes, NothingDangles
<1>4. ASSUME NEW e \in Event, GiveUp(e) PROVE IInv'
  <2>1. Homes' /\ NothingDangles'
    BY <1>0, <1>4 DEF GiveUp, TypeOK, IInv, Homes, NothingDangles
  <2> QED
    BY <1>0, <1>4, <2>1 DEF GiveUp, IInv, Phases, OneDrainer, SingleFlight,
                            MarkedHasDrainer, NoLostWakeup
<1>5. ASSUME NEW e \in Event, Forget(e) PROVE IInv'
  <2>1. Homes' /\ NothingDangles'
    BY <1>0, <1>5 DEF Forget, TypeOK, IInv, Homes, NothingDangles,
                      Queued, InFlight
  <2> QED
    BY <1>0, <1>5, <2>1 DEF Forget, IInv, Phases, OneDrainer, SingleFlight,
                            MarkedHasDrainer, NoLostWakeup
<1>6. ASSUME NEW s \in Session, StartDrain(s) PROVE IInv'
  BY <1>6, NextBatchInv DEF StartDrain, Final
<1>7. ASSUME NEW s \in Session, NEW b \in tasks[s], NEW o \in Outcome,
             SendEnds(s, b, o)
      PROVE  IInv'
  BY <1>7, NextBatchInv DEF SendEnds, Final
<1>8. ASSUME NEW s \in Session, NEW b \in tasks[s], DrainerDies(s, b)
      PROVE  IInv'
  <2>1. /\ ~closed /\ ~closed' /\ ~stopping /\ ~stopping'
        /\ tasks[s] = {b} /\ s \in draining
    BY <1>8 DEF DrainerDies, IInv, Phases, OneDrainer, SingleFlight, MarkedHasDrainer
  <2>2. /\ \A t \in Session : t # s => tasks'[t] = tasks[t]
        /\ \/ /\ queue[s] # {}
              /\ tasks'[s] = {{}}
              /\ draining' = draining
           \/ /\ queue[s] = {}
              /\ tasks'[s] = {}
              /\ draining' = draining \ {s}
        /\ queue' = queue
        /\ fut' = Resolved(fut, b, "dropped")
    BY <1>0, <1>8, <2>1 DEF DrainerDies, TypeOK
  <2>3. Homes' /\ NothingDangles'
    <3>1. \A t \in Session : /\ tasks'[t] \subseteq tasks[t] \cup {{}}
                             /\ tasks[t] \ tasks'[t] \subseteq {b, {}}
      BY <2>1, <2>2
    <3> QED
      BY <1>0, <2>2, <3>1, TaskEndsHomes
  <2>4. SingleFlight' /\ MarkedHasDrainer' /\ NoLostWakeup'
    <3>1. SingleFlight'
      <4> SUFFICES ASSUME NEW t \in Session, NEW c \in tasks'[t], NEW d \in tasks'[t]
                   PROVE  c = d
        BY DEF SingleFlight
      <4>1. CASE t = s
        <5>1. c = {} /\ d = {}
          BY <2>2, <4>1
        <5> QED
          BY <5>1
      <4>2. CASE t # s
        BY <2>2, <4>2 DEF IInv, OneDrainer, SingleFlight
      <4> QED
        BY <4>1, <4>2
    <3>2. MarkedHasDrainer'
      BY <2>1, <2>2 DEF IInv, OneDrainer, MarkedHasDrainer
    <3>3. NoLostWakeup'
      BY <2>1, <2>2 DEF IInv, NoLostWakeup
    <3> QED
      BY <3>1, <3>2, <3>3
  <2> QED
    BY <1>0, <2>1, <2>3, <2>4 DEF IInv, OneDrainer, Phases
<1>9. ASSUME NEW s \in Session, NEW b \in tasks[s], Cancelled(s, b)
      PROVE  IInv'
  <2>1. /\ stopping /\ closed /\ stopping' /\ closed'
        /\ queue' = queue
        /\ fut' = Resolved(fut, b, "dropped")
    BY <1>9 DEF Cancelled, IInv, Phases
  <2>2. \A t \in Session : /\ tasks'[t] \subseteq tasks[t]
                           /\ tasks[t] \ tasks'[t] \subseteq {b}
    BY <1>0, <1>9 DEF Cancelled, TypeOK
  <2>3. Homes' /\ NothingDangles'
    BY <1>0, <2>1, <2>2, TaskEndsHomes
  <2> QED
    BY <1>0, <2>1, <2>2, <2>3 DEF IInv, Phases, OneDrainer, SingleFlight,
                                  MarkedHasDrainer, NoLostWakeup
<1>10. CASE StopBegin
  BY <1>0, <1>10 DEF StopBegin, IInv, Phases, OneDrainer, SingleFlight,
                     MarkedHasDrainer, NoLostWakeup, Homes, NothingDangles
<1>11. CASE StopEnd
  <2>1. /\ closed /\ closed' /\ ~stopping' /\ draining' = {}
        /\ \A t \in Session : queue'[t] = {} /\ tasks'[t] = {}
    BY <1>11 DEF StopEnd, IInv, Phases
  <2>2. \A x \in Event : fut'[x] # "pending"
    <3>1. \A x \in Event : fut'[x] = "pending" => fut[x] = "pending" /\ ~Queued(x)
      BY <1>0, <1>11, ResolvedType DEF StopEnd, TypeOK, Final
    <3> QED
      BY <1>11, <3>1, SessionOfType DEF StopEnd, IInv, NothingDangles, Queued
  <2> QED
    BY <1>0, <2>1, <2>2 DEF IInv, Phases, OneDrainer, SingleFlight,
                            MarkedHasDrainer, NoLostWakeup, Homes, NothingDangles
<1>12. CASE Start
  BY <1>0, <1>12 DEF Start, IInv, Phases, OneDrainer, SingleFlight,
                     MarkedHasDrainer, NoLostWakeup, Homes, NothingDangles
<1>13. CASE UNCHANGED vars
  BY <1>0, <1>13 DEF vars, IInv, Phases, OneDrainer, SingleFlight,
                     MarkedHasDrainer, NoLostWakeup, Homes, NothingDangles
<1> QED
  BY <1>1, <1>2, <1>3, <1>4, <1>5, <1>6, <1>7, <1>8, <1>9, <1>10, <1>11,
     <1>12, <1>13 DEF Next

(* The invariant holds in every reachable state.                           *)
THEOREM Invariance == Spec => []IInv
<1>1. Init => IInv
  BY DEF Init, IInv, TypeOK, Phases, OneDrainer, SingleFlight, MarkedHasDrainer,
         NoLostWakeup, Homes, NothingDangles, Session
<1>2. IInv /\ [Next]_vars => IInv'
  BY NextInv
<1> QED
  BY <1>1, <1>2, PTL DEF Spec

-----------------------------------------------------------------------------
(* An event being sent is nowhere else.                                    *)
LEMMA SentOnce == IInv => SentFromOnePlace
<1> SUFFICES ASSUME IInv, NEW s \in Session, NEW b \in tasks[s]
             PROVE  /\ \A e \in b : ~Queued(e)
                    /\ \A e, f \in b : TypeOf[e] = TypeOf[f]
                    /\ \A t \in Session : \A c \in tasks[t] :
                          c # b => b \cap c = {}
  BY DEF SentFromOnePlace
<1>1. \A e \in b : ~Queued(e)
  BY DEF IInv, Homes, Queued
<1>2. \A e, f \in b : TypeOf[e] = TypeOf[f]
  BY DEF IInv, Homes
<1>3. ASSUME NEW t \in Session, NEW c \in tasks[t], c # b
      PROVE  b \cap c = {}
  <2>1. CASE t = s
    BY <1>3, <2>1 DEF IInv, OneDrainer, SingleFlight
  <2>2. CASE t # s
    BY <2>2 DEF IInv, Homes
  <2> QED
    BY <2>1, <2>2
<1> QED
  BY <1>1, <1>2, <1>3

(* The drainers, for every set of events and every cap: one in each marked *)
(* session of an open dispatcher, one wherever events wait, and nothing    *)
(* queued, running or unanswered when stop() has returned.                 *)
THEOREM DrainersInOrder == Spec => []DrainerInv
<1>1. IInv => AtRestWhenStopped
  BY SessionOfType DEF IInv, Phases, NothingDangles, AtRestWhenStopped
<1>2. IInv => DrainerInv
  BY <1>1 DEF IInv, OneDrainer, DrainerInv
<1> QED
  BY <1>2, Invariance, PTL

(* No path leaves the future of a dispatched event unanswered and the      *)
(* event nowhere: it is queued, or in the one batch of a live drainer.     *)
THEOREM EventsInOnePlace == Spec => []PlaceInv
<1>1. IInv => PlaceInv
  BY SentOnce DEF IInv, PlaceInv
<1> QED
  BY <1>1, Invariance, PTL

(* After close no drainer takes another batch.                             *)
THEOREM ClosedTakesNothing == Spec => NoTurnOnceClosed
<1>1. ASSUME IInv, [Next]_vars
      PROVE  [closed => \A s \in Session : tasks'[s] \subseteq tasks[s]]_vars
  <2> SUFFICES ASSUME closed, Next, NEW t \in Session
               PROVE  tasks'[t] \subseteq tasks[t]
    BY <1>1
  <2>1. ASSUME NEW e \in Event,
               Dispatch(e) \/ Refuse(e) \/ Age(e) \/ GiveUp(e) \/ Forget(e)
        PROVE  tasks'[t] \subseteq tasks[t]
    BY <2>1 DEF Dispatch, Refuse, Age, GiveUp, Forget
  <2>2. ASSUME NEW s \in Session, StartDrain(s)
        PROVE  tasks'[t] \subseteq tasks[t]
    BY <1>1, <2>2 DEF StartDrain, IInv, Phases
  <2>3. ASSUME NEW s \in Session, NEW b \in tasks[s],
               \/ \E o \in Outcome : SendEnds(s, b, o)
               \/ DrainerDies(s, b)
        PROVE  tasks'[t] \subseteq tasks[t]
    BY <1>1, <2>3 DEF SendEnds, DrainerDies, IInv, Phases
  <2>4. ASSUME NEW s \in Session, NEW b \in tasks[s], Cancelled(s, b)
        PROVE  tasks'[t] \subseteq tasks[t]
    BY <1>1, <2>4 DEF Cancelled, IInv, TypeOK
  <2>5. CASE StopBegin \/ StopEnd \/ Start
    BY <2>5 DEF StopBegin, StopEnd, Start
  <2> QED
    BY <2>1, <2>2, <2>3, <2>4, <2>5 DEF Next
<1>2. [][closed => \A s \in Session : tasks'[s] \subseteq tasks[s]]_vars
        <=> NoTurnOnceClosed
  BY DEF NoTurnOnceClosed
<1> QED
  BY <1>1, <1>2, Invariance, PTL DEF Spec

-----------------------------------------------------------------------------
(* The refinement.  Phase is what phase is mapped to in D.                 *)
Phase == IF ~closed THEN "open" ELSE IF stopping THEN "stopping" ELSE "stopped"

(* A step that answers the pending events of B with "sent" and those of C  *)
(* with "dropped" is an Answer of the abstract dispatcher.                 *)
LEMMA AnswerStep ==
  ASSUME TypeOK, NEW b, NEW c, NEW r \in {"sent", "dropped"},
         r = "sent" => ~closed,
         UNCHANGED <<closed, stopping>>,
         fut' = Resolved(Resolved(fut, b, r), c, "dropped")
  PROVE  D!Next
<1> DEFINE P == {e \in Event : fut[e] = "pending"}
           B == IF r = "sent" THEN {e \in P : e \in b} ELSE {}
           C == {e \in P : e \in b \/ e \in c} \ B
<1>1. B \in SUBSET Event /\ C \in SUBSET Event
  OBVIOUS
<1>2. fut' = [e \in Event |-> IF e \in B THEN "sent"
                              ELSE IF e \in C THEN "dropped" ELSE fut[e]]
  BY DEF TypeOK, Resolved
<1>3. D!Answer(B, C)
  <2>1. \A e \in B \cup C : fut[e] = "pending"
    OBVIOUS
  <2>2. B # {} => Phase = "open"
    BY DEF Phase
  <2>3. Phase' = Phase
    BY DEF Phase
  <2> HIDE DEF B, C
  <2> QED
    BY <1>2, <2>1, <2>2, <2>3 DEF D!Answer, Phase
<1> HIDE DEF B, C
<1> QED
  BY <1>1, <1>3 DEF D!Next

(* Every step of the dispatcher is a step of its promise, or a stutter.    *)
LEMMA StepRefines ==
  ASSUME IInv, [Next]_vars
  PROVE  [D!Next]_<<fut, Phase>>
<1>0. TypeOK
  BY DEF IInv
<1>1. ASSUME NEW e \in Event, Dispatch(e) PROVE D!Next
  <2> DEFINE s       == SessionOf(e)
             order   == arrived \cup {<<x, e>> : x \in {y \in Event : Queued(y)}}
             expired == Expired(queue[s])
             q       == (queue[s] \ expired) \cup {e}
             left    == expired \cup Victims(q, order)
             S       == {x \in Event : x \in left /\ (x = e \/ fut[x] = "pending")}
  <2>1. /\ fut[e] = "none" /\ ~closed
        /\ UNCHANGED <<closed, stopping>>
        /\ fut' = Resolved([fut EXCEPT ![e] = "pending"], left, "dropped")
    BY <1>1 DEF Dispatch
  <2>2. S \in SUBSET Event /\ \A x \in S : fut[x] = "none" => x = e
    OBVIOUS
  <2>3. fut' = [x \in Event |-> IF x \in S /\ fut[x] \in {"none", "pending"}
                                THEN "dropped"
                                ELSE IF x = e THEN "pending" ELSE fut[x]]
    <3> HIDE DEF left
    <3> QED
      BY <1>0, <2>1 DEF TypeOK, Resolved
  <2>4. D!Dispatch(e, S)
    <3> HIDE DEF S
    <3> QED
      BY <2>1, <2>2, <2>3 DEF D!Dispatch
  <2> HIDE DEF S
  <2> QED
    BY <2>2, <2>4 DEF D!Next
<1>2. ASSUME NEW e \in Event, Refuse(e) PROVE D!Next
  <2>1. D!Dispatch(e, {e})
    BY <1>0, <1>2 DEF Refuse, D!Dispatch, TypeOK
  <2> QED
    BY <2>1 DEF D!Next
<1>3. ASSUME NEW e \in Event, Age(e) PROVE UNCHANGED <<fut, Phase>>
  BY <1>3 DEF Age, Phase
<1>4. ASSUME NEW e \in Event, GiveUp(e) \/ Forget(e) PROVE D!Next
  <2>1. D!GiveUp(e) \/ D!Forget(e)
    BY <1>4 DEF GiveUp, Forget, D!GiveUp, D!Forget, Final
  <2> QED
    BY <2>1 DEF D!Next
<1>5. ASSUME NEW s \in Session, StartDrain(s) PROVE D!Next
  BY <1>0, <1>5, AnswerStep DEF StartDrain, NextBatch
<1>6. ASSUME NEW s \in Session, NEW b \in tasks[s], NEW o \in Outcome,
             SendEnds(s, b, o)
      PROVE  D!Next
  <2>1. ~closed
    BY <1>6 DEF SendEnds, IInv, Phases
  <2> QED
    BY <1>0, <1>6, <2>1, AnswerStep DEF SendEnds, NextBatch
<1>7. ASSUME NEW s \in Session, NEW b \in tasks[s],
             DrainerDies(s, b) \/ Cancelled(s, b)
      PROVE  D!Next
  <2>1. /\ fut' = Resolved(fut, b, "dropped")
        /\ UNCHANGED <<closed, stopping>>
    BY <1>7 DEF DrainerDies, Cancelled
  <2>2. fut' = Resolved(Resolved(fut, b, "dropped"), {}, "dropped")
    BY <2>1 DEF Resolved
  <2> QED
    BY <1>0, <2>1, <2>2, AnswerStep
<1>8. CASE StopBegin
  BY <1>8 DEF StopBegin, IInv, Phases, D!Next, D!Stop
<1>9. CASE StopEnd
  <2>1. \A x \in Event : fut[x] = "pending" => Queued(x)
    BY <1>9, SessionOfType DEF StopEnd, IInv, NothingDangles, Queued
  <2>2. fut' = [x \in Event |-> IF fut[x] = "pending" THEN "dropped" ELSE fut[x]]
    BY <1>0, <1>9, <2>1 DEF StopEnd, Resolved, TypeOK
  <2>3. D!Stopped
    BY <1>9, <2>2 DEF StopEnd, D!Stopped, IInv, Phases
  <2> QED
    BY <2>3 DEF D!Next
<1>10. CASE Start
  BY <1>10 DEF Start, D!Next, D!Start
<1>11. CASE UNCHANGED vars
  BY <1>11 DEF vars, Phase
<1> QED
  BY <1>1, <1>2, <1>3, <1>4, <1>5, <1>6, <1>7, <1>8, <1>9, <1>10, <1>11
     DEF Next

(* The dispatcher implements its promise: every event is answered exactly  *)
(* once, "sent" only while open, and nothing is left when stop() returns.  *)
THEOREM ImplementsDelivery == Spec => AnswersOnce
<1>1. Init => D!Init
  BY DEF Init, D!Init
<1>2. IInv /\ [Next]_vars => [D!Next]_<<fut, Phase>>
  BY StepRefines
<1>3. [D!Next]_<<fut, Phase>> => [D!Next]_(D!vars)
  BY DEF D!vars, Phase
<1> QED
  BY <1>1, <1>2, <1>3, Invariance, PTL DEF Spec, AnswersOnce, D!Spec

-----------------------------------------------------------------------------
Out(e) == Queued(e) \/ InFlight(e)

(* Whatever is out has not been answered.                                  *)
Unanswered == \A e \in Event : Out(e) => fut[e] \in {"pending", "cancelled"}

(* The events of a turn that has ended are out no more.                    *)
LEMMA TurnOver ==
  ASSUME IInv, NEW s \in Session, NEW b \in tasks[s], NEW e \in b,
         \/ \E r : NextBatch(s, b, r)
         \/ DrainerDies(s, b)
         \/ Cancelled(s, b)
  PROVE  ~Out(e)'
<1>0. TypeOK
  BY DEF IInv
<1>1. \A t \in Session : e \notin queue[t] /\ e \notin queue'[t]
  <2>1. \A t \in Session : e \notin queue[t]
    BY DEF IInv, Homes
  <2>2. \A t \in Session : queue'[t] \subseteq queue[t]
    BY <1>0 DEF NextBatch, DrainerDies, Cancelled, TypeOK
  <2> QED
    BY <2>1, <2>2
<1>2. \A t \in Session : t # s => tasks'[t] = tasks[t]
  BY <1>0 DEF NextBatch, DrainerDies, Cancelled, TypeOK
<1>3. \A t \in Session : t # s => \A c \in tasks[t] : e \notin c
  BY DEF IInv, Homes
<1>4. \A c \in tasks'[s] : c \subseteq queue[s]
  <2>1. \A c \in tasks[s] : c = b
    BY DEF IInv, OneDrainer, SingleFlight
  <2>2. CASE \E r : NextBatch(s, b, r)
    BY <1>0, <2>1, <2>2, BatchFromQueue DEF NextBatch, TypeOK
  <2>3. CASE DrainerDies(s, b) \/ Cancelled(s, b)
    BY <1>0, <2>1, <2>3 DEF DrainerDies, Cancelled, TypeOK
  <2> QED
    BY <2>2, <2>3
<1> QED
  BY <1>1, <1>2, <1>3, <1>4 DEF Out, Queued, InFlight

(* What is out after a step of the dispatcher was out before, with the     *)
(* same answer, unless it has just been dispatched or given up.            *)
LEMMA StillOut ==
  ASSUME IInv, Unanswered, [Next]_vars, NEW e \in Event, Out(e)'
  PROVE  \/ Out(e) /\ fut'[e] = fut[e]
         \/ fut[e] = "none" /\ fut'[e] = "pending"
         \/ fut[e] = "pending" /\ fut'[e] = "cancelled"
<1>0. TypeOK
  BY DEF IInv
<1>1. ASSUME NEW x \in Event, Dispatch(x)
      PROVE  \/ Out(e) /\ fut'[e] = fut[e]
             \/ fut[e] = "none" /\ fut'[e] = "pending"
  <2> DEFINE s       == SessionOf(x)
             order   == arrived \cup {<<y, x>> : y \in {z \in Event : Queued(z)}}
             expired == Expired(queue[s])
             q       == (queue[s] \ expired) \cup {x}
             left    == expired \cup Victims(q, order)
             f       == [fut EXCEPT ![x] = "pending"]
  <2>1. /\ fut[x] = "none"
        /\ fut' = Resolved(f, left, "dropped")
        /\ queue' = [queue EXCEPT ![s] = q \ Victims(q, order)]
        /\ Kick(s)
    BY <1>1 DEF Dispatch
  <2>5. ~Out(x)
    BY <2>1 DEF Unanswered
  <2>2. /\ queue'[s] \subseteq (queue[s] \cup {x}) \ left
        /\ \A t \in Session : t # s => queue'[t] = queue[t]
    <3>1. /\ queue'[s] = q \ Victims(q, order)
          /\ \A t \in Session : t # s => queue'[t] = queue[t]
      <4> HIDE DEF q, order
      <4> QED
        BY <1>0, <2>1, SessionOfType DEF TypeOK
    <3>2. q \ Victims(q, order) \subseteq (queue[s] \cup {x}) \ left
      <4> HIDE DEF order
      <4> QED
        BY <2>5, SessionOfType DEF Expired, Out, Queued
    <3> QED
      BY <3>1, <3>2
  <2>3. \A t \in Session : \A b \in tasks'[t] : b \in tasks[t] \/ b = {}
    BY <1>0, <2>1, SessionOfType DEF Kick, TypeOK
  <2> HIDE DEF q, left
  <2>4. \A y \in Event : fut'[y] = IF y \in left /\ (y = x \/ fut[y] = "pending") THEN "dropped"
                                   ELSE IF y = x THEN "pending" ELSE fut[y]
    BY <1>0, <2>1 DEF Resolved, TypeOK
  <2>6. CASE e = x
    <3>1. \A t \in Session : \A b \in tasks'[t] : e \notin b
      BY <2>3, <2>5, <2>6 DEF Out, InFlight
    <3>2. e \notin left
      BY <2>2, <2>5, <2>6, <3>1 DEF Out, InFlight, Queued
    <3> QED
      BY <2>1, <2>4, <2>6, <3>2
  <2>7. CASE e # x
    <3>1. Out(e)
      BY <2>2, <2>3, <2>7 DEF Out, Queued, InFlight
    <3>2. e \in left => \E t \in Session : t = s /\ e \in queue[t]
      BY <2>7, SessionOfType DEF left, q, Expired, Victims
    <3>3. e \in left => FALSE
      <4> SUFFICES ASSUME e \in left PROVE FALSE
        OBVIOUS
      <4>1. e \in queue[s]
        BY <3>2
      <4>2. SessionOf(e) = s
        BY <4>1, SessionOfType DEF IInv, Homes
      <4>3. \A t \in Session : e \in queue[t] => t = s
        BY <4>2 DEF IInv, Homes
      <4>4. \A t \in Session : e \notin queue'[t]
        BY <2>2, <4>3
      <4>5. \A t \in Session : \A b \in tasks[t] : e \notin b
        BY <4>1, <4>2 DEF IInv, Homes
      <4> QED
        BY <2>3, <4>4, <4>5 DEF Out, Queued, InFlight
    <3> QED
      BY <2>4, <2>7, <3>1, <3>3
  <2> QED
    BY <2>6, <2>7
<1>2. ASSUME NEW s \in Session, NEW b \in tasks[s], NEW r, NextBatch(s, b, r)
      PROVE  Out(e) /\ fut'[e] = fut[e]
  <2> DEFINE expired == Expired(queue[s])
             rest    == queue[s] \ expired
             batch   == IF rest = {} THEN {} ELSE Batch(rest)
  <2>1. /\ fut' = Resolved(Resolved(fut, b, r), expired, "dropped")
        /\ \A t \in Session : queue'[t] = IF t = s THEN rest \ batch ELSE queue[t]
        /\ \A t \in Session : t # s => tasks'[t] = tasks[t]
        /\ \A c \in tasks'[s] : c = batch
    BY <1>0, <1>2 DEF NextBatch, TypeOK, IInv, OneDrainer, SingleFlight
  <2>2. expired \subseteq queue[s] /\ batch \subseteq rest
    BY BatchFromQueue DEF Expired
  <2>3. Out(e)
    BY <2>1, <2>2 DEF Out, Queued, InFlight
  <2>4. e \notin b
    BY <1>2, TurnOver
  <2>5. e \notin expired
    <3> SUFFICES ASSUME e \in expired PROVE FALSE
      OBVIOUS
    <3>1. e \in queue[s] /\ SessionOf(e) = s
      BY <2>2 DEF IInv, Homes
    <3>2. \A t \in Session : t # s => e \notin queue[t] /\ \A c \in tasks[t] : e \notin c
      BY <3>1 DEF IInv, Homes
    <3>3. e \notin batch /\ e \notin rest
      BY <2>2
    <3> QED
      BY <2>1, <3>2, <3>3 DEF Out, Queued, InFlight
  <2> QED
    BY <1>0, <2>1, <2>3, <2>4, <2>5 DEF Resolved, TypeOK
<1>3. ASSUME NEW s \in Session, StartDrain(s)
      PROVE  Out(e) /\ fut'[e] = fut[e]
  BY <1>2, <1>3 DEF StartDrain
<1>4. ASSUME NEW s \in Session, NEW b \in tasks[s], NEW o \in Outcome, SendEnds(s, b, o)
      PROVE  Out(e) /\ fut'[e] = fut[e]
  BY <1>2, <1>4 DEF SendEnds
<1>5. ASSUME NEW s \in Session, NEW b \in tasks[s], DrainerDies(s, b) \/ Cancelled(s, b)
      PROVE  Out(e) /\ fut'[e] = fut[e]
  <2>1. /\ fut' = Resolved(fut, b, "dropped")
        /\ queue' = queue
        /\ \A t \in Session : t # s => tasks'[t] = tasks[t]
        /\ \A c \in tasks'[s] : c \in tasks[s] \ {b} \/ c = {}
    BY <1>0, <1>5 DEF DrainerDies, Cancelled, TypeOK
  <2>2. Out(e)
    BY <2>1 DEF Out, Queued, InFlight
  <2>3. e \notin b
    BY <1>5, TurnOver
  <2> QED
    BY <1>0, <2>1, <2>2, <2>3 DEF Resolved, TypeOK
<1>6. ASSUME NEW x \in Event, GiveUp(x)
      PROVE  \/ Out(e) /\ fut'[e] = fut[e]
             \/ fut[e] = "pending" /\ fut'[e] = "cancelled"
  BY <1>0, <1>6 DEF GiveUp, Out, Queued, InFlight, TypeOK
<1>7. ASSUME NEW x \in Event, Forget(x)
      PROVE  Out(e) /\ fut'[e] = fut[e]
  BY <1>0, <1>7 DEF Forget, Out, Queued, InFlight, TypeOK
<1>8. ASSUME NEW x \in Event, Refuse(x)
      PROVE  Out(e) /\ fut'[e] = fut[e]
  BY <1>0, <1>8 DEF Refuse, Out, Queued, InFlight, TypeOK, Unanswered
<1>9. ASSUME NEW x \in Event, Age(x)
      PROVE  Out(e) /\ fut'[e] = fut[e]
  BY <1>9 DEF Age, Out, Queued, InFlight
<1>10. CASE StopBegin \/ Start \/ UNCHANGED vars
  BY <1>10 DEF StopBegin, Start, vars, Out, Queued, InFlight
<1>11. CASE StopEnd
  BY <1>0, <1>11 DEF StopEnd, Out, Queued, InFlight, TypeOK
<1> QED
  BY <1>1, <1>3, <1>4, <1>5, <1>6, <1>7, <1>8, <1>9, <1>10, <1>11 DEF Next

-----------------------------------------------------------------------------
(* A finite set that a transitive relation orders totally has a first      *)
(* element.                                                                *)
LEMMA FirstOfFinite ==
  ASSUME NEW S, IsFiniteSet(S), S # {}, NEW R,
         \A x, y \in S : x = y \/ <<x, y>> \in R \/ <<y, x>> \in R,
         \A x, y, z \in S : <<x, y>> \in R /\ <<y, z>> \in R => <<x, z>> \in R
  PROVE  \E x \in S : \A y \in S \ {x} : <<x, y>> \in R
<1> DEFINE HasFirst(T) == \E x \in T : \A y \in T \ {x} : <<x, y>> \in R
           bad == {T \in FiniteSubsetsOf(S) : T # {} /\ ~HasFirst(T)}
<1>1. SUFFICES bad = {}
  BY DEF FiniteSubsetsOf
<1>2. SUFFICES ASSUME bad # {} PROVE FALSE
  OBVIOUS
<1>3. PICK T \in bad : \A U \in bad : <<U, T>> \notin StrictSubsetOrdering(S)
  <2>1. bad \subseteq FiniteSubsetsOf(S)
    OBVIOUS
  <2> HIDE DEF bad
  <2> QED
    BY <1>2, <2>1, FS_StrictSubsetOrderingWellFounded, WFMin
<1>4. T \subseteq S /\ IsFiniteSet(T) /\ T # {} /\ ~HasFirst(T)
  BY DEF FiniteSubsetsOf
<1>5. PICK t \in T : TRUE
  BY <1>4
<1>6. T \ {t} \in FiniteSubsetsOf(S)
  BY <1>4, FS_RemoveElement DEF FiniteSubsetsOf
<1>7. T \ {t} \notin bad
  <2>1. T \ {t} \subseteq T /\ T \ {t} # T /\ T \ {t} \in SUBSET S /\ T \in SUBSET S
    BY <1>4, <1>5
  <2>2. <<T \ {t}, T>> \in StrictSubsetOrdering(S)
    BY <2>1 DEF StrictSubsetOrdering
  <2> QED
    BY <1>3, <2>2
<1>8. T \ {t} # {}
  BY <1>4, <1>5
<1>9. PICK x \in T \ {t} : \A y \in (T \ {t}) \ {x} : <<x, y>> \in R
  BY <1>6, <1>7, <1>8
<1>10. CASE <<x, t>> \in R
  BY <1>4, <1>9, <1>10
<1>11. CASE <<t, x>> \in R
  <2>1. \A y \in T \ {t} : <<t, y>> \in R
    BY <1>4, <1>5, <1>9, <1>11
  <2> QED
    BY <1>4, <1>5, <2>1
<1> QED
  BY <1>4, <1>5, <1>9, <1>10, <1>11

-----------------------------------------------------------------------------
(* The queue.  R orders S strictly and totally.                            *)
Orders(R, S) ==
    /\ R \subseteq S \X S
    /\ \A x, y \in S : <<x, y>> \in R => <<y, x>> \notin R
    /\ \A x, y, z \in S : <<x, y>> \in R /\ <<y, z>> \in R => <<x, z>> \in R
    /\ \A x, y \in S : x = y \/ <<x, y>> \in R \/ <<y, x>> \in R

Backlog == {e \in Event : Queued(e)}

(* What waits is ordered by its arrival, only what waits goes stale, and   *)
(* every queue is within the cap: one victim always makes room.            *)
QueueInv ==
    /\ Orders(arrived, Backlog)
    /\ stale \subseteq Backlog
    /\ \A s \in Session : IsFiniteSet(queue[s]) /\ Cardinality(queue[s]) <= Cap

LEMMA OrdersRest ==
  ASSUME NEW R, NEW S, Orders(R, S), NEW gone
  PROVE  Orders({p \in R : p[1] \notin gone /\ p[2] \notin gone}, S \ gone)
  BY DEF Orders

LEMMA OrdersNew ==
  ASSUME NEW R, NEW S, Orders(R, S), NEW e, e \notin S
  PROVE  Orders(R \cup {<<x, e>> : x \in S}, S \cup {e})
<1> DEFINE N == R \cup {<<x, e>> : x \in S}
<1>1. \A x, y : <<x, y>> \in N <=> <<x, y>> \in R \/ (x \in S /\ y = e)
  OBVIOUS
<1>2. N \subseteq (S \cup {e}) \X (S \cup {e})
  BY DEF Orders
<1>3. \A x, y : <<x, y>> \in R => x \in S /\ y \in S
  BY DEF Orders
<1> HIDE DEF N
<1>4. \A x, y \in S \cup {e} : <<x, y>> \in N => <<y, x>> \notin N
  BY <1>1, <1>3 DEF Orders
<1>5. \A x, y, z \in S \cup {e} : <<x, y>> \in N /\ <<y, z>> \in N => <<x, z>> \in N
  BY <1>1, <1>3 DEF Orders
<1>6. \A x, y \in S \cup {e} : x = y \/ <<x, y>> \in N \/ <<y, x>> \in N
  BY <1>1 DEF Orders
<1>7. Orders(N, S \cup {e})
  BY <1>2, <1>4, <1>5, <1>6 DEF Orders
<1> QED
  BY <1>7 DEF N

LEMMA OrdersPart ==
  ASSUME NEW R, NEW S, Orders(R, S), NEW T \in SUBSET S
  PROVE  /\ \A x, y \in T : <<x, y>> \in R => <<y, x>> \notin R
         /\ \A x, y, z \in T : <<x, y>> \in R /\ <<y, z>> \in R => <<x, z>> \in R
         /\ \A x, y \in T : x = y \/ <<x, y>> \in R \/ <<y, x>> \in R
  BY DEF Orders

LEMMA Urgency == \A e \in Event : Priority(e) \in Nat /\ IntraOf[e] \in Nat
  BY EventAssumption DEF Priority

(* _enforce_cap on a queue that is at most one over the cap evicts one     *)
(* event, the one that goes before all others, exactly when it must.       *)
LEMMA OneVictim ==
  ASSUME NEW q \in SUBSET Event, IsFiniteSet(q), NEW order, NEW S, q \subseteq S,
         Orders(order, S), Cardinality(q) <= Cap + 1
  PROVE  \/ Victims(q, order) = {} /\ Cardinality(q) <= Cap
         \/ \E v \in q : /\ Victims(q, order) = {v}
                         /\ Cardinality(q \ {v}) = Cap
                         /\ \A w \in q \ {v} : EvictedBefore(v, w, order)
<1>0. Cap \in Nat /\ Cardinality(q) \in Nat
  BY CapAssumption, FS_CardinalityType
<1>a. /\ \A x, y \in q : <<x, y>> \in order => <<y, x>> \notin order
      /\ \A x, y, z \in q : <<x, y>> \in order /\ <<y, z>> \in order => <<x, z>> \in order
      /\ \A x, y \in q : x = y \/ <<x, y>> \in order \/ <<y, x>> \in order
  BY OrdersPart
<1>b. \A e \in q : Priority(e) \in Nat /\ IntraOf[e] \in Nat
  BY Urgency
<1>1. CASE Cardinality(q) <= Cap
  BY <1>0, <1>1 DEF Victims
<1>2. CASE Cardinality(q) = Cap + 1
  <2> DEFINE R == {p \in q \X q : EvictedBefore(p[1], p[2], order)}
  <2>0. \A x, y \in q : <<x, y>> \in R <=> EvictedBefore(x, y, order)
    OBVIOUS
  <2>1. \A x, y \in q : x = y \/ <<x, y>> \in R \/ <<y, x>> \in R
    <3> SUFFICES ASSUME NEW x \in q, NEW y \in q, x # y
                 PROVE  EvictedBefore(x, y, order) \/ EvictedBefore(y, x, order)
      BY <2>0
    <3>1. /\ Priority(x) \in Nat /\ Priority(y) \in Nat
          /\ IntraOf[x] \in Nat /\ IntraOf[y] \in Nat
      BY <1>b
    <3>2. <<x, y>> \in order \/ <<y, x>> \in order
      BY <1>a
    <3> QED
      BY <3>1, <3>2 DEF EvictedBefore
  <2>2. \A x, y, z \in q : <<x, y>> \in R /\ <<y, z>> \in R => <<x, z>> \in R
    <3> SUFFICES ASSUME NEW x \in q, NEW y \in q, NEW z \in q,
                        EvictedBefore(x, y, order), EvictedBefore(y, z, order)
                 PROVE  EvictedBefore(x, z, order)
      BY <2>0
    <3> HIDE DEF R
    <3> QED
      BY <1>a, <1>b DEF EvictedBefore
  <2>3. \A x, y \in q : <<x, y>> \in R => <<y, x>> \notin R
    <3> HIDE DEF R
    <3> QED
      BY <1>a, <1>b, <2>0 DEF EvictedBefore
  <2>4. q # {}
    BY <1>0, <1>2, FS_EmptySet
  <2>5. PICK v \in q : \A w \in q \ {v} : <<v, w>> \in R
    <3> HIDE DEF R
    <3> QED
      BY <2>1, <2>2, <2>4, FirstOfFinite
  <2>6. Victims(q, order) = {v}
    <3>1. v \in Victims(q, order)
      <4>1. Cardinality(q) > Cap
        BY <1>0, <1>2
      <4>2. \A w \in q \ {v} : EvictedBefore(v, w, order)
        BY <2>0, <2>5
      <4> QED
        BY <4>1, <4>2 DEF Victims
    <3>2. \A w \in Victims(q, order) : w = v
      BY <2>0, <2>3, <2>5 DEF Victims
    <3> QED
      BY <3>1, <3>2
  <2>7. Cardinality(q \ {v}) = Cap
    BY <1>0, <1>2, FS_RemoveElement
  <2> QED
    BY <2>0, <2>5, <2>6, <2>7
<1> QED
  BY <1>0, <1>1, <1>2

(* min() over a queue: the lead is in it and nothing is more urgent.       *)
LEMMA LeadFirst ==
  ASSUME NEW q \in SUBSET Event, IsFiniteSet(q), q # {}, NEW S, q \subseteq S,
         Orders(arrived, S)
  PROVE  /\ Lead(q) \in q
         /\ \A y \in q : Priority(Lead(q)) <= Priority(y)
<1> DEFINE Before(x, y) == \/ Priority(x) < Priority(y)
                           \/ Priority(x) = Priority(y) /\ <<x, y>> \in arrived
           R == {p \in q \X q : Before(p[1], p[2])}
<1>0. \A x, y \in q : <<x, y>> \in R <=> Before(x, y)
  OBVIOUS
<1>a. /\ \A x, y \in q : <<x, y>> \in arrived => <<y, x>> \notin arrived
      /\ \A x, y, z \in q : <<x, y>> \in arrived /\ <<y, z>> \in arrived => <<x, z>> \in arrived
      /\ \A x, y \in q : x = y \/ <<x, y>> \in arrived \/ <<y, x>> \in arrived
  BY OrdersPart
<1>b. \A e \in q : Priority(e) \in Nat
  BY Urgency
<1>1. \A x, y \in q : x = y \/ <<x, y>> \in R \/ <<y, x>> \in R
  <2> SUFFICES ASSUME NEW x \in q, NEW y \in q
               PROVE  x = y \/ <<x, y>> \in R \/ <<y, x>> \in R
    OBVIOUS
  <2>1. Priority(x) \in Nat /\ Priority(y) \in Nat
    BY <1>b
  <2>2. x = y \/ <<x, y>> \in arrived \/ <<y, x>> \in arrived
    BY <1>a
  <2>3. x = y \/ Before(x, y) \/ Before(y, x)
    BY <2>1, <2>2
  <2> QED
    BY <1>0, <2>3
<1>2. \A x, y, z \in q : <<x, y>> \in R /\ <<y, z>> \in R => <<x, z>> \in R
  <2> SUFFICES ASSUME NEW x \in q, NEW y \in q, NEW z \in q, Before(x, y), Before(y, z)
               PROVE  Before(x, z)
    BY <1>0
  <2> HIDE DEF R
  <2> QED
    BY <1>a, <1>b
<1>3. \E x \in q : \A y \in q \ {x} : Before(x, y)
  <2>1. \E x \in q : \A y \in q \ {x} : <<x, y>> \in R
    <3> HIDE DEF R
    <3> QED
      BY <1>1, <1>2, FirstOfFinite
  <2> QED
    BY <1>0, <2>1
<1>4. Lead(q) = CHOOSE x \in q : \A y \in q \ {x} : Before(x, y)
  BY DEF Lead
<1>5. Lead(q) \in q /\ \A y \in q \ {Lead(q)} : Before(Lead(q), y)
  <2> HIDE DEF Before
  <2> QED
    BY <1>3, <1>4
<1>6. ASSUME NEW x \in q, NEW y \in q, Before(x, y) PROVE Priority(x) <= Priority(y)
  BY <1>6, <1>b
<1> HIDE DEF Before
<1>7. ASSUME NEW x \in q, \A y \in q \ {x} : Before(x, y), NEW y \in q
      PROVE  Priority(x) <= Priority(y)
  BY <1>6, <1>7, <1>b
<1> QED
  BY <1>5, <1>7

(* dispatch(): what joins the queue and what leaves it.                    *)
LEMMA DispatchEffect ==
  ASSUME IInv, QueueInv, NEW e \in Event, Dispatch(e)
  PROVE  \E order, q, gone :
            LET s == SessionOf(e)
            IN  /\ Orders(order, Backlog \cup {e}) /\ e \notin Backlog
                /\ q = (queue[s] \ stale) \cup {e}
                /\ gone = (queue[s] \cap stale) \cup Victims(q, order)
                /\ IsFiniteSet(q) /\ Cardinality(q) <= Cap + 1 /\ q \subseteq Event
                /\ queue' = [queue EXCEPT ![s] = q \ Victims(q, order)]
                /\ arrived' = {p \in order : p[1] \notin gone /\ p[2] \notin gone}
                /\ stale' = stale \ queue[s]
                /\ Backlog' = (Backlog \cup {e}) \ gone
                /\ fut' = Resolved([fut EXCEPT ![e] = "pending"], gone, "dropped")
<1> DEFINE s       == SessionOf(e)
           order   == arrived \cup {<<x, e>> : x \in Backlog}
           q       == (queue[s] \ stale) \cup {e}
           gone    == (queue[s] \cap stale) \cup Victims(q, order)
<1>0. TypeOK /\ s \in Session
  BY SessionOfType DEF IInv
<1>1. fut[e] = "none"
  BY DEF Dispatch
<1>2. e \notin Backlog
  BY <1>1 DEF IInv, Homes, Backlog, Queued
<1>3. Orders(order, Backlog \cup {e})
  BY <1>2, OrdersNew DEF QueueInv
<1>4. queue[s] \ Expired(queue[s]) = queue[s] \ stale /\ Expired(queue[s]) = queue[s] \cap stale
  BY DEF Expired
<1>5. /\ queue' = [queue EXCEPT ![s] = q \ Victims(q, order)]
      /\ arrived' = order \ {p \in order : p[1] \in gone \/ p[2] \in gone}
      /\ stale' = stale \ (queue[s] \cap stale)
      /\ fut' = Resolved([fut EXCEPT ![e] = "pending"], gone, "dropped")
  BY <1>4 DEF Dispatch, Backlog
<1>6. IsFiniteSet(q) /\ Cardinality(q) <= Cap + 1 /\ q \subseteq Event
  <2>1. IsFiniteSet(queue[s]) /\ Cardinality(queue[s]) <= Cap /\ Cardinality(queue[s]) \in Nat
    BY <1>0, FS_CardinalityType DEF QueueInv
  <2>2. IsFiniteSet(queue[s] \ stale) /\ Cardinality(queue[s] \ stale) <= Cardinality(queue[s])
    BY <2>1, FS_Subset
  <2>3. Cardinality(queue[s] \ stale) \in Nat
    BY <2>2, FS_CardinalityType
  <2>4. IsFiniteSet(q) /\ Cardinality(q) <= Cardinality(queue[s] \ stale) + 1
    <3>1. IsFiniteSet((queue[s] \ stale) \cup {e})
      BY <2>2, FS_AddElement
    <3>2. Cardinality((queue[s] \ stale) \cup {e}) =
             IF e \in queue[s] \ stale THEN Cardinality(queue[s] \ stale)
                                      ELSE Cardinality(queue[s] \ stale) + 1
      BY <2>2, FS_AddElement
    <3> QED
      BY <2>3, <3>1, <3>2
  <2>5. Cardinality(q) \in Nat
    BY <2>4, FS_CardinalityType
  <2> QED
    BY <1>0, <2>1, <2>2, <2>3, <2>4, <2>5, CapAssumption DEF TypeOK
<1>7. Backlog' = (Backlog \cup {e}) \ gone
  <2>0. \A x \in queue[s] : \A t \in Session : x \in queue[t] => t = s
    BY <1>0 DEF IInv, Homes
  <2>1. \A t \in Session : queue'[t] = IF t = s THEN q \ Victims(q, order) ELSE queue[t]
    BY <1>0, <1>5 DEF TypeOK
  <2>2. Victims(q, order) \subseteq q
    BY DEF Victims
  <2>3. \A x \in q : x # e => x \in queue[s]
    OBVIOUS
  <2> HIDE DEF order
  <2>4. ASSUME NEW x \in Event, x \in Backlog' PROVE x \in (Backlog \cup {e}) \ gone
    <3>1. PICK t \in Session : x \in queue'[t]
      BY <2>4 DEF Backlog, Queued
    <3>2. CASE t = s
      BY <1>0, <1>2, <2>1, <3>1, <3>2 DEF Backlog, Queued
    <3>3. CASE t # s
      <4>1. x \in queue[t] /\ x \notin queue[s]
        BY <2>0, <2>1, <3>1, <3>3
      <4>2. x # e
        BY <1>2, <4>1 DEF Backlog, Queued
      <4> QED
        BY <2>2, <4>1, <4>2 DEF Backlog, Queued
    <3> QED
      BY <3>2, <3>3
  <2>5. ASSUME NEW x \in Event, x \in (Backlog \cup {e}) \ gone PROVE x \in Backlog'
    <3>1. CASE x = e
      BY <1>0, <2>1, <2>5, <3>1 DEF Backlog, Queued
    <3>2. CASE x # e
      <4>1. PICK t \in Session : x \in queue[t]
        BY <2>5, <3>2 DEF Backlog, Queued
      <4>2. x \in queue'[t]
        BY <2>1, <2>5, <4>1
      <4> QED
        BY <4>2 DEF Backlog, Queued
    <3> QED
      BY <3>1, <3>2
  <2>6. Backlog \subseteq Event /\ Backlog' \subseteq Event
    BY DEF Backlog
  <2> QED
    BY <2>4, <2>5, <2>6
<1> HIDE DEF order, gone, q
<1>8. arrived' = {p \in order : p[1] \notin gone /\ p[2] \notin gone} /\ stale' = stale \ queue[s]
  BY <1>5
<1>9. \E o, qq, g : o = order /\ qq = q /\ g = gone
  OBVIOUS
<1> QED
  BY <1>2, <1>3, <1>5, <1>6, <1>7, <1>8, <1>9 DEF q, gone

(* A turn of the drainer's loop: what it takes and what it leaves.         *)
LEMMA NextBatchEffect ==
  ASSUME IInv, QueueInv, NEW s \in Session, NEW b, NEW r \in Final, NextBatch(s, b, r)
  PROVE  \E batch, gone :
            /\ gone = (queue[s] \cap stale) \cup batch
            /\ batch = IF queue[s] \ stale = {} THEN {} ELSE Batch(queue[s] \ stale)
            /\ batch \subseteq queue[s] \ stale
            /\ queue' = [queue EXCEPT ![s] = queue[s] \ gone]
            /\ arrived' = {p \in arrived : p[1] \notin gone /\ p[2] \notin gone}
            /\ stale' = stale \ queue[s]
            /\ Backlog' = Backlog \ gone
            /\ fut' = Resolved(Resolved(fut, b, r), queue[s] \cap stale, "dropped")
            /\ tasks'[s] \subseteq tasks[s] \cup {batch}
            /\ \A t \in Session : t # s => tasks'[t] = tasks[t]
<1> DEFINE rest  == queue[s] \ stale
           batch == IF rest = {} THEN {} ELSE Batch(rest)
           gone  == (queue[s] \cap stale) \cup batch
<1>0. TypeOK
  BY DEF IInv
<1>1. queue[s] \ Expired(queue[s]) = rest /\ Expired(queue[s]) = queue[s] \cap stale
  BY DEF Expired
<1>2. batch \subseteq rest
  BY BatchFromQueue
<1>3. /\ queue' = [queue EXCEPT ![s] = rest \ batch]
      /\ arrived' = {p \in arrived : p[1] \notin gone /\ p[2] \notin gone}
      /\ stale' = stale \ (queue[s] \cap stale)
      /\ fut' = Resolved(Resolved(fut, b, r), queue[s] \cap stale, "dropped")
      /\ tasks' = [tasks EXCEPT ![s] = (@ \ {b}) \cup (IF rest = {} THEN {} ELSE {batch})]
  BY <1>1 DEF NextBatch
<1> HIDE DEF batch
<1>4. rest \ batch = queue[s] \ gone /\ stale' = stale \ queue[s]
  BY <1>3
<1>5. tasks'[s] \subseteq tasks[s] \cup {batch} /\ \A t \in Session : t # s => tasks'[t] = tasks[t]
  BY <1>0, <1>3 DEF TypeOK
<1>6. Backlog' = Backlog \ gone
  <2>1. \A x \in queue[s] : \A t \in Session : x \in queue[t] => t = s
    BY DEF IInv, Homes
  <2>2. \A t \in Session : queue'[t] = IF t = s THEN queue[s] \ gone ELSE queue[t]
    BY <1>0, <1>3, <1>4 DEF TypeOK
  <2>3. gone \subseteq queue[s]
    BY <1>2
  <2> HIDE DEF gone
  <2>4. \A t \in Session : queue'[t] = queue[t] \ gone
    BY <2>1, <2>2, <2>3
  <2> QED
    BY <2>4 DEF Backlog, Queued
<1> HIDE DEF gone
<1>7. \E bb, g : bb = batch /\ g = gone
  OBVIOUS
<1> QED
  BY <1>2, <1>3, <1>4, <1>5, <1>6, <1>7 DEF gone, batch

-----------------------------------------------------------------------------
LEMMA QueueInit == Init => QueueInv
<1> SUFFICES ASSUME Init PROVE QueueInv
  OBVIOUS
<1>1. Backlog = {} /\ arrived = {} /\ stale = {} /\ \A s \in Session : queue[s] = {}
  BY DEF Init, Backlog, Queued
<1>2. IsFiniteSet({}) /\ Cardinality({}) = 0
  BY FS_EmptySet
<1> QED
  BY <1>1, <1>2, CapAssumption DEF QueueInv, Orders

LEMMA QueueStep ==
  ASSUME IInv, QueueInv, [Next]_vars
  PROVE  QueueInv'
<1>0. TypeOK
  BY DEF IInv
<1>1. ASSUME NEW e \in Event, Dispatch(e) PROVE QueueInv'
  <2> DEFINE s == SessionOf(e)
  <2>0. s \in Session
    BY SessionOfType
  <2>1. PICK order, q, gone :
          /\ Orders(order, Backlog \cup {e}) /\ e \notin Backlog
          /\ q = (queue[s] \ stale) \cup {e}
          /\ gone = (queue[s] \cap stale) \cup Victims(q, order)
          /\ IsFiniteSet(q) /\ Cardinality(q) <= Cap + 1 /\ q \subseteq Event
          /\ queue' = [queue EXCEPT ![s] = q \ Victims(q, order)]
          /\ arrived' = {p \in order : p[1] \notin gone /\ p[2] \notin gone}
          /\ stale' = stale \ queue[s]
          /\ Backlog' = (Backlog \cup {e}) \ gone
    BY <1>1, DispatchEffect
  <2> HIDE DEF s
  <2>2. Orders(arrived', Backlog')
    <3> DEFINE S == Backlog \cup {e}
               R == {p \in order : p[1] \notin gone /\ p[2] \notin gone}
    <3>1. Orders(order, S) /\ Backlog' = S \ gone /\ arrived' = R
      BY <2>1
    <3> HIDE DEF S
    <3>2. Orders(R, S \ gone)
      BY <3>1, OrdersRest
    <3> QED
      BY <3>1, <3>2
  <2>3. q \subseteq Backlog \cup {e}
    BY <1>0, <2>0, <2>1 DEF Backlog, Queued, TypeOK
  <2>4. \/ Victims(q, order) = {} /\ Cardinality(q) <= Cap
        \/ \E v \in q : Victims(q, order) = {v} /\ Cardinality(q \ {v}) = Cap
    <3> HIDE DEF QueueInv
    <3> QED
      BY <2>1, <2>3, OneVictim
  <2>5. IsFiniteSet(q \ Victims(q, order)) /\ Cardinality(q \ Victims(q, order)) <= Cap
    <3>1. CASE Victims(q, order) = {}
      <4>1. q \ Victims(q, order) = q
        BY <3>1
      <4>2. Cardinality(q) <= Cap
        BY <2>4, <3>1
      <4> QED
        BY <2>1, <4>1, <4>2
    <3>2. CASE \E v \in q : Victims(q, order) = {v} /\ Cardinality(q \ {v}) = Cap
      <4>1. PICK v \in q : Victims(q, order) = {v} /\ Cardinality(q \ {v}) = Cap
        BY <3>2
      <4>2. IsFiniteSet(q \ {v})
        BY <2>1, FS_RemoveElement
      <4> QED
        BY <4>1, <4>2, CapAssumption
    <3> QED
      BY <2>4, <3>1, <3>2
  <2>6. \A t \in Session : IsFiniteSet(queue'[t]) /\ Cardinality(queue'[t]) <= Cap
    BY <1>0, <2>0, <2>1, <2>5 DEF TypeOK, QueueInv
  <2>7. stale' \subseteq Backlog'
    <3>1. Victims(q, order) \subseteq q
      BY DEF Victims
    <3>2. \A x \in stale' : x \in Backlog /\ x \notin queue[s] /\ x # e
      BY <2>1 DEF QueueInv
    <3> QED
      BY <2>1, <3>1, <3>2
  <2> QED
    BY <2>2, <2>6, <2>7 DEF QueueInv
<1>2. ASSUME NEW s \in Session, NEW b, NEW r \in Final, NextBatch(s, b, r) PROVE QueueInv'
  <2>1. PICK batch, gone :
          /\ gone = (queue[s] \cap stale) \cup batch
          /\ batch \subseteq queue[s] \ stale
          /\ queue' = [queue EXCEPT ![s] = queue[s] \ gone]
          /\ arrived' = {p \in arrived : p[1] \notin gone /\ p[2] \notin gone}
          /\ stale' = stale \ queue[s]
          /\ Backlog' = Backlog \ gone
    BY <1>2, NextBatchEffect
  <2>2. Orders(arrived', Backlog')
    <3>1. Orders({p \in arrived : p[1] \notin gone /\ p[2] \notin gone}, Backlog \ gone)
      BY OrdersRest DEF QueueInv
    <3> QED
      BY <2>1, <3>1
  <2>3. stale' \subseteq Backlog'
    BY <2>1 DEF QueueInv
  <2>4. \A t \in Session : queue'[t] = IF t = s THEN queue[s] \ gone ELSE queue[t]
    BY <1>0, <2>1 DEF TypeOK
  <2>5. IsFiniteSet(queue[s] \ gone) /\ Cardinality(queue[s] \ gone) <= Cap
    <3>1. IsFiniteSet(queue[s]) /\ Cardinality(queue[s]) <= Cap
      BY DEF QueueInv
    <3>2. IsFiniteSet(queue[s] \ gone) /\ Cardinality(queue[s] \ gone) <= Cardinality(queue[s])
      BY <3>1, FS_Subset
    <3> QED
      BY <3>1, <3>2, FS_CardinalityType, CapAssumption
  <2> QED
    BY <2>2, <2>3, <2>4, <2>5 DEF QueueInv
<1>3. ASSUME UNCHANGED <<queue, arrived>>, stale' \subseteq Backlog PROVE QueueInv'
  <2>1. Backlog' = Backlog
    BY <1>3 DEF Backlog, Queued
  <2> QED
    BY <1>3, <2>1 DEF QueueInv
<1>4. ASSUME NEW e \in Event, Refuse(e) \/ Age(e) \/ GiveUp(e) \/ Forget(e) PROVE QueueInv'
  <2>1. UNCHANGED <<queue, arrived>> /\ stale' \subseteq stale \cup {x \in {e} : Queued(x)}
    BY <1>4 DEF Refuse, Age, GiveUp, Forget
  <2>2. stale' \subseteq Backlog
    BY <2>1 DEF QueueInv, Backlog
  <2> QED
    BY <1>3, <2>1, <2>2
<1>5. ASSUME NEW s \in Session, StartDrain(s) PROVE QueueInv'
  BY <1>2, <1>5 DEF StartDrain, Final
<1>6. ASSUME NEW s \in Session, NEW b, NEW o, SendEnds(s, b, o) PROVE QueueInv'
  BY <1>2, <1>6 DEF SendEnds, Final
<1>7. ASSUME NEW s \in Session, NEW b, DrainerDies(s, b) \/ Cancelled(s, b) PROVE QueueInv'
  BY <1>3, <1>7 DEF DrainerDies, Cancelled, QueueInv
<1>8. ASSUME StopBegin \/ Start \/ UNCHANGED vars PROVE QueueInv'
  BY <1>3, <1>8 DEF StopBegin, Start, vars, QueueInv
<1>9. CASE StopEnd
  <2>1. Backlog' = {} /\ arrived' = {} /\ stale' = {} /\ \A s \in Session : queue'[s] = {}
    BY <1>9 DEF StopEnd, Backlog, Queued
  <2> QED
    BY <2>1, FS_EmptySet, CapAssumption DEF QueueInv, Orders
<1> QED
  BY <1>1, <1>4, <1>5, <1>6, <1>7, <1>8, <1>9 DEF Next

(* Every queue stays within the cap and is ordered by arrival, whatever is *)
(* dispatched, expires or is sent.                                         *)
THEOREM QueuesInOrder == Spec => []QueueInv
<1>1. IInv /\ QueueInv /\ [Next]_vars => QueueInv'
  BY QueueStep
<1> QED
  BY <1>1, QueueInit, Invariance, PTL DEF Spec

-----------------------------------------------------------------------------
LEMMA EvictionStep ==
  ASSUME IInv, Unanswered, QueueInv, Next, NEW e \in Event, Evicted(e)
  PROVE  NoRoom(e)
<1>0. TypeOK /\ SessionOf(e) \in Session
  BY SessionOfType DEF IInv
<1>1. ~closed /\ fut'[e] = "dropped" /\ fut[e] # "dropped"
  BY <1>0 DEF Evicted, Unanswered, Out, Queued
<1>2. ASSUME NEW x \in Event, Dispatch(x) PROVE NoRoom(e)
  <2> DEFINE s == SessionOf(x)
  <2>0. s \in Session
    BY SessionOfType
  <2>1. PICK order, q, gone :
          /\ Orders(order, Backlog \cup {x}) /\ x \notin Backlog
          /\ q = (queue[s] \ stale) \cup {x}
          /\ gone = (queue[s] \cap stale) \cup Victims(q, order)
          /\ IsFiniteSet(q) /\ Cardinality(q) <= Cap + 1 /\ q \subseteq Event
          /\ queue' = [queue EXCEPT ![s] = q \ Victims(q, order)]
          /\ fut' = Resolved([fut EXCEPT ![x] = "pending"], gone, "dropped")
    BY <1>2, DispatchEffect
  <2>2. e \in gone
    <3> DEFINE f == [fut EXCEPT ![x] = "pending"]
    <3>1. f[e] # "dropped"
      BY <1>0, <1>1 DEF TypeOK
    <3> HIDE DEF f
    <3> QED
      BY <1>1, <2>1, <3>1 DEF Resolved
  <2>3. e \in Victims(q, order)
    <3>1. e \notin queue[s] \cap stale
      <4> SUFFICES ASSUME e \in queue[s], e \in stale PROVE FALSE
        OBVIOUS
      <4>1. fut[e] # "none"
        BY <2>0 DEF IInv, Homes
      <4> QED
        BY <4>1 DEF Evicted
    <3> QED
      BY <2>1, <2>2, <3>1
  <2>4. s = SessionOf(e) /\ e \in q
    <3>1. e \in q
      BY <2>3 DEF Victims
    <3>2. e = x \/ e \in queue[s]
      BY <2>1, <3>1
    <3> QED
      BY <2>0, <3>1, <3>2 DEF IInv, Homes
  <2>5. q \subseteq Backlog \cup {x}
    BY <1>0, <2>0, <2>1 DEF Backlog, Queued, TypeOK
  <2>6. PICK v \in q : /\ Victims(q, order) = {v}
                       /\ Cardinality(q \ {v}) = Cap
                       /\ \A w \in q \ {v} : EvictedBefore(v, w, order)
    <3> HIDE DEF QueueInv
    <3> QED
      BY <2>1, <2>3, <2>5, OneVictim
  <2>7. v = e
    BY <2>3, <2>6
  <2>8. queue'[s] = q \ {e}
    BY <1>0, <2>0, <2>1, <2>6, <2>7 DEF TypeOK
  <2>9. (q \ {e}) \cap stale = {}
    BY <2>1 DEF QueueInv
  <2>10. \A w \in q \ {e} : \/ Priority(w) < Priority(e)
                            \/ /\ Priority(w) = Priority(e)
                               /\ IntraOf[w] <= IntraOf[e]
    <3> SUFFICES ASSUME NEW w \in q \ {e}
                 PROVE  \/ Priority(w) < Priority(e)
                        \/ Priority(w) = Priority(e) /\ IntraOf[w] <= IntraOf[e]
      OBVIOUS
    <3>1. /\ Priority(w) \in Nat /\ Priority(e) \in Nat
          /\ IntraOf[w] \in Nat /\ IntraOf[e] \in Nat
      BY <2>1, Urgency
    <3>2. EvictedBefore(e, w, order)
      BY <2>6, <2>7
    <3> QED
      BY <3>1, <3>2 DEF EvictedBefore
  <2> QED
    BY <2>4, <2>6, <2>7, <2>8, <2>9, <2>10 DEF NoRoom
<1>3. ASSUME NEW s \in Session, NEW b, NEW r \in Final, NextBatch(s, b, r),
             \A x \in b : x \in Event /\ x \notin queue[SessionOf(x)] /\ fut[x] # "none"
      PROVE  FALSE
  <2>1. fut' = Resolved(Resolved(fut, b, r), queue[s] \cap stale, "dropped")
    BY <1>3 DEF NextBatch, Expired
  <2>2. e \notin b
    BY <1>3 DEF Evicted
  <2>3. e \notin queue[s] \cap stale
    <3> SUFFICES ASSUME e \in queue[s], e \in stale PROVE FALSE
      OBVIOUS
    <3>1. fut[e] # "none" /\ SessionOf(e) = s
      BY DEF IInv, Homes
    <3> QED
      BY <3>1 DEF Evicted
  <2>4. fut'[e] = fut[e]
    BY <2>1, <2>2, <2>3 DEF Resolved
  <2> QED
    BY <1>1, <2>4
<1>4. \A s \in Session : \A b \in tasks[s] : \A x \in b :
         x \in Event /\ x \notin queue[SessionOf(x)] /\ fut[x] # "none"
  BY <1>0 DEF IInv, Homes, TypeOK
<1>5. ASSUME NEW s \in Session, StartDrain(s) PROVE FALSE
  BY <1>3, <1>5 DEF StartDrain, Final
<1>6. ASSUME NEW s \in Session, NEW b \in tasks[s], NEW o, SendEnds(s, b, o) PROVE FALSE
  BY <1>3, <1>4, <1>6 DEF SendEnds, Final
<1>7. ASSUME NEW s \in Session, NEW b \in tasks[s], DrainerDies(s, b) \/ Cancelled(s, b) PROVE FALSE
  <2>1. fut' = Resolved(fut, b, "dropped")
    BY <1>7 DEF DrainerDies, Cancelled
  <2>2. e \in b
    BY <1>1, <2>1 DEF Resolved
  <2> QED
    BY <1>4, <2>2 DEF Evicted
<1>8. ASSUME NEW x \in Event, Refuse(x) \/ Age(x) \/ GiveUp(x) \/ Forget(x) PROVE FALSE
  BY <1>0, <1>1, <1>8 DEF Refuse, Age, GiveUp, Forget, TypeOK
<1>9. ASSUME StopBegin \/ StopEnd \/ Start PROVE FALSE
  BY <1>1, <1>9 DEF StopBegin, StopEnd, Start, IInv, Phases
<1> QED
  BY <1>2, <1>5, <1>6, <1>7, <1>8, <1>9 DEF Next

LEMMA UnansweredInit == Init => Unanswered
  BY DEF Init, Unanswered, Out, Queued, InFlight

LEMMA UnansweredNext ==
  ASSUME IInv, Unanswered, [Next]_vars
  PROVE  Unanswered'
  BY StillOut DEF Unanswered

(* A message within its TTL is dropped from an open dispatcher only for    *)
(* want of room, and nothing that is kept is less urgent or expired.       *)
THEOREM DropsLastResort == Spec => EvictsLastResort
<1>1. IInv /\ Unanswered /\ QueueInv /\ [Next]_vars => [\A e \in Event : Evicted(e) => NoRoom(e)]_vars
  BY EvictionStep
<1>2. IInv /\ Unanswered /\ [Next]_vars => Unanswered'
  BY UnansweredNext
<1>3. [][\A e \in Event : Evicted(e) => NoRoom(e)]_vars <=> EvictsLastResort
  BY DEF EvictsLastResort
<1> QED
  BY <1>1, <1>2, <1>3, UnansweredInit, QueuesInOrder, Invariance, PTL DEF Spec

-----------------------------------------------------------------------------
(* What a drainer takes: everything of the most urgent type that is        *)
(* waiting, and nothing expired.                                           *)
Takes(s, b) ==
    /\ b \cap stale = {}
    /\ queue'[s] \cap stale = {}
    /\ \A e \in b : \A x \in queue'[s] :
          /\ TypeOf[x] # TypeOf[e]
          /\ Priority(e) <= Priority(x)

LEMMA SameTypeSamePriority ==
  ASSUME NEW x, NEW y, TypeOf[x] = TypeOf[y]
  PROVE  Priority(x) = Priority(y)
  BY DEF Priority

LEMMA TakeStep ==
  ASSUME IInv, QueueInv, Next, NEW s \in Session, NEW b \in tasks'[s] \ tasks[s], b # {}
  PROVE  Takes(s, b)
<1>0. TypeOK
  BY DEF IInv
<1>1. ASSUME NEW t \in Session, NEW c, NEW r \in Final, NextBatch(t, c, r) PROVE Takes(s, b)
  <2> DEFINE rest == queue[s] \ stale
  <2>1. PICK batch, gone :
          /\ gone = (queue[t] \cap stale) \cup batch
          /\ batch = IF queue[t] \ stale = {} THEN {} ELSE Batch(queue[t] \ stale)
          /\ batch \subseteq queue[t] \ stale
          /\ queue' = [queue EXCEPT ![t] = queue[t] \ gone]
          /\ tasks'[t] \subseteq tasks[t] \cup {batch}
          /\ \A u \in Session : u # t => tasks'[u] = tasks[u]
    BY <1>1, NextBatchEffect
  <2>2. t = s /\ b = batch
    BY <2>1
  <2>3. rest # {} /\ b = Batch(rest) /\ b \subseteq rest /\ queue'[s] = rest \ b
    BY <1>0, <2>1, <2>2 DEF TypeOK
  <2>4. /\ rest \in SUBSET Event /\ IsFiniteSet(rest)
        /\ rest \subseteq Backlog
    BY <1>0, FS_Subset DEF TypeOK, QueueInv, Backlog, Queued
  <2>5. Lead(rest) \in rest /\ \A y \in rest : Priority(Lead(rest)) <= Priority(y)
    <3> HIDE DEF rest
    <3> QED
      BY <2>3, <2>4, LeadFirst DEF QueueInv
  <2>6. ASSUME NEW e \in b, NEW x \in queue'[s]
        PROVE  TypeOf[x] # TypeOf[e] /\ Priority(e) <= Priority(x)
    <3>1. e \in rest /\ TypeOf[e] = TypeOf[Lead(rest)] /\ x \in rest /\ x \notin b
      BY <2>3, <2>6 DEF Batch
    <3>2. TypeOf[x] # TypeOf[Lead(rest)]
      BY <2>3, <3>1 DEF Batch
    <3>3. Priority(e) = Priority(Lead(rest))
      BY <3>1, SameTypeSamePriority
    <3> QED
      BY <2>5, <3>1, <3>2, <3>3
  <2> QED
    BY <2>3, <2>6 DEF Takes
<1>2. ASSUME NEW t \in Session, StartDrain(t) PROVE Takes(s, b)
  BY <1>1, <1>2 DEF StartDrain, Final
<1>3. ASSUME NEW t \in Session, NEW c, NEW o, SendEnds(t, c, o) PROVE Takes(s, b)
  BY <1>1, <1>3 DEF SendEnds, Final
<1>4. ASSUME NEW t \in Session, NEW c, DrainerDies(t, c) \/ Cancelled(t, c) PROVE FALSE
  BY <1>0, <1>4 DEF DrainerDies, Cancelled, TypeOK
<1>5. ASSUME NEW e \in Event, Dispatch(e) PROVE FALSE
  <2>1. Kick(SessionOf(e)) /\ SessionOf(e) \in Session
    BY <1>5, SessionOfType DEF Dispatch
  <2> QED
    BY <1>0, <2>1 DEF Kick, TypeOK
<1>6. ASSUME NEW e \in Event, Refuse(e) \/ Age(e) \/ GiveUp(e) \/ Forget(e) PROVE FALSE
  BY <1>6 DEF Refuse, Age, GiveUp, Forget
<1>7. ASSUME StopBegin \/ StopEnd \/ Start PROVE FALSE
  BY <1>7 DEF StopBegin, StopEnd, Start
<1> QED
  BY <1>2, <1>3, <1>4, <1>5, <1>6, <1>7 DEF Next

(* A drainer takes the most urgent type whole, and nothing that expired.   *)
THEOREM TakesMostUrgent == Spec => TakesUrgentFresh
<1>1. IInv /\ QueueInv /\ [Next]_vars
        => [\A s \in Session : \A b \in tasks'[s] \ tasks[s] : b # {} => Takes(s, b)]_vars
  BY TakeStep
<1>2. [][\A s \in Session : \A b \in tasks'[s] \ tasks[s] : b # {} => Takes(s, b)]_vars
        <=> TakesUrgentFresh
  BY DEF TakesUrgentFresh, Takes
<1> QED
  BY <1>1, <1>2, QueuesInOrder, Invariance, PTL DEF Spec

=============================================================================
