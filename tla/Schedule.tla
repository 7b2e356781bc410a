------------------------------ MODULE Schedule ------------------------------
(***************************************************************************)
(* A one-shot ("at") job of the schedule runner: its row in the database,  *)
(* the two in-memory jobs the scheduler may hold for it (the main one and  *)
(* its ":retry" shadow), the turns they have out, and the agent, which     *)
(* carries out an idempotency key once.                                    *)
(*                                                                         *)
(* Time runs in units of the retry delay.  A job may run late, a turn may  *)
(* take any time, its answer may be lost, the process may stop at any      *)
(* point and come back with or without the scheduler (the kill switch).    *)
(***************************************************************************)
EXTENDS Naturals, FiniteSets

CONSTANTS
    At,          \* at_ms of the job
    Delay,       \* _RETRY_DELAY_MS
    Windows,     \* the values max_delay_seconds may have
    NoLimit,     \* max_delay_seconds = 0: the job is never overdue
    NoTime,      \* "no such job in memory", "no turn submitted"
    Horizon,     \* bound on the clock
    MaxAttempt,  \* bound on retry_attempt
    MaxCrashes,  \* bound on the stops of the process
    MaxEdits     \* bound on the user's requests

ASSUME ScheduleAssumption ==
    /\ {At, Delay, Horizon, MaxAttempt, MaxCrashes, MaxEdits} \subseteq Nat
    /\ Delay > 0
    /\ NoLimit \notin Nat /\ NoTime \notin Nat
    /\ Windows \subseteq Nat \cup {NoLimit}

VARIABLES
    now,       \* the clock
    mode,      \* "running", "off" (kill switch: no scheduler) or "down"
    row,       \* the cron row: "enabled", "disabled" or "gone"
    window,    \* its max_delay
    attempt,   \* its retry_attempt
    next,      \* per job: the time it is due, NoTime when it is not in memory
    planned,   \* per job: the due time of the run submitted to the executor
    turn,      \* per job: "idle", "due" (submitted) or "out" (awaits the agent)
    key,       \* per job: the attempt in the idempotency key of its turn
    agent,     \* per key: "new", "running", "ok" or "error"
    refused,   \* history: the keys that have been answered "error"
    reenabled, \* history: the user enabled the job after its time had come
    crashes, edits

vars == <<now, mode, row, window, attempt, next, planned, turn, key, agent,
          refused, reenabled, crashes, edits>>

cron   == <<row, attempt>>
memory == <<next, planned, turn, key>>
bounds == <<crashes, edits>>

Job == {"main", "retry"}
Key == 0..MaxAttempt

Init ==
    /\ now = 0 /\ mode = "running"
    /\ row = "enabled" /\ window \in Windows /\ attempt = 0
    /\ next = [j \in Job |-> IF j = "main" THEN At ELSE NoTime]
    /\ planned = [j \in Job |-> NoTime]
    /\ turn = [j \in Job |-> "idle"]
    /\ key = [j \in Job |-> 0]
    /\ agent = [k \in Key |-> "new"]
    /\ refused = {} /\ reenabled = FALSE
    /\ crashes = 0 /\ edits = 0

Past(t, due) == window # NoLimit /\ t > due + window

-----------------------------------------------------------------------------
(* What the code does to the row and the jobs, shared by the handlers.     *)

(* The row is deleted and the :retry job with it; the main job, if it was  *)
(* added again meanwhile, stays and will find no row.                      *)
GiveUp ==
    /\ row' = "gone"
    /\ next' = [next EXCEPT !["retry"] = NoTime]

(* _schedule_at_retry                                                      *)
ScheduleRetry ==
    \/ /\ Past(now + Delay, At)
       /\ GiveUp
    \/ /\ ~Past(now + Delay, At)
       /\ next' = [next EXCEPT !["retry"] = now + Delay]
       /\ UNCHANGED row

(* apply_enabled_state: the main job is added whatever :retry is doing;    *)
(* disabling takes the main job away and leaves :retry.                    *)
Apply(state) ==
    next' = [next EXCEPT !["main"] = IF state = "enabled" THEN At ELSE NoTime]

-----------------------------------------------------------------------------
(* The scheduler: a due job leaves the store; its run is submitted unless  *)
(* the previous run of the same job id is still active (max_instances).    *)
Submit(j) ==
    /\ mode = "running"
    /\ next[j] # NoTime /\ next[j] <= now
    /\ next' = [next EXCEPT ![j] = NoTime]
    /\ IF turn[j] = "idle"
         THEN /\ turn' = [turn EXCEPT ![j] = "due"]
              /\ planned' = [planned EXCEPT ![j] = next[j]]
         ELSE UNCHANGED <<turn, planned>>
    /\ UNCHANGED <<now, mode, cron, window, key, agent, refused, reenabled, bounds>>

(* The executor finds the run too late: EVENT_JOB_MISSED, _on_missed.      *)
(* Mutant: a missed run is only logged.                                    *)
Missed_OnlyLogged(j) ==
    /\ turn[j] = "due" /\ Past(now, planned[j])
    /\ turn' = [turn EXCEPT ![j] = "idle"]
    /\ UNCHANGED <<now, mode, cron, window, next, planned, key, agent, refused, reenabled, bounds>>

Missed(j) ==
    /\ turn[j] = "due" /\ Past(now, planned[j])
    /\ turn' = [turn EXCEPT ![j] = "idle"]
    /\ IF row = "gone" THEN UNCHANGED <<row, next>> ELSE GiveUp
    /\ UNCHANGED <<now, mode, attempt, window, planned, key, agent, refused, reenabled, bounds>>

(* _fire without a turn: no row, a disabled row, a row past its window.    *)
FireInVain(j) ==
    /\ turn[j] = "due" /\ ~Past(now, planned[j])
    /\ \/ /\ row # "enabled"
          /\ next' = [i \in Job |-> NoTime]
          /\ UNCHANGED row
       \/ /\ row = "enabled" /\ Past(now, At)
          /\ GiveUp
    /\ turn' = [turn EXCEPT ![j] = "idle"]
    /\ UNCHANGED <<now, mode, attempt, window, planned, key, agent, refused, reenabled, bounds>>

(* _fire up to its await: the row is read again and the turn is sent under *)
(* the key of its attempt.  The request may be lost on the way.            *)
(* Mutant: the window is not looked at again.                              *)
MayFire_PlannedOnly(j) == turn[j] = "due" /\ row = "enabled" /\ ~Past(now, planned[j])

MayFire(j) ==
    /\ turn[j] = "due" /\ ~Past(now, planned[j])
    /\ row = "enabled" /\ ~Past(now, At)

Fire(j) ==
    /\ MayFire(j)
    /\ turn' = [turn EXCEPT ![j] = "out"]
    /\ key' = [key EXCEPT ![j] = attempt]
    /\ \/ UNCHANGED agent
       \/ /\ agent[attempt] = "new"
          /\ agent' = [agent EXCEPT ![attempt] = "running"]
    /\ UNCHANGED <<now, mode, cron, window, next, planned, refused, reenabled, bounds>>

(* The agent ends the run of a key; "error" means it was not carried out.  *)
RunEnds(k) ==
    /\ agent[k] = "running"
    /\ \E r \in {"ok", "error"} : agent' = [agent EXCEPT ![k] = r]
    /\ UNCHANGED <<now, mode, cron, window, memory, refused, reenabled, bounds>>

(* The rest of _fire, by the status the turn came back with.               *)
Done(j) ==
    /\ agent[key[j]] = "ok"
    /\ GiveUp /\ UNCHANGED <<attempt, refused>>

NoChannel(j) ==
    /\ agent[key[j]] = "new"
    /\ GiveUp /\ UNCHANGED <<attempt, refused>>

(* A transport failure or a timeout: the fate of the run is unknown and    *)
(* the attempt stays what it is.                                           *)
(* Mutant: no retry after a lost answer.                                   *)
Lost_Forgets(j) ==
    UNCHANGED <<cron, next, refused>>

Lost(j) ==
    /\ UNCHANGED <<attempt, refused>>
    /\ IF row = "gone" THEN UNCHANGED <<row, next>> ELSE ScheduleRetry

Failed(j) ==
    /\ agent[key[j]] = "error"
    /\ refused' = refused \cup {key[j]}
    /\ IF row = "gone" THEN UNCHANGED <<cron, next>>
       ELSE /\ attempt < MaxAttempt
            /\ attempt' = attempt + 1
            /\ ScheduleRetry

Answer(j) ==
    /\ turn[j] = "out"
    /\ turn' = [turn EXCEPT ![j] = "idle"]
    /\ Done(j) \/ NoChannel(j) \/ Lost(j) \/ Failed(j)
    /\ UNCHANGED <<now, mode, window, planned, key, agent, reenabled, bounds>>

-----------------------------------------------------------------------------
(* Requests of the user, each one handler without an await: enable and     *)
(* disable (also by way of the task), delete.  With the scheduler switched *)
(* off only the row changes.                                               *)
Toggle(state) ==
    /\ mode # "down" /\ row # "gone"
    /\ edits < MaxEdits /\ edits' = edits + 1
    /\ row' = state
    /\ IF mode = "running" THEN Apply(state) ELSE UNCHANGED next
    /\ reenabled' = (reenabled \/ (state = "enabled" /\ now >= At))
    /\ UNCHANGED <<now, mode, attempt, window, planned, turn, key, agent, refused, crashes>>

Delete ==
    /\ mode # "down" /\ row # "gone"
    /\ edits < MaxEdits /\ edits' = edits + 1
    /\ row' = "gone"
    /\ next' = [j \in Job |-> NoTime]
    /\ UNCHANGED <<now, mode, attempt, window, planned, turn, key, agent, refused, reenabled, crashes>>

(* The process stops; jobs and turns in memory are gone, the agent is not. *)
Crash ==
    /\ mode # "down"
    /\ crashes < MaxCrashes /\ crashes' = crashes + 1
    /\ mode' = "down"
    /\ next' = [j \in Job |-> NoTime]
    /\ turn' = [j \in Job |-> "idle"]
    /\ UNCHANGED <<now, cron, window, planned, key, agent, refused, reenabled, edits>>

(* rebuild_from_db                                                         *)
(* Mutant: the main job comes back beside the retry.                       *)
Rebuild_MainToo ==
    IF row # "enabled" THEN UNCHANGED <<row, next>>
    ELSE next' = [j \in Job |-> IF j = "main" THEN At
                                ELSE IF attempt > 0 THEN now + Delay ELSE NoTime] /\ UNCHANGED row

Rebuild ==
    \/ row # "gone" /\ Past(now, At) /\ GiveUp
    \/ row = "enabled" /\ ~Past(now, At) /\ attempt > 0 /\ ScheduleRetry
    \/ row = "enabled" /\ ~Past(now, At) /\ attempt = 0 /\ Apply("enabled") /\ UNCHANGED row
    \/ row = "disabled" /\ ~Past(now, At) /\ UNCHANGED <<row, next>>
    \/ row = "gone" /\ UNCHANGED <<row, next>>

Boot ==
    /\ mode = "down"
    /\ \/ mode' = "running" /\ Rebuild
       \/ mode' = "off" /\ UNCHANGED <<row, next>>
    /\ UNCHANGED <<now, attempt, window, planned, turn, key, agent, refused, reenabled, bounds>>

Tick ==
    /\ now < Horizon /\ now' = now + 1
    /\ UNCHANGED <<mode, cron, window, memory, agent, refused, reenabled, bounds>>

JobStep(j) == Submit(j) \/ Missed(j) \/ FireInVain(j) \/ Fire(j) \/ Answer(j)

Next ==
    \/ \E j \in Job : JobStep(j)
    \/ \E k \in Key : RunEnds(k)
    \/ \E state \in {"enabled", "disabled"} : Toggle(state)
    \/ Delete \/ Crash \/ Boot \/ Tick

Spec == Init /\ [][Next]_vars

(* The event loop runs what is due, every turn ends (the wait has a        *)
(* timeout), the supervisor starts the process again, time passes.         *)
FairSpec ==
    /\ Spec
    /\ \A j \in Job : WF_vars(JobStep(j))
    /\ WF_vars(Boot) /\ WF_vars(Tick)

-----------------------------------------------------------------------------
TypeOK ==
    /\ now \in 0..Horizon
    /\ mode \in {"running", "off", "down"}
    /\ row \in {"enabled", "disabled", "gone"}
    /\ window \in Windows /\ attempt \in Key
    /\ next \in [Job -> Nat \cup {NoTime}]
    /\ planned \in [Job -> Nat \cup {NoTime}]
    /\ turn \in [Job -> {"idle", "due", "out"}]
    /\ key \in [Job -> Key]
    /\ agent \in [Key -> {"new", "running", "ok", "error"}]
    /\ refused \subseteq Key /\ reenabled \in BOOLEAN
    /\ crashes \in 0..MaxCrashes /\ edits \in 0..MaxEdits

(* A job that is on is never forgotten: while the scheduler runs, an       *)
(* enabled row has a job in memory or a run under way, whatever the order  *)
(* of failures, skipped runs, edits and restarts.                          *)
NotForgotten ==
    /\ TypeOK
    /\ mode = "running" /\ row = "enabled" =>
          \E j \in Job : next[j] # NoTime \/ turn[j] # "idle"

(* Failures, lost answers and restarts alone never put the main job beside *)
(* its retry, and the message is carried out once: a repeated send has the *)
(* key of the send whose fate is unknown.  Only a user who enables the job *)
(* again after its time can have two turns, or two runs, of it.            *)
OnceUnlessReEnabled ==
    ~reenabled =>
        /\ ~(turn["main"] = "out" /\ turn["retry"] = "out")
        /\ Cardinality({k \in Key : agent[k] = "ok"}) <= 1

(* A turn starts between the time of the job and the end of its window,    *)
(* although a retry is planned long before it runs and runs may be late;   *)
(* never after the row has gone or while the job is off; and never under a *)
(* key that was answered with an error, which the agent would not repeat.  *)
StartsAreDue ==
    [][\A j \in Job : turn[j] # "out" /\ turn'[j] = "out" =>
          /\ now >= At /\ ~Past(now, At) /\ row = "enabled"
          /\ key'[j] \notin refused]_vars

(* A one-shot job with a window does not stay around: it is carried out,   *)
(* given up, switched off or deleted, unless the scheduler is not running. *)
ComesToAnEnd ==
    window # NoLimit =>
        (row = "enabled" ~> (row # "enabled" \/ mode = "off"))
=============================================================================
