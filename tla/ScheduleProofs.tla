--------------------------- MODULE ScheduleProofs ---------------------------
(***************************************************************************)
(* Proofs about Schedule for every time, delay, window and bound.          *)
(***************************************************************************)
EXTENDS Schedule, FiniteSetTheorems, TLAPS

(* Nothing runs or is retried before the job's time has come.              *)
NotBefore ==
    /\ \A j \in Job : next[j] # NoTime => next[j] >= At
    /\ next["retry"] # NoTime \/ attempt > 0 \/ (\E j \in Job : turn[j] # "idle") => now >= At
    /\ \A j \in Job : turn[j] = "due" => planned[j] \in Nat

(* A process that is down holds nothing.                                   *)
HoldsNothing ==
    mode = "down" => \A j \in Job : next[j] = NoTime /\ turn[j] = "idle"

(* An attempt that has been refused is behind the row, until it has gone.  *)
Behind ==
    /\ \A j \in Job : key[j] <= attempt
    /\ row # "gone" => \A k \in refused : k < attempt

(* Without a user who enables the job after its time it has one life: one  *)
(* job in memory, or one run.                                              *)
OneLife ==
    /\ \A j \in Job : next[j] # NoTime =>
          \A i \in Job : turn[i] = "idle" /\ (i # j => next[i] = NoTime)
    /\ \A i, j \in Job : turn[i] # "idle" /\ turn[j] # "idle" => i = j

(* A key is left behind when its run was answered with an error, and the   *)
(* next has not been used.                                                 *)
KeysInTurn ==
    /\ \A j \in Job : turn[j] = "out" => key[j] = attempt
    /\ \A k \in Key : k < attempt => agent[k] = "error"
    /\ \A k \in Key : k > attempt => agent[k] = "new"

Inv ==
    /\ NotForgotten
    /\ NotBefore
    /\ HoldsNothing
    /\ Behind
    /\ ~reenabled => OneLife /\ KeysInTurn

-----------------------------------------------------------------------------
(* Steps that leave attempt, keys and the agent alone.                     *)
LEMMA Types == TypeOK => /\ now \in Nat /\ attempt \in Nat /\ At \in Nat /\ Delay \in Nat /\ Delay > 0
                         /\ NoTime \notin Nat /\ \A j \in Job : key[j] \in Nat
                         /\ Key \subseteq Nat
  BY ScheduleAssumption DEF TypeOK, Key

LEMMA SubmitInv ==
  ASSUME Inv, NEW j \in Job, Submit(j)
  PROVE  Inv'
<1>0. TypeOK
  BY DEF Inv, NotForgotten
<1>1. /\ mode = "running" /\ next[j] # NoTime /\ next[j] <= now
      /\ next' = [next EXCEPT ![j] = NoTime]
      /\ UNCHANGED <<now, mode, row, attempt, window, key, agent, refused, reenabled, crashes, edits>>
  BY DEF Submit, cron, bounds
<1>2. /\ TypeOK'
      /\ \A i \in Job : /\ turn'[i] = (IF i = j /\ turn[j] = "idle" THEN "due" ELSE turn[i])
                        /\ planned'[i] = (IF i = j /\ turn[j] = "idle" THEN next[j] ELSE planned[i])
                        /\ next'[i] = (IF i = j THEN NoTime ELSE next[i])
  <2>1. CASE turn[j] = "idle"
    BY <1>0, <1>1, <2>1 DEF Submit, TypeOK
  <2>2. CASE turn[j] # "idle"
    BY <1>0, <1>1, <2>2 DEF Submit, TypeOK
  <2> QED
    BY <2>1, <2>2
<1>3. next[j] >= At /\ next[j] \in Nat /\ now >= At
  BY <1>0, <1>1, Types DEF Inv, NotBefore, TypeOK
<1>4. NotForgotten'
  BY <1>2 DEF NotForgotten
<1>5. NotBefore'
  BY <1>1, <1>2, <1>3 DEF Inv, NotBefore
<1>6. HoldsNothing' /\ Behind'
  BY <1>1 DEF Inv, HoldsNothing, Behind
<1>7. ~reenabled' => OneLife' /\ KeysInTurn'
  BY <1>1, <1>2 DEF Inv, OneLife, KeysInTurn
<1> QED
  BY <1>4, <1>5, <1>6, <1>7 DEF Inv

(* A run ends: it leaves the row alone, gives it up or plans a retry, and  *)
(* may leave its key behind as refused.                                    *)
LEMMA RunOver ==
  ASSUME Inv, NEW j \in Job, turn[j] # "idle",
         turn' = [turn EXCEPT ![j] = "idle"],
         UNCHANGED <<now, mode, window, planned, key, agent, reenabled, crashes, edits>>,
         \/ row # "enabled" /\ row' = row /\ next' = next
         \/ row # "enabled" /\ row' = row /\ next' = [i \in Job |-> NoTime]
         \/ GiveUp
         \/ row' = row /\ next' = [next EXCEPT !["retry"] = now + Delay],
         \/ UNCHANGED <<attempt, refused>>
         \/ /\ turn[j] = "out" /\ agent[key[j]] = "error"
            /\ refused' = refused \cup {key[j]}
            /\ \/ row = "gone" /\ row' = "gone" /\ attempt' = attempt
               \/ attempt < MaxAttempt /\ attempt' = attempt + 1
  PROVE  Inv'
<1>0. TypeOK
  BY DEF Inv, NotForgotten
<1>1. /\ \A i \in Job : turn'[i] = IF i = j THEN "idle" ELSE turn[i]
      /\ now >= At
  BY <1>0 DEF TypeOK, Inv, NotBefore
<1>2. /\ row' \in {row, "gone"} /\ next' \in [Job -> Nat \cup {NoTime}]
      /\ \/ row' # "enabled"
         \/ row' = row /\ next'["retry"] = now + Delay
      /\ \A i \in Job : next'[i] \in {next[i], NoTime} \/ (i = "retry" /\ next'[i] = now + Delay)
  <2>1. CASE row # "enabled" /\ row' = row /\ next' = next
    BY <1>0, <2>1 DEF TypeOK
  <2>2. CASE row # "enabled" /\ row' = row /\ next' = [i \in Job |-> NoTime]
    BY <2>2
  <2>3. CASE GiveUp
    BY <1>0, <2>3 DEF TypeOK, GiveUp, Job
  <2>4. CASE row' = row /\ next' = [next EXCEPT !["retry"] = now + Delay]
    BY <1>0, <2>4, Types DEF TypeOK, Job
  <2> QED
    BY <2>1, <2>2, <2>3, <2>4
<1>3. /\ attempt' \in Key /\ refused' \subseteq Key /\ attempt <= attempt'
      /\ row' # "gone" => \A k \in refused' : k < attempt'
  <2>1. CASE UNCHANGED <<attempt, refused>>
    BY <1>0, <1>2, <2>1, Types DEF TypeOK, Inv, Behind
  <2>2. CASE /\ refused' = refused \cup {key[j]}
             /\ row = "gone" /\ row' = "gone" /\ attempt' = attempt
    BY <1>0, <2>2, Types DEF TypeOK
  <2>3. CASE /\ refused' = refused \cup {key[j]}
             /\ attempt < MaxAttempt /\ attempt' = attempt + 1
    <3>1. attempt \in Nat /\ MaxAttempt \in Nat /\ key[j] \in Key /\ key[j] \in Nat /\ key[j] <= attempt
      BY <1>0, Types, ScheduleAssumption DEF TypeOK, Inv, Behind
    <3>2. attempt' \in Key /\ attempt <= attempt'
      BY <2>3, <3>1 DEF Key
    <3>3. refused' \subseteq Key
      BY <1>0, <2>3, <3>1 DEF TypeOK
    <3>4. row' # "gone" => \A k \in refused : k \in Nat /\ k < attempt
      BY <1>0, <1>2, Types DEF Inv, Behind, TypeOK
    <3> QED
      BY <2>3, <3>1, <3>2, <3>3, <3>4
  <2> QED
    BY <2>1, <2>2, <2>3
<1>4. TypeOK'
  BY <1>0, <1>2, <1>3 DEF TypeOK
<1>5. NotForgotten'
  BY <1>0, <1>2, <1>4, Types DEF NotForgotten, Job
<1>6. NotBefore'
  BY <1>0, <1>1, <1>2, Types DEF Inv, NotBefore, TypeOK, Job
<1>7. HoldsNothing' /\ Behind'
  BY <1>0, <1>3, Types DEF Inv, HoldsNothing, Behind, TypeOK, Key
<1>8. ~reenabled' => OneLife' /\ KeysInTurn'
  <2> SUFFICES ASSUME ~reenabled PROVE OneLife' /\ KeysInTurn'
    OBVIOUS
  <2>1. /\ OneLife /\ KeysInTurn
        /\ \A i \in Job : next[i] = NoTime /\ turn'[i] = "idle"
    BY <1>0, <1>1 DEF Inv, OneLife
  <2>2. OneLife'
    BY <1>2, <2>1 DEF OneLife
  <2>3. KeysInTurn'
    <3>1. \A k \in Key : k < attempt' => agent[k] = "error"
      BY <1>0, <2>1, Types DEF KeysInTurn, TypeOK, Key
    <3>2. \A k \in Key : k > attempt' => agent[k] = "new"
      BY <1>0, <1>3, <2>1, Types DEF KeysInTurn, TypeOK, Key
    <3> QED
      BY <2>1, <3>1, <3>2 DEF KeysInTurn
  <2> QED
    BY <2>2, <2>3
<1> QED
  BY <1>5, <1>6, <1>7, <1>8 DEF Inv

LEMMA RunEndsInv ==
  ASSUME Inv, NEW j \in Job, Missed(j) \/ FireInVain(j) \/ Answer(j)
  PROVE  Inv'
<1>0. TypeOK
  BY DEF Inv, NotForgotten
<1>1. CASE Missed(j)
  BY <1>1, RunOver DEF Missed, bounds
<1>2. CASE FireInVain(j)
  BY <1>2, RunOver DEF FireInVain, bounds
<1>3. CASE Answer(j)
  <2>1. /\ turn[j] = "out" /\ turn' = [turn EXCEPT ![j] = "idle"]
        /\ UNCHANGED <<now, mode, window, planned, key, agent, reenabled, crashes, edits>>
    BY <1>3 DEF Answer, bounds
  <2>2. CASE Done(j) \/ NoChannel(j)
    BY <2>1, <2>2, RunOver DEF Done, NoChannel
  <2>3. CASE Lost(j)
    BY <2>1, <2>3, RunOver DEF Lost, ScheduleRetry
  <2>4. CASE Failed(j)
    BY <2>1, <2>4, RunOver DEF Failed, ScheduleRetry, cron
  <2> QED
    BY <1>3, <2>2, <2>3, <2>4 DEF Answer
<1> QED
  BY <1>1, <1>2, <1>3

(* A turn is sent, or the agent ends one.                                  *)
LEMMA FireInv ==
  ASSUME Inv, NEW j \in Job, Fire(j)
  PROVE  Inv'
<1>0. TypeOK
  BY DEF Inv, NotForgotten
<1>1. /\ turn[j] = "due" /\ row = "enabled"
      /\ turn' = [turn EXCEPT ![j] = "out"] /\ key' = [key EXCEPT ![j] = attempt]
      /\ UNCHANGED <<now, mode, row, attempt, window, next, planned, refused, reenabled, crashes, edits>>
      /\ \/ agent' = agent
         \/ agent[attempt] = "new" /\ agent' = [agent EXCEPT ![attempt] = "running"]
  BY DEF Fire, MayFire, cron, bounds
<1>2. TypeOK'
  BY <1>0, <1>1 DEF TypeOK
<1>3. /\ \A i \in Job : turn'[i] = (IF i = j THEN "out" ELSE turn[i])
      /\ \A i \in Job : key'[i] = (IF i = j THEN attempt ELSE key[i])
      /\ \A k \in Key : k # attempt => agent'[k] = agent[k]
  BY <1>0, <1>1 DEF TypeOK
<1>4. NotForgotten' /\ NotBefore' /\ HoldsNothing' /\ Behind'
  BY <1>0, <1>1, <1>2, <1>3, Types DEF Inv, NotForgotten, NotBefore, HoldsNothing, Behind
<1>5. ~reenabled' => OneLife' /\ KeysInTurn'
  BY <1>0, <1>1, <1>3, Types DEF Inv, OneLife, KeysInTurn, Key
<1> QED
  BY <1>4, <1>5 DEF Inv

LEMMA AgentInv ==
  ASSUME Inv, NEW k \in Key, RunEnds(k)
  PROVE  Inv'
<1>0. TypeOK
  BY DEF Inv, NotForgotten
<1>1. /\ agent[k] = "running"
      /\ UNCHANGED <<now, mode, row, attempt, window, next, planned, turn, key, refused, reenabled, crashes, edits>>
      /\ agent' \in [Key -> {"new", "running", "ok", "error"}]
      /\ \A i \in Key : i # k => agent'[i] = agent[i]
  BY <1>0 DEF RunEnds, cron, memory, bounds, TypeOK
<1>2. NotForgotten' /\ NotBefore' /\ HoldsNothing' /\ Behind'
  BY <1>0, <1>1 DEF Inv, NotForgotten, NotBefore, HoldsNothing, Behind, TypeOK
<1>3. ~reenabled' => OneLife' /\ KeysInTurn'
  BY <1>1 DEF Inv, OneLife, KeysInTurn
<1> QED
  BY <1>2, <1>3 DEF Inv

-----------------------------------------------------------------------------
(* The user, the process and the clock.                                    *)
LEMMA UserInv ==
  ASSUME Inv, (\E state \in {"enabled", "disabled"} : Toggle(state)) \/ Delete
  PROVE  Inv'
<1>0. TypeOK
  BY DEF Inv, NotForgotten
<1>1. /\ UNCHANGED <<now, mode, attempt, window, planned, turn, key, agent, refused, crashes>>
      /\ mode # "down"
      /\ row # "gone" /\ edits' \in 0 .. MaxEdits /\ row' \in {"enabled", "disabled", "gone"}
      /\ next' \in [Job -> Nat \cup {NoTime}]
      /\ reenabled' \in BOOLEAN /\ (reenabled => reenabled')
      /\ \A i \in Job : \/ next'[i] \in {next[i], NoTime}
                        \/ i = "main" /\ next'[i] = At /\ (now >= At => reenabled')
      /\ mode = "running" /\ row' = "enabled" => next'["main"] = At
  <2>1. CASE Delete
    BY <1>0, <2>1, ScheduleAssumption DEF Delete, TypeOK
  <2>2. ASSUME NEW state \in {"enabled", "disabled"}, Toggle(state), mode = "running"
        PROVE  /\ next' \in [Job -> Nat \cup {NoTime}]
               /\ \A i \in Job : \/ next'[i] \in {next[i], NoTime}
                                 \/ i = "main" /\ next'[i] = At /\ (now >= At => reenabled')
               /\ row' = "enabled" => next'["main"] = At
    BY <1>0, <2>2, Types DEF Toggle, Apply, TypeOK, Job
  <2>3. ASSUME NEW state \in {"enabled", "disabled"}, Toggle(state)
        PROVE  /\ UNCHANGED <<now, mode, attempt, window, planned, turn, key, agent, refused, crashes>>
               /\ mode # "down"
               /\ row # "gone" /\ edits' \in 0 .. MaxEdits /\ row' \in {"enabled", "disabled", "gone"}
               /\ reenabled' \in BOOLEAN /\ (reenabled => reenabled')
               /\ mode # "running" => next' = next
    BY <1>0, <2>3, ScheduleAssumption DEF Toggle, TypeOK
  <2> QED
    BY <1>0, <2>1, <2>2, <2>3 DEF TypeOK
<1>2. TypeOK'
  BY <1>0, <1>1 DEF TypeOK
<1>3. NotForgotten'
  BY <1>0, <1>1, <1>2, Types DEF NotForgotten, Job
<1>4. NotBefore'
  BY <1>0, <1>1, Types DEF Inv, NotBefore, TypeOK, Job
<1>5. HoldsNothing' /\ Behind'
  BY <1>1 DEF Inv, HoldsNothing, Behind
<1>6. ~reenabled' => OneLife' /\ KeysInTurn'
  <2> SUFFICES ASSUME ~reenabled' PROVE OneLife' /\ KeysInTurn'
    OBVIOUS
  <2>1. OneLife /\ KeysInTurn
    BY <1>1 DEF Inv
  <2>2. KeysInTurn'
    BY <1>1, <2>1 DEF KeysInTurn
  <2>3. CASE now >= At
    <3>1. \A i \in Job : next'[i] \in {next[i], NoTime}
      BY <1>1, <2>3
    <3> QED
      BY <1>1, <2>1, <2>2, <3>1 DEF OneLife
  <2>4. CASE ~(now >= At)
    <3>1. next["retry"] = NoTime /\ \A i \in Job : turn[i] = "idle"
      BY <2>4 DEF Inv, NotBefore
    <3> QED
      BY <1>1, <2>2, <3>1 DEF OneLife, Job
  <2> QED
    BY <2>2, <2>3, <2>4
<1> QED
  BY <1>3, <1>4, <1>5, <1>6 DEF Inv

LEMMA ProcessInv ==
  ASSUME Inv, Crash \/ Boot \/ Tick
  PROVE  Inv'
<1>0. TypeOK
  BY DEF Inv, NotForgotten
<1>1. CASE Crash
  <2>1. /\ mode' = "down" /\ crashes' \in 0 .. MaxCrashes
        /\ next' = [j \in Job |-> NoTime] /\ turn' = [j \in Job |-> "idle"]
        /\ UNCHANGED <<now, row, attempt, window, planned, key, agent, refused, reenabled, edits>>
    BY <1>0, <1>1, ScheduleAssumption DEF Crash, cron, TypeOK
  <2>2. NotForgotten' /\ NotBefore' /\ HoldsNothing' /\ Behind'
    BY <1>0, <2>1 DEF Inv, NotForgotten, NotBefore, HoldsNothing, Behind, TypeOK, Job
  <2>3. ~reenabled' => OneLife' /\ KeysInTurn'
    BY <2>1 DEF Inv, OneLife, KeysInTurn
  <2> QED
    BY <2>2, <2>3 DEF Inv
<1>2. CASE Boot
  <2>1. /\ mode = "down" /\ mode' \in {"running", "off"}
        /\ UNCHANGED <<now, attempt, window, planned, turn, key, agent, refused, reenabled, crashes, edits>>
        /\ \A j \in Job : next[j] = NoTime /\ turn[j] = "idle"
    BY <1>2 DEF Boot, bounds, Inv, HoldsNothing
  <2>2. /\ row' \in {row, "gone"} /\ next' \in [Job -> Nat \cup {NoTime}]
        /\ \/ \A j \in Job : next'[j] = NoTime
           \/ next'["main"] = At /\ next'["retry"] = NoTime
           \/ next'["main"] = NoTime /\ next'["retry"] = now + Delay /\ attempt > 0
        /\ mode' = "running" /\ row' = "enabled" => \E j \in Job : next'[j] # NoTime
    <3>1. CASE mode' = "off" /\ UNCHANGED <<row, next>>
      BY <1>0, <2>1, <3>1 DEF TypeOK
    <3>2. CASE GiveUp
      BY <1>0, <2>1, <3>2 DEF GiveUp, TypeOK, Job
    <3>3. CASE row # "enabled" /\ UNCHANGED <<row, next>>
      BY <1>0, <2>1, <3>3 DEF TypeOK
    <3>4. CASE attempt > 0 /\ row' = row /\ next' = [next EXCEPT !["retry"] = now + Delay]
      BY <1>0, <2>1, <3>4, Types DEF TypeOK, Job
    <3>5. CASE Apply("enabled") /\ UNCHANGED row
      BY <1>0, <2>1, <3>5, Types DEF Apply, TypeOK, Job
    <3> QED
      BY <1>2, <3>1, <3>2, <3>3, <3>4, <3>5 DEF Boot, Rebuild, ScheduleRetry
  <2>3. TypeOK'
    BY <1>0, <2>1, <2>2 DEF TypeOK
  <2>4. NotForgotten' /\ HoldsNothing' /\ Behind'
    BY <2>1, <2>2, <2>3 DEF Inv, NotForgotten, HoldsNothing, Behind
  <2>5. NotBefore'
    BY <1>0, <2>1, <2>2, Types DEF Inv, NotBefore, Job
  <2>6. ~reenabled' => OneLife' /\ KeysInTurn'
    BY <2>1, <2>2 DEF Inv, OneLife, KeysInTurn, Job
  <2> QED
    BY <2>4, <2>5, <2>6 DEF Inv
<1>3. CASE Tick
  <2>1. /\ now' = now + 1 /\ now' \in 0 .. Horizon
        /\ UNCHANGED <<mode, row, attempt, window, next, planned, turn, key, agent, refused, reenabled, crashes, edits>>
    BY <1>0, <1>3, ScheduleAssumption DEF Tick, cron, memory, bounds, TypeOK
  <2>2. NotForgotten' /\ NotBefore' /\ HoldsNothing' /\ Behind'
    BY <1>0, <2>1, Types DEF Inv, NotForgotten, NotBefore, HoldsNothing, Behind, TypeOK
  <2>3. ~reenabled' => OneLife' /\ KeysInTurn'
    BY <2>1 DEF Inv, OneLife, KeysInTurn
  <2> QED
    BY <2>2, <2>3 DEF Inv
<1> QED
  BY <1>1, <1>2, <1>3

LEMMA NextInv ==
  Inv /\ [Next]_vars => Inv'
<1> SUFFICES ASSUME Inv, [Next]_vars PROVE Inv'
  OBVIOUS
<1>1. CASE \E j \in Job : JobStep(j)
  BY <1>1, SubmitInv, RunEndsInv, FireInv DEF JobStep
<1>2. CASE \E k \in Key : RunEnds(k)
  BY <1>2, AgentInv
<1>3. CASE (\E state \in {"enabled", "disabled"} : Toggle(state)) \/ Delete
  BY <1>3, UserInv
<1>4. CASE Crash \/ Boot \/ Tick
  BY <1>4, ProcessInv
<1>5. CASE UNCHANGED vars
  BY <1>5 DEF vars, Inv, NotForgotten, TypeOK, NotBefore, HoldsNothing, Behind, OneLife, KeysInTurn
<1> QED
  BY <1>1, <1>2, <1>3, <1>4, <1>5 DEF Next

LEMMA InitInv ==
  Init => Inv
<1> SUFFICES ASSUME Init PROVE Inv
  OBVIOUS
<1>1. TypeOK
  <2>1. /\ Horizon \in Nat /\ MaxAttempt \in Nat /\ MaxCrashes \in Nat /\ MaxEdits \in Nat
        /\ At \in Nat
    BY ScheduleAssumption
  <2>2. now \in 0..Horizon /\ attempt \in Key /\ crashes \in 0..MaxCrashes /\ edits \in 0..MaxEdits
    BY <2>1 DEF Init, Key
  <2>3. next \in [Job -> Nat \cup {NoTime}]
    BY <2>1 DEF Init, Job
  <2>4. key \in [Job -> Key]
    BY <2>1 DEF Init, Key
  <2> QED
    BY <2>2, <2>3, <2>4 DEF Init, TypeOK
<1>2. NotForgotten /\ NotBefore /\ HoldsNothing
  BY <1>1, Types DEF Init, NotForgotten, NotBefore, HoldsNothing, Job
<1>3. Behind
  BY DEF Init, Behind
<1>4. OneLife /\ KeysInTurn
  BY <1>1, Types DEF Init, OneLife, KeysInTurn, Job, Key
<1> QED
  BY <1>2, <1>3, <1>4 DEF Inv

(* The invariant holds of every reachable state.                           *)
THEOREM ScheduleInvariance ==
  Spec => []Inv
  BY InitInv, NextInv, PTL DEF Spec

(* While the scheduler runs an enabled job has a job in memory or a run    *)
(* under way (_on_missed, the branches of _fire, rebuild_from_db).         *)
THEOREM NeverForgotten ==
  Spec => []NotForgotten
<1>1. Inv => NotForgotten
  BY DEF Inv
<1> QED
  BY <1>1, ScheduleInvariance, PTL

(* Unless the user enables the job after its time, at most one of its jobs *)
(* has a turn out, and the agent carries it out under one key at most      *)
(* (increment_retry_attempt only after an error, rebuild_from_db).         *)
THEOREM OneLifeOnly ==
  Spec => []OnceUnlessReEnabled
<1>1. Inv => OnceUnlessReEnabled
  <2> SUFFICES ASSUME Inv, ~reenabled
      PROVE /\ ~(turn["main"] = "out" /\ turn["retry"] = "out")
            /\ Cardinality({k \in Key : agent[k] = "ok"}) <= 1
    BY DEF OnceUnlessReEnabled
  <2>0. TypeOK /\ OneLife /\ KeysInTurn
    BY DEF Inv, NotForgotten
  <2>1. ~(turn["main"] = "out" /\ turn["retry"] = "out")
    BY <2>0 DEF OneLife, Job
  <2>2. {k \in Key : agent[k] = "ok"} \subseteq {attempt}
    BY <2>0, Types DEF KeysInTurn, Key
  <2>3. /\ IsFiniteSet({attempt}) /\ Cardinality({attempt}) = 1
    BY FS_Singleton
  <2>4. /\ Cardinality({k \in Key : agent[k] = "ok"}) <= Cardinality({attempt})
    BY <2>2, <2>3, FS_Subset
  <2> QED
    BY <2>1, <2>3, <2>4
<1> QED
  BY <1>1, ScheduleInvariance, PTL

(* A turn starts inside the job's window, for a row that is enabled, and   *)
(* under a key that no error has used up (_fire).                          *)
THEOREM DueStarts ==
  Spec => StartsAreDue
<1>1. ASSUME Inv, [Next]_vars, NEW j \in Job, turn[j] # "out", turn'[j] = "out"
      PROVE  /\ now >= At /\ ~Past(now, At) /\ row = "enabled"
             /\ key'[j] \notin refused
  <2>0. TypeOK /\ NotBefore /\ Behind
    BY <1>1 DEF Inv, NotForgotten
  <2>1. Fire(j)
    <3>1. ASSUME NEW i \in Job, JobStep(i), ~Fire(i)
          PROVE  turn' \in {turn, [turn EXCEPT ![i] = "due"], [turn EXCEPT ![i] = "idle"]}
      BY <3>1 DEF JobStep, Submit, Missed, FireInVain, Answer
    <3>2. ASSUME NEW i \in Job, Fire(i)
          PROVE  turn' = [turn EXCEPT ![i] = "out"]
      BY <3>2 DEF Fire
    <3>3. CASE \E i \in Job : JobStep(i)
      BY <1>1, <2>0, <3>1, <3>2, <3>3 DEF TypeOK
    <3>4. CASE Crash
      BY <1>1, <3>4 DEF Crash
    <3>5. CASE UNCHANGED turn
      BY <1>1, <3>5
    <3> QED
      BY <1>1, <3>3, <3>4, <3>5 DEF Next, vars, RunEnds, memory, Toggle, Delete, Boot, Tick
  <2>2. /\ turn[j] = "due" /\ row = "enabled" /\ ~Past(now, At)
        /\ key'[j] = attempt
    BY <1>1, <2>0, <2>1 DEF Fire, MayFire, TypeOK
  <2> QED
    BY <2>0, <2>2, Types DEF NotBefore, Behind
<1>2. Inv /\ [Next]_vars =>
        [\A j \in Job : turn[j] # "out" /\ turn'[j] = "out" =>
            /\ now >= At /\ ~Past(now, At) /\ row = "enabled"
            /\ key'[j] \notin refused]_vars
  BY <1>1
<1> QED
  BY <1>2, ScheduleInvariance, PTL DEF Spec, StartsAreDue
=============================================================================
