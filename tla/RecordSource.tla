---------------------------- MODULE RecordSource ----------------------------
(***************************************************************************)
(* The target of a task's duration record: the condition of its milestone  *)
(* rule, true once enough minutes have been counted today, the timers of   *)
(* rule/record_source.py that find that out, and the rollover at five past *)
(* midnight (task_record/rollover.py), which runs in a thread of its own.  *)
(*                                                                         *)
(* The session of the task opens and closes as RuleTask decides; here it   *)
(* does so at any time.  The record counts what the agent reports, which   *)
(* may start late, never end, or be entered by hand: its counting is not   *)
(* tied to the session.  Whatever the source computes, the condition layer *)
(* takes an edge from false to true only, and the task layer announces it  *)
(* only inside a session.                                                  *)
(*                                                                         *)
(* A timer may be late by any time, so minutes are not measured: a timer   *)
(* that fires looks again.  Of the round number only whether it is still   *)
(* the current one matters, so an arm or a timer of an abandoned round is  *)
(* "stale"; one of the current round is named after where it comes from.   *)
(*                                                                         *)
(* An announcement is a task of its own (_fire) and leaves its row in      *)
(* rule_log when it ends, stamped with its beginning.  The wall clock and  *)
(* the period of the record are apart from midnight to the rollover.       *)
(***************************************************************************)
EXTENDS Naturals

CONSTANTS
    MaxTarget,   \* targets the user sets, in minutes
    MaxMinutes,  \* bound on the minutes counted in a day
    MaxDay       \* bound on the days

ASSUME RecordAssumption == {MaxTarget, MaxMinutes, MaxDay} \subseteq Nat \ {0}

VARIABLES
    rec,         \* the record: target (0 for none), acc and what of it is kept, counting
    date,        \* the wall clock
    day,         \* the date on which the period of the record began
    on,          \* the task is in a session
    paused,
    cond,        \* last_rule_state of the milestone rule
    arming,      \* _arm_one coroutines that have not run
    timer,       \* _timers: of which round, or "none"
    roll,        \* the rollover under way, with the period and state it read before
    log,         \* what has become of the announcements begun on this date
    told,        \* history: how often each day's target was announced, 2 for more
    taken,       \* history: this day was taken as announced, by its "record" or by the "row" of another
    excused,     \* history: cond became true out of turn, by "midnight" or while "paused"
    forgot       \* history: days for which the memory of the condition was lost

heard == <<cond, told, excused, log>>
memory == <<taken, forgot>>
vars == <<rec, date, day, on, paused, arming, timer, roll, heard, memory>>

Day == 1..MaxDay
Round == {"session", "midnight", "stale"}
Idle == [pc |-> "idle", from |-> 0, target |-> 0, acc |-> 0]

(* One is out; one left its row; one spoke of an earlier day.              *)
Fire == {"out", "row", "late"}

Enough(r) == r.target # 0 /\ r.acc >= r.target
HasRule == rec.target # 0
BeingRolled == IF roll.pc = "idle" THEN {} ELSE {roll.from}
AnnouncedOn(d) == told[d] > 0

Init ==
    /\ rec \in [target : 0..MaxTarget, acc : {0}, kept : {0}, counting : BOOLEAN]
    /\ date = 1 /\ day = 1 /\ on = FALSE /\ paused \in BOOLEAN
    /\ cond = FALSE /\ arming = {} /\ timer = "none" /\ roll = Idle /\ log = {}
    /\ told = [d \in Day |-> 0]
    /\ taken = {} /\ excused = "no" /\ forgot = {}

-----------------------------------------------------------------------------
(* Announcements and their rows.                                           *)

(* _spawn_fire: the target is announced for day d.                         *)
Announce(d) ==
    /\ told' = [told EXCEPT ![d] = IF @ = 0 THEN 1 ELSE 2]
    /\ log' = log \cup {"out"} \cup (IF d # date THEN {"late"} ELSE {})

(* _fire: the row is written behind the action, and not at all if there is *)
(* no action or it raises.  Others begun on this date may still be out.    *)
FireEnds ==
    /\ "out" \in log
    /\ log' \in {log \cup {"row"}, (log \ {"out"}) \cup {"row"}, log \ {"out"}}
    /\ UNCHANGED <<rec, date, day, on, paused, cond, arming, timer, roll, told, excused, memory>>

(* Nobody asks for the rows of the day before.                             *)
Midnight ==
    /\ date < MaxDay /\ roll.pc = "idle"
    /\ date' = date + 1 /\ log' = {}
    /\ UNCHANGED <<rec, day, on, paused, cond, arming, timer, roll, told, excused, memory>>

(* Mutant: rows are looked up by the id of the rule, which is new.         *)
NotifiedToday_ById == FALSE

NotifiedToday == "row" \in log

(* History: nothing announced on this date has left a row yet.             *)
Unlogged == "row" \notin log

-----------------------------------------------------------------------------
(* What the source does to the condition.                                  *)

(* update_state: true is announced on an edge, inside a session.           *)
FeedTrue(by) ==
    IF paused THEN UNCHANGED heard
    ELSE /\ cond' = TRUE
         /\ IF ~cond /\ on THEN Announce(day) ELSE UNCHANGED <<told, log>>
         /\ excused' = IF ~cond /\ ~on /\ by = "midnight" THEN "midnight" ELSE excused

Arm == arming' = IF HasRule' THEN arming \cup {"session"} ELSE {}

(* Mutant: the arms of a round outlive it.                                 *)
Abandoned_NoRound(arms) == arms

Abandoned(arms) == IF arms = {} THEN {} ELSE {"stale"}

Disarm == timer' = "none" /\ arming' = Abandoned(arming)

(* A milestone whose memory is lost is taken as announced if its target is *)
(* reached; with a target raised or minutes taken back since, its days     *)
(* may be announced again.                                                 *)
Forgets(days) == forgot' = forgot \cup {d \in days : AnnouncedOn(d)}

Seed(days) ==
    /\ cond' = Enough(rec)
    /\ taken' = IF Enough(rec) THEN taken \cup {"record"} ELSE taken
    /\ IF HasRule /\ ~Enough(rec) THEN Forgets(days) ELSE UNCHANGED forgot

-----------------------------------------------------------------------------
(* The record.                                                             *)

Minute ==
    /\ rec.counting /\ rec.acc < MaxMinutes
    /\ rec' = [rec EXCEPT !.acc = @ + 1]
    /\ UNCHANGED <<date, day, on, paused, arming, timer, roll, heard, memory>>

(* From the agent, of a moment that may be past: minutes are added at once *)
(* by a session that began earlier,                                        *)
SessionStart ==
    /\ ~paused /\ ~rec.counting
    /\ \E m \in rec.acc..MaxMinutes : rec' = [rec EXCEPT !.acc = m, !.counting = TRUE]
    /\ UNCHANGED <<date, day, on, paused, arming, timer, roll, heard, memory>>

(* and taken back by one that ended earlier than now.                      *)
SessionEnd ==
    /\ ~paused /\ rec.counting
    /\ \E m \in rec.kept..MaxMinutes :
          rec' = [rec EXCEPT !.acc = m, !.kept = m, !.counting = FALSE]
    /\ UNCHANGED <<date, day, on, paused, arming, timer, roll, heard, memory>>

(* A change of the target.  Without one there is no milestone rule; one    *)
(* made anew is seeded if there is a row of today.                         *)
SetTarget(t) ==
    /\ t # rec.target
    /\ rec' = [rec EXCEPT !.target = t]
    /\ CASE t = 0 ->
              /\ cond' = FALSE /\ arming' = {} /\ timer' = "none" /\ excused' = "no"
              /\ Forgets(BeingRolled) /\ UNCHANGED taken
         [] t # 0 /\ ~HasRule ->
              /\ cond' = NotifiedToday
              /\ excused' = IF paused /\ NotifiedToday THEN "paused" ELSE "no"
              /\ taken' = IF NotifiedToday /\ day = date /\ "late" \in log THEN taken \cup {"row"} ELSE taken
              /\ IF Unlogged THEN Forgets({day}) ELSE UNCHANGED forgot
              /\ IF on THEN Arm ELSE UNCHANGED arming
              /\ UNCHANGED timer
         [] t # 0 /\ HasRule ->
              /\ IF on THEN Arm ELSE UNCHANGED arming
              /\ UNCHANGED <<cond, timer, excused, memory>>
    /\ UNCHANGED <<date, day, on, paused, roll, told, log>>

-----------------------------------------------------------------------------
(* The session.                                                            *)

Enter ==
    /\ ~on /\ ~paused
    /\ on' = TRUE
    /\ UNCHANGED rec /\ Arm
    /\ UNCHANGED <<date, day, paused, timer, roll, heard, memory>>

Settle == IF Enough(rec) THEN FeedTrue("session") ELSE UNCHANGED heard

(* An exit that lands: settled first; the task may still be held on.       *)
(* Mutant: settled after the session has ended.                            *)
Leave_SettlesAfter ==
    /\ on
    /\ \/ /\ on' = FALSE /\ Disarm
          /\ IF Enough(rec) THEN cond' = TRUE /\ UNCHANGED <<told, excused, log>> ELSE UNCHANGED heard
       \/ Settle /\ UNCHANGED <<on, arming, timer>>
    /\ UNCHANGED <<rec, date, day, paused, roll, memory>>

Leave ==
    /\ on
    /\ Settle
    /\ \/ on' = FALSE /\ Disarm
       \/ UNCHANGED <<on, arming, timer>>
    /\ UNCHANGED <<rec, date, day, paused, roll, memory>>

(* on_exit by an edit or by hand: nothing is settled.                      *)
ForcedExit ==
    /\ on /\ on' = FALSE /\ Disarm
    /\ UNCHANGED <<rec, date, day, paused, roll, heard, memory>>

(* Any other edit of the task while it is on arms again.                   *)
Reconfigure ==
    /\ on /\ UNCHANGED rec /\ Arm
    /\ UNCHANGED <<date, day, on, paused, timer, roll, heard, memory>>

(* The open stretch of the record is closed, or that fails.                *)
Pause ==
    /\ ~paused /\ paused' = TRUE
    /\ on' = FALSE /\ cond' = FALSE /\ Disarm /\ excused' = "no"
    /\ rec' \in {rec, [rec EXCEPT !.kept = rec.acc, !.counting = FALSE]}
    /\ UNCHANGED <<date, day, roll, told, log, memory>>

Resume ==
    /\ paused /\ paused' = FALSE
    /\ IF HasRule /\ ~cond THEN Seed({day} \cup BeingRolled) ELSE UNCHANGED <<cond, memory>>
    /\ UNCHANGED <<rec, date, day, on, arming, timer, roll, told, excused, log>>

(* The process stops and starts; nobody carries on with a rollover it was  *)
(* in the middle of, nor with an announcement that was out.                *)
Restart ==
    /\ on' = FALSE /\ arming' = {} /\ timer' = "none" /\ roll' = Idle
    /\ Seed({day}) /\ excused' = IF paused /\ Enough(rec) THEN "paused" ELSE "no"
    /\ log' = log \ {"out"}
    /\ UNCHANGED <<rec, date, day, paused, told>>

-----------------------------------------------------------------------------
(* The coroutines of the source.                                           *)

RoundIsOver(by) == by = "stale"

(* _arm_one; one that timer wakes and looks again calls it too.            *)
Look(by) ==
    IF Enough(rec) THEN FeedTrue(by) /\ timer' = "none"
    ELSE timer' = by /\ UNCHANGED heard

ArmRuns(by) ==
    /\ by \in arming /\ arming' = arming \ {by}
    /\ IF RoundIsOver(by) \/ ~HasRule THEN UNCHANGED <<timer, heard>> ELSE Look(by)
    /\ UNCHANGED <<rec, date, day, on, paused, roll, memory>>

(* Mutant: a timer that wakes too early is the last.                       *)
TimerFires_NotAgain ==
    /\ timer # "none" /\ timer' = "none"
    /\ IF Enough(rec) THEN FeedTrue(timer) ELSE UNCHANGED heard
    /\ UNCHANGED <<rec, date, day, on, paused, arming, roll, memory>>

TimerFires ==
    /\ timer # "none"
    /\ IF RoundIsOver(timer) THEN timer' = "none" /\ UNCHANGED heard ELSE Look(timer)
    /\ UNCHANGED <<rec, date, day, on, paused, arming, roll, memory>>

-----------------------------------------------------------------------------
(* The rollover: read, archived in the database, then called on the loop.  *)

RolloverReads ==
    /\ roll.pc = "idle" /\ day < date
    /\ roll' = [pc |-> "read", from |-> day, target |-> rec.target, acc |-> rec.acc]
    /\ UNCHANGED <<rec, date, day, on, paused, arming, timer, heard, memory>>

RolloverOne ==
    /\ roll.pc = "read"
    /\ \/ /\ rec' = [rec EXCEPT !.acc = 0, !.kept = 0] /\ day' = date /\ taken' = {}
          /\ roll' = [roll EXCEPT !.pc = "rolled"]
       \/ /\ roll' = Idle
          /\ UNCHANGED <<rec, day, taken>>
    /\ UNCHANGED <<date, on, paused, arming, timer, heard, forgot>>

(* force_cross_day_reset on the loop, which starts roll_over.              *)
CrossDay ==
    /\ roll.pc = "rolled" /\ roll' = [roll EXCEPT !.pc = "called"]
    /\ UNCHANGED <<rec, date, day, on, paused, arming, timer, heard, memory>>

(* roll_over: the old day is honoured, the condition reset, the new day    *)
(* armed whether the task is in a session or not.                          *)
Honoured == Enough(roll) /\ HasRule /\ ~paused /\ ~cond /\ on

(* Mutant: midnight leaves the condition.                                  *)
RollOver_KeepsCondition ==
    /\ roll.pc = "called" /\ roll' = Idle
    /\ IF Honoured THEN Announce(roll.from) ELSE UNCHANGED <<told, log>>
    /\ cond' = (cond \/ Honoured) /\ timer' = "none"
    /\ arming' = Abandoned(arming) \cup (IF HasRule THEN {IF on THEN "session" ELSE "midnight"} ELSE {})
    /\ UNCHANGED <<rec, date, day, on, paused, excused, memory>>

RollOver ==
    /\ roll.pc = "called" /\ roll' = Idle
    /\ IF Honoured THEN Announce(roll.from) ELSE UNCHANGED <<told, log>>
    /\ IF paused THEN UNCHANGED <<cond, excused, forgot>>
       ELSE /\ cond' = FALSE /\ excused' = "no"
            /\ Forgets({day})
    /\ timer' = "none"
    /\ arming' = Abandoned(arming) \cup (IF HasRule THEN {IF on THEN "session" ELSE "midnight"} ELSE {})
    /\ UNCHANGED <<rec, date, day, on, paused, taken>>

-----------------------------------------------------------------------------
SourceStep == (\E by \in Round : ArmRuns(by)) \/ TimerFires
RolloverStep == RolloverOne \/ CrossDay \/ RollOver

Next ==
    \/ FireEnds \/ Midnight
    \/ Minute \/ SessionStart \/ SessionEnd \/ \E t \in 0..MaxTarget : SetTarget(t)
    \/ Enter \/ Leave \/ ForcedExit \/ Reconfigure \/ Pause \/ Resume \/ Restart
    \/ SourceStep
    \/ RolloverReads \/ RolloverStep

Spec == Init /\ [][Next]_vars

(* Coroutines run, timers fire, and a rollover that has begun ends.        *)
FairSpec ==
    Spec /\ (\A by \in Round : WF_vars(ArmRuns(by))) /\ WF_vars(TimerFires) /\ WF_vars(RolloverStep)

-----------------------------------------------------------------------------
TypeOK ==
    /\ rec \in [target : 0..MaxTarget, acc : 0..MaxMinutes, kept : 0..MaxMinutes, counting : BOOLEAN]
    /\ date \in Day /\ day \in 1..date /\ {on, paused, cond} \subseteq BOOLEAN
    /\ arming \subseteq Round /\ timer \in {"none", "session", "midnight"} /\ log \subseteq Fire
    /\ roll \in [pc : {"idle", "read", "rolled", "called"}, from : 0..MaxDay,
                target : 0..MaxTarget, acc : 0..MaxMinutes]
    /\ told \in [Day -> 0..2] /\ forgot \subseteq Day /\ taken \subseteq {"record", "row"}
    /\ excused \in {"no", "midnight", "paused"}

(* Of a day one announcement is made, however often its target is changed: *)
(* timers, arms, exits that are held back, pauses, restarts, midnight and  *)
(* the rule made anew may all find it reached.  Exempt is a day whose      *)
(* memory is lost                                                          *)
(*   - with the rule, while a rollover of the day is under way,            *)
(*   - by a restart or a pause, while the minutes are below the target,    *)
(*   - by a rule made anew while its announcement has no row of today: it  *)
(*     is still out, was lost, or midnight has passed since,               *)
(*   - by the reset, if the new day was announced before it.               *)
OncePerDay == \A d \in Day : told[d] < 2 \/ d \in forgot

(* The condition stands for "announced today": outside of a rollover it is *)
(* true only for a day that has been announced, or was taken as announced  *)
(* -- from the record after a restart or a pause; or by mistake, when a    *)
(* rule made anew finds the row of an announcement that the rollover, or   *)
(* the minutes before it, made for the day before.  Nothing else is left   *)
(* over from the day before, and it is never made true outside of a        *)
(* session by a timer or an arm that should be dead.  Excused are an arm   *)
(* made at midnight while the task was off, and a condition seeded while   *)
(* the task was paused, see LatchMeansTold.                                *)
Latched == cond /\ roll.pc \in {"idle", "read"}
TakenAsTold == taken # {} \/ excused # "no"

LatchedIsTold == Latched => AnnouncedOn(day) \/ TakenAsTold

(* Outside of a session nothing is armed, except by midnight: neither the  *)
(* arms of several rounds nor a timer outlive the session they belong to.  *)
OffIsDisarmed ==
    /\ TypeOK
    /\ ~on => timer # "session" /\ "session" \notin arming

(* A session in which the target was reached does not end before that has  *)
(* been announced, although its timer has not fired yet, unless the day    *)
(* was taken as announced before.                                          *)
LeavingTells ==
    [][Leave /\ on' = FALSE /\ Enough(rec) /\ roll.pc = "idle"
         => AnnouncedOn(day)' \/ TakenAsTold]_vars

(* A target reached in a session is announced while the session lasts,     *)
(* however often it was armed, disarmed, changed or rolled over.           *)
ReachedIsTold ==
    (on /\ Enough(rec)) ~> (AnnouncedOn(day) \/ TakenAsTold \/ ~on \/ ~Enough(rec))

(* What the source says of the reset at midnight: it is all that lets the  *)
(* next day be announced, since a condition that stays true has no edge.   *)
LatchMeansTold ==
    Latched /\ ~paused => AnnouncedOn(day) \/ taken # {} \/ excused = "midnight"
=============================================================================
