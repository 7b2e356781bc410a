------------------------ MODULE RecordSourceProofs ------------------------
(***************************************************************************)
(* Proofs about RecordSource for any targets and any number of minutes and *)
(* days.                                                                   *)
(***************************************************************************)
EXTENDS RecordSource, TLAPS

Committed == roll.pc \in {"rolled", "called"}

(* A task that is on is not paused, and only then is something armed for   *)
(* its session.                                                            *)
OnlyInSession ==
    /\ on => ~paused
    /\ ~on => timer # "session" /\ "session" \notin arming

(* The day a rollover takes care of is over, and the one it begins is that *)
(* of the wall clock; nothing has been announced for a day to come.        *)
Fresh ==
    /\ roll.pc = "read" => roll.from = day /\ day < date
    /\ Committed => roll.from \in Day /\ roll.from < day /\ day = date
    /\ \A d \in Day : d > day => told[d] = 0

(* A true condition has its reason.                                        *)
HasReason ==
    /\ LatchedIsTold
    /\ paused /\ cond => excused # "no"

(* What is known of the announcements begun on this date: if none was for  *)
(* today, they were late.                                                  *)
LogTells ==
    /\ log # {} => AnnouncedOn(day) \/ (day = date /\ "late" \in log)
    /\ log # {} /\ day # date => "late" \in log

(* What has been announced is remembered, as long as the rule exists and   *)
(* is not paused, of the day before until it is rolled over; a rollover    *)
(* that read a rule dropped since cannot tell.                             *)
MemoryOf(d) == AnnouncedOn(d) => cond \/ d \in forgot

Remembered ==
    /\ ~paused /\ HasRule => MemoryOf(day)
    /\ ~paused /\ HasRule /\ Committed /\ roll.target # 0 => MemoryOf(roll.from)
    /\ roll.pc # "idle" /\ roll.target # 0 /\ ~HasRule /\ AnnouncedOn(roll.from) => roll.from \in forgot

Inv ==
    /\ TypeOK
    /\ OnlyInSession
    /\ Fresh
    /\ HasReason
    /\ LogTells
    /\ Remembered
    /\ OncePerDay

-----------------------------------------------------------------------------
LEMMA DayType ==
  TypeOK => /\ day \in Nat /\ day >= 1 /\ date \in Nat /\ day <= date /\ date <= MaxDay /\ day \in Day
            /\ MaxDay \in Nat /\ MaxTarget \in Nat /\ MaxMinutes \in Nat
  BY RecordAssumption DEF TypeOK, Day

(* An announcement changes the count of its day alone, and is out.         *)
LEMMA AnnounceStep ==
  ASSUME TypeOK, NEW d \in Day, Announce(d)
  PROVE  /\ told' \in [Day -> 0 .. 2] /\ log' \subseteq Fire
         /\ told'[d] = IF told[d] = 0 THEN 1 ELSE 2
         /\ \A c \in Day : c # d => told'[c] = told[c]
         /\ log \subseteq log' /\ "out" \in log' /\ (d # date => "late" \in log')
  BY DEF Announce, TypeOK, Fire

(* What is fed to the condition.  It is announced only if it was not true  *)
(* before, in a session, and then remembered.                              *)
LEMMA FeedStep ==
  ASSUME Inv, NEW by \in {"session", "midnight"}, by = "session" => on,
         Enough(rec), FeedTrue(by)
  PROVE  /\ told' \in [Day -> 0 .. 2] /\ cond' \in BOOLEAN /\ log' \subseteq Fire
         /\ excused' \in {"no", "midnight", "paused"}
         /\ \A d \in Day : d # day => told'[d] = told[d]
         /\ told'[day] < 2 \/ day \in forgot
         /\ told[day] > 0 => told'[day] > 0
         /\ cond => cond'
         /\ paused => cond' = cond /\ excused' = excused
         /\ excused # "no" => excused' # "no"
         /\ cond' => cond \/ excused' # "no" \/ told'[day] > 0
         /\ ~paused => cond'
         /\ \/ told' = told /\ log' = log
            \/ /\ told'[day] > 0 /\ "out" \in log' /\ log \subseteq log'
               /\ day # date => "late" \in log'
<1>1. TypeOK /\ day \in Day /\ HasRule
  BY DayType DEF Inv, Enough, HasRule
<1>2. CASE paused
  BY <1>1, <1>2 DEF FeedTrue, heard, Inv, TypeOK, OncePerDay
<1>3. CASE ~paused /\ (cond \/ ~on)
  BY <1>1, <1>3 DEF FeedTrue, Inv, TypeOK, OncePerDay
<1>4. CASE ~paused /\ ~cond /\ on
  <2>1. Announce(day) /\ cond' = TRUE /\ excused' = excused
    BY <1>4 DEF FeedTrue
  <2>2. told[day] = 0 \/ day \in forgot
    BY <1>1, <1>4 DEF Inv, Remembered, MemoryOf, AnnouncedOn, TypeOK
  <2>3. told \in [Day -> 0 .. 2] /\ excused \in {"no", "midnight", "paused"}
    BY <1>1 DEF TypeOK
  <2>4. /\ told' \in [Day -> 0 .. 2] /\ log' \subseteq Fire
        /\ told'[day] = IF told[day] = 0 THEN 1 ELSE 2
        /\ \A c \in Day : c # day => told'[c] = told[c]
        /\ log \subseteq log' /\ "out" \in log' /\ (day # date => "late" \in log')
    BY <1>1, <2>1, AnnounceStep
  <2>5. told'[day] > 0 /\ (told'[day] < 2 \/ day \in forgot)
    BY <1>1, <2>2, <2>3, <2>4
  <2> QED
    BY <1>4, <2>1, <2>3, <2>4, <2>5
<1> QED
  BY <1>2, <1>3, <1>4

-----------------------------------------------------------------------------
(* The steps.  First what the source does, by the condition it feeds.      *)

LEMMA FedInv ==
  ASSUME Inv, NEW by \in {"session", "midnight"}, by = "session" => on,
         Enough(rec), FeedTrue(by),
         UNCHANGED <<rec, date, day, paused, roll, memory>>,
         on' \in BOOLEAN, on' => on,
         arming' \subseteq Round, timer' \in {"none", "session", "midnight"},
         ~on' => timer' # "session" /\ "session" \notin arming'
  PROVE  Inv'
<1>0. TypeOK /\ Committed' = Committed /\ day \in Day /\ HasRule'
  BY DayType DEF Inv, Committed, HasRule, Enough
<1>1. TypeOK'
  BY <1>0, FeedStep DEF TypeOK, memory
<1>2. OnlyInSession'
  BY DEF Inv, OnlyInSession
<1>3. \A d \in Day : d # day => told'[d] = told[d]
  BY FeedStep
<1>4. Fresh'
  BY <1>0, <1>3, DayType DEF Inv, Fresh, Day
<1>5. HasReason'
  <2>1. LatchedIsTold'
    <3> SUFFICES ASSUME cond', roll.pc \in {"idle", "read"}
                 PROVE  told'[day] > 0 \/ taken # {} \/ excused' # "no"
      BY DEF LatchedIsTold, Latched, AnnouncedOn, TakenAsTold, memory
    <3>1. cond => told[day] > 0 \/ taken # {} \/ excused # "no"
      BY DEF Inv, HasReason, LatchedIsTold, Latched, AnnouncedOn, TakenAsTold
    <3> QED
      BY <3>1, FeedStep
  <2>2. paused' /\ cond' => excused' # "no"
    BY FeedStep DEF Inv, HasReason
  <2> QED
    BY <2>1, <2>2 DEF HasReason
<1>6. LogTells'
  <2>1. CASE told' = told /\ log' = log
    BY <2>1 DEF Inv, LogTells, AnnouncedOn
  <2>2. CASE /\ told'[day] > 0 /\ "out" \in log' /\ log \subseteq log'
             /\ day # date => "late" \in log'
    BY <2>2 DEF LogTells, AnnouncedOn
  <2> QED
    BY <2>1, <2>2, FeedStep
<1>7. Remembered'
  <2>1. ~paused => cond'
    BY FeedStep
  <2> QED
    BY <1>0, <2>1 DEF Remembered, MemoryOf
<1>8. OncePerDay'
  BY <1>3, FeedStep DEF Inv, OncePerDay, memory
<1> QED
  BY <1>1, <1>2, <1>4, <1>5, <1>6, <1>7, <1>8 DEF Inv

(* A step that leaves the condition, the record, the days and the rollover *)
(* alone keeps the invariant if what it arms belongs to a session.         *)
LEMMA ArmedInv ==
  ASSUME Inv,
         UNCHANGED <<rec, date, day, paused, roll, heard, memory>>,
         on' \in BOOLEAN, on' => ~paused,
         arming' \subseteq Round, timer' \in {"none", "session", "midnight"},
         ~on' => timer' # "session" /\ "session" \notin arming'
  PROVE  Inv'
<1>1. TypeOK'
  BY DEF Inv, TypeOK, heard, memory
<1>2. OnlyInSession'
  BY DEF OnlyInSession
<1>3. Fresh' /\ HasReason' /\ OncePerDay'
  BY DEF Inv, Fresh, HasReason, OncePerDay, LatchedIsTold, Latched, TakenAsTold, AnnouncedOn,
         Committed, heard, memory
<1>4. LogTells' /\ Remembered'
  BY DEF Inv, LogTells, Remembered, MemoryOf, AnnouncedOn, Committed, HasRule, heard, memory
<1> QED
  BY <1>1, <1>2, <1>3, <1>4 DEF Inv

LEMMA SourceInv ==
  ASSUME Inv, (\E by \in Round : ArmRuns(by)) \/ TimerFires \/ Leave
  PROVE  Inv'
<1>0. /\ TypeOK /\ OnlyInSession
      /\ arming \subseteq Round /\ timer \in {"none", "session", "midnight"} /\ on \in BOOLEAN
      /\ on => ~paused
  BY DEF Inv, TypeOK, OnlyInSession
<1>1. ASSUME NEW by \in Round, ArmRuns(by) PROVE Inv'
  <2>1. /\ by \in arming /\ arming' = arming \ {by} /\ on' = on
        /\ UNCHANGED <<rec, date, day, paused, roll, memory>>
    BY <1>1 DEF ArmRuns
  <2>2. CASE by # "stale" /\ HasRule /\ Enough(rec)
    <3>1. by \in {"session", "midnight"} /\ (by = "session" => on)
      BY <1>0, <2>1, <2>2 DEF Round, OnlyInSession
    <3>2. FeedTrue(by) /\ timer' = "none"
      BY <1>1, <2>2 DEF ArmRuns, Look, RoundIsOver
    <3> QED
      BY <1>0, <2>1, <2>2, <3>1, <3>2, FedInv DEF OnlyInSession
  <2>3. CASE ~(by # "stale" /\ HasRule /\ Enough(rec))
    <3>1. UNCHANGED heard /\ (timer' = timer \/ (timer' = by /\ by # "stale"))
      BY <1>1, <2>3 DEF ArmRuns, Look, RoundIsOver
    <3>2. /\ timer' \in {"none", "session", "midnight"} /\ arming' \subseteq Round
          /\ ~on' => timer' # "session" /\ "session" \notin arming'
      BY <1>0, <2>1, <3>1 DEF OnlyInSession, Round
    <3> QED
      BY <1>0, <2>1, <3>1, <3>2, ArmedInv
  <2> QED
    BY <2>2, <2>3
<1>2. CASE TimerFires
  <2>1. /\ timer \in {"session", "midnight"} /\ arming' = arming /\ on' = on
        /\ UNCHANGED <<rec, date, day, paused, roll, memory>>
        /\ Look(timer)
    BY <1>0, <1>2 DEF TimerFires, RoundIsOver
  <2>2. CASE Enough(rec)
    BY <1>0, <2>1, <2>2, FedInv DEF Look, OnlyInSession
  <2>3. CASE ~Enough(rec)
    BY <1>0, <2>1, <2>3, ArmedInv DEF Look, OnlyInSession
  <2> QED
    BY <2>2, <2>3
<1>3. CASE Leave
  <2>1. /\ on /\ UNCHANGED <<rec, date, day, paused, roll, memory>>
        /\ \/ ~on' /\ on' = FALSE /\ timer' = "none" /\ arming' \subseteq {"stale"}
           \/ on' = on /\ arming' = arming /\ timer' = timer
    BY <1>3 DEF Leave, Disarm, Abandoned
  <2>2. /\ on' \in BOOLEAN /\ (on' => on) /\ arming' \subseteq Round
        /\ timer' \in {"none", "session", "midnight"}
        /\ ~on' => timer' # "session" /\ "session" \notin arming'
    BY <1>0, <2>1 DEF Round
  <2>3. CASE Enough(rec)
    BY <1>3, <2>1, <2>2, <2>3, FedInv DEF Leave, Settle
  <2>4. CASE ~Enough(rec)
    BY <1>0, <1>3, <2>1, <2>2, <2>4, ArmedInv DEF Leave, Settle
  <2> QED
    BY <2>3, <2>4
<1> QED
  BY <1>1, <1>2, <1>3

(* The session: it opens, is forced shut, or another edit arms again.      *)
LEMMA SessionInv ==
  ASSUME Inv, Enter \/ ForcedExit \/ Reconfigure
  PROVE  Inv'
<1>0. /\ TypeOK /\ OnlyInSession
      /\ arming \subseteq Round /\ timer \in {"none", "session", "midnight"} /\ on \in BOOLEAN
  BY DEF Inv, TypeOK, OnlyInSession
<1>1. UNCHANGED <<rec, date, day, paused, roll, heard, memory>>
  BY DEF Enter, ForcedExit, Reconfigure
<1>2. CASE Enter \/ Reconfigure
  <2>1. on' = TRUE /\ ~paused /\ timer' = timer /\ arming' \subseteq arming \cup {"session"}
    BY <1>0, <1>2 DEF Enter, Reconfigure, Arm, OnlyInSession
  <2> QED
    BY <1>0, <1>1, <2>1, ArmedInv DEF Round
<1>3. CASE ForcedExit
  <2>1. on' = FALSE /\ timer' = "none" /\ arming' \subseteq {"stale"}
    BY <1>3 DEF ForcedExit, Disarm, Abandoned
  <2> QED
    BY <1>1, <2>1, ArmedInv DEF Round
<1> QED
  BY <1>2, <1>3

(* The record counts; nothing else changes.                                *)
LEMMA CountingInv ==
  ASSUME Inv, Minute \/ SessionStart \/ SessionEnd
  PROVE  Inv'
<1>0. TypeOK
  BY DEF Inv
<1>1. /\ UNCHANGED <<date, day, on, paused, arming, timer, roll, heard, memory>>
      /\ rec' \in [target : 0 .. MaxTarget, acc : 0 .. MaxMinutes, kept : 0 .. MaxMinutes, counting : BOOLEAN]
      /\ rec'.target = rec.target
  <2>1. CASE Minute
    BY <1>0, <2>1, DayType DEF Minute, TypeOK
  <2>2. CASE SessionStart
    <3>1. PICK m \in rec.acc .. MaxMinutes : rec' = [rec EXCEPT !.acc = m, !.counting = TRUE]
      BY <2>2 DEF SessionStart
    <3>2. m \in 0 .. MaxMinutes
      BY <1>0, DayType DEF TypeOK
    <3> QED
      BY <1>0, <2>2, <3>1, <3>2 DEF SessionStart, TypeOK
  <2>3. CASE SessionEnd
    <3>1. PICK m \in rec.kept .. MaxMinutes :
            rec' = [rec EXCEPT !.acc = m, !.kept = m, !.counting = FALSE]
      BY <2>3 DEF SessionEnd
    <3>2. m \in 0 .. MaxMinutes
      BY <1>0, DayType DEF TypeOK
    <3> QED
      BY <1>0, <2>3, <3>1, <3>2 DEF SessionEnd, TypeOK
  <2> QED
    BY <2>1, <2>2, <2>3
<1>2. TypeOK'
  BY <1>0, <1>1 DEF TypeOK, heard, memory
<1>3. OnlyInSession' /\ Fresh'
  BY <1>1 DEF Inv, OnlyInSession, Fresh, Committed, heard
<1>4. HasReason' /\ OncePerDay'
  BY <1>1 DEF Inv, HasReason, OncePerDay, LatchedIsTold, Latched, TakenAsTold, AnnouncedOn, heard, memory
<1>5. LogTells' /\ Remembered'
  BY <1>1 DEF Inv, LogTells, Remembered, MemoryOf, AnnouncedOn, Committed, HasRule, heard, memory
<1> QED
  BY <1>2, <1>3, <1>4, <1>5 DEF Inv

(* An announcement ends, or the date does; only the log changes.           *)
LEMMA LogInv ==
  ASSUME Inv, FireEnds \/ Midnight
  PROVE  Inv'
<1>0. TypeOK
  BY DEF Inv
<1>1. UNCHANGED <<rec, day, on, paused, cond, arming, timer, roll, told, excused, memory>>
  BY DEF FireEnds, Midnight
<1>2. /\ Committed' = Committed /\ HasRule' = HasRule /\ \A d : AnnouncedOn(d)' <=> AnnouncedOn(d)
      /\ \A d : MemoryOf(d)' <=> MemoryOf(d)
  BY <1>1 DEF Committed, HasRule, AnnouncedOn, MemoryOf, memory
<1>3. OnlyInSession' /\ HasReason' /\ Remembered' /\ OncePerDay'
  BY <1>1, <1>2 DEF Inv, OnlyInSession, HasReason, Remembered, OncePerDay, LatchedIsTold, Latched,
                    TakenAsTold, AnnouncedOn, memory
<1>4. CASE FireEnds
  <2>1. /\ "out" \in log /\ date' = date
        /\ log' \in {log \cup {"row"}, (log \ {"out"}) \cup {"row"}, log \ {"out"}}
    BY <1>4 DEF FireEnds
  <2>2. log' \subseteq Fire /\ log # {} /\ ("late" \in log' <=> "late" \in log)
    BY <1>0, <2>1 DEF TypeOK, Fire
  <2>3. TypeOK'
    BY <1>0, <1>1, <2>1, <2>2 DEF TypeOK, memory
  <2>4. Fresh'
    BY <1>1, <1>2, <2>1 DEF Inv, Fresh
  <2>5. LogTells'
    BY <1>1, <1>2, <2>1, <2>2 DEF Inv, LogTells
  <2> QED
    BY <1>3, <2>3, <2>4, <2>5 DEF Inv
<1>5. CASE Midnight
  <2>1. date < MaxDay /\ roll.pc = "idle" /\ date' = date + 1 /\ log' = {}
    BY <1>5 DEF Midnight
  <2>2. date' \in Day /\ day \in 1 .. date' /\ day # date'
    BY <1>0, <2>1, DayType DEF Day
  <2>3. TypeOK'
    BY <1>0, <1>1, <2>1, <2>2 DEF TypeOK, memory, Fire
  <2>4. Fresh'
    BY <1>1, <1>2, <2>1 DEF Inv, Fresh, Committed
  <2>5. LogTells'
    BY <1>1, <2>1, <2>2 DEF LogTells
  <2> QED
    BY <1>3, <2>3, <2>4, <2>5 DEF Inv
<1> QED
  BY <1>4, <1>5

(* The memory of the condition is lost, and made up for from the record,   *)
(* or the day is marked as one that may be announced again.                *)
LEMMA SeedStep ==
  ASSUME TypeOK, NEW days, days \subseteq Nat, Seed(days)
  PROVE  /\ cond' = Enough(rec) /\ cond' \in BOOLEAN
         /\ taken' \subseteq {"record", "row"}
         /\ cond' => taken' # {}
         /\ taken \subseteq taken'
         /\ forgot' \subseteq forgot \cup days
         /\ forgot \subseteq forgot'
         /\ \A d \in days : HasRule /\ ~Enough(rec) /\ AnnouncedOn(d) => d \in forgot'
  BY DEF Seed, Forgets, Enough, TypeOK

LEMMA RollDays ==
  ASSUME Inv
  PROVE  /\ BeingRolled \subseteq Day
         /\ roll.pc # "idle" => BeingRolled = {roll.from}
         /\ roll.pc \in {"idle", "read", "rolled", "called"}
         /\ day \in Day
<1>1. TypeOK /\ day \in Day /\ roll.pc \in {"idle", "read", "rolled", "called"}
  BY DayType DEF Inv, TypeOK
<1> QED
  BY <1>1 DEF Inv, Fresh, BeingRolled, Committed

LEMMA RestartInv ==
  ASSUME Inv, Restart
  PROVE  Inv'
<1>0. TypeOK /\ day \in Day /\ {day} \subseteq Nat
  BY DayType DEF Inv
<1>1. /\ on' = FALSE /\ arming' = {} /\ timer' = "none" /\ roll' = Idle
      /\ UNCHANGED <<rec, date, day, paused, told>>
      /\ excused' = IF paused /\ Enough(rec) THEN "paused" ELSE "no"
      /\ Seed({day})
      /\ log' = log \ {"out"}
  BY DEF Restart
<1>2. /\ cond' = Enough(rec) /\ cond' \in BOOLEAN /\ taken' \subseteq {"record", "row"}
      /\ cond' => taken' # {}
      /\ forgot' \subseteq forgot \cup {day} /\ forgot \subseteq forgot'
      /\ HasRule /\ ~Enough(rec) /\ AnnouncedOn(day) => day \in forgot'
  BY <1>0, <1>1, SeedStep
<1>3. roll' \in [pc : {"idle", "read", "rolled", "called"}, from : 0 .. MaxDay,
                 target : 0 .. MaxTarget, acc : 0 .. MaxMinutes]
  BY <1>0, <1>1, DayType DEF Idle
<1>4. TypeOK'
  BY <1>0, <1>1, <1>2, <1>3 DEF TypeOK, Fire
<1>5. roll'.pc = "idle" /\ ~Committed' /\ HasRule' = HasRule
  BY <1>1 DEF Committed, Idle, HasRule
<1>6. OnlyInSession' /\ Fresh'
  BY <1>1, <1>5 DEF Inv, OnlyInSession, Fresh
<1>7. HasReason'
  BY <1>1, <1>2 DEF HasReason, LatchedIsTold, Latched, TakenAsTold
<1>8. LogTells'
  BY <1>1 DEF Inv, LogTells, AnnouncedOn
<1>9. Remembered'
  BY <1>1, <1>2, <1>5 DEF Remembered, MemoryOf, AnnouncedOn
<1>10. OncePerDay'
  BY <1>1, <1>2 DEF Inv, OncePerDay
<1> QED
  BY <1>4, <1>6, <1>7, <1>8, <1>9, <1>10 DEF Inv

LEMMA ResumeInv ==
  ASSUME Inv, Resume
  PROVE  Inv'
<1>0. /\ TypeOK /\ day \in Day /\ BeingRolled \subseteq Day
      /\ roll.pc # "idle" => BeingRolled = {roll.from}
  BY RollDays DEF Inv
<1>1. paused /\ paused' = FALSE /\ UNCHANGED <<rec, date, day, on, arming, timer, roll, told, excused, log>>
  BY DEF Resume
<1>2. Committed' = Committed /\ HasRule' = HasRule
  BY <1>1 DEF Committed, HasRule
<1>3. OnlyInSession' /\ Fresh' /\ LogTells'
  BY <1>1, <1>2 DEF Inv, OnlyInSession, Fresh, LogTells, AnnouncedOn
<1>4. CASE HasRule /\ ~cond
  <2>1. Seed({day} \cup BeingRolled) /\ {day} \cup BeingRolled \subseteq Nat
    BY <1>0, <1>4 DEF Resume, Day
  <2>2. /\ cond' = Enough(rec) /\ cond' \in BOOLEAN /\ taken' \subseteq {"record", "row"}
        /\ cond' => taken' # {}
        /\ forgot' \subseteq forgot \cup {day} \cup BeingRolled /\ forgot \subseteq forgot'
        /\ \A d \in {day} \cup BeingRolled : ~Enough(rec) /\ AnnouncedOn(d) => d \in forgot'
    BY <1>0, <1>4, <2>1, SeedStep
  <2>3. TypeOK'
    BY <1>0, <1>1, <2>2 DEF TypeOK
  <2>4. HasReason'
    BY <1>1, <2>2 DEF HasReason, LatchedIsTold, Latched, TakenAsTold
  <2>5. Remembered'
    BY <1>0, <1>1, <1>2, <1>4, <2>2 DEF Remembered, MemoryOf, AnnouncedOn, Committed
  <2>6. OncePerDay'
    BY <1>1, <2>2 DEF Inv, OncePerDay
  <2> QED
    BY <1>3, <2>3, <2>4, <2>5, <2>6 DEF Inv
<1>5. CASE ~(HasRule /\ ~cond)
  <2>1. UNCHANGED <<cond, memory>>
    BY <1>5 DEF Resume
  <2>2. TypeOK'
    BY <1>0, <1>1, <2>1 DEF TypeOK, memory
  <2>3. HasReason' /\ OncePerDay'
    BY <1>1, <2>1 DEF Inv, HasReason, OncePerDay, LatchedIsTold, Latched, TakenAsTold, AnnouncedOn, memory
  <2>4. Remembered'
    BY <1>1, <1>2, <1>5, <2>1 DEF Inv, Remembered, MemoryOf, AnnouncedOn, memory
  <2> QED
    BY <1>3, <2>2, <2>3, <2>4 DEF Inv
<1> QED
  BY <1>4, <1>5

LEMMA PauseInv ==
  ASSUME Inv, Pause
  PROVE  Inv'
<1>0. TypeOK
  BY DEF Inv
<1>1. /\ paused' = TRUE /\ on' = FALSE /\ cond' = FALSE /\ excused' = "no"
      /\ timer' = "none" /\ arming' \subseteq {"stale"}
      /\ UNCHANGED <<date, day, roll, told, log, memory>>
      /\ rec' \in [target : 0 .. MaxTarget, acc : 0 .. MaxMinutes, kept : 0 .. MaxMinutes, counting : BOOLEAN]
      /\ rec'.target = rec.target
  BY <1>0 DEF Pause, Disarm, Abandoned, TypeOK
<1>2. Committed' = Committed /\ HasRule' = HasRule
  BY <1>1 DEF Committed, HasRule
<1>3. TypeOK'
  BY <1>0, <1>1 DEF TypeOK, Round, memory
<1>4. OnlyInSession' /\ Fresh' /\ LogTells'
  BY <1>1, <1>2 DEF Inv, OnlyInSession, Fresh, LogTells, AnnouncedOn
<1>5. HasReason' /\ Remembered' /\ OncePerDay'
  BY <1>1, <1>2 DEF Inv, HasReason, LatchedIsTold, Latched, Remembered, AnnouncedOn, OncePerDay, memory
<1> QED
  BY <1>3, <1>4, <1>5 DEF Inv

(* A change of the target, with which the rule may come and go.            *)
LEMMA TargetInv ==
  ASSUME Inv, NEW t \in 0 .. MaxTarget, SetTarget(t)
  PROVE  Inv'
<1>0. /\ TypeOK /\ BeingRolled \subseteq Day /\ day \in Day
      /\ roll.pc # "idle" => BeingRolled = {roll.from}
  BY RollDays DEF Inv
<1>1. /\ UNCHANGED <<date, day, on, paused, roll, told, log>>
      /\ rec' \in [target : 0 .. MaxTarget, acc : 0 .. MaxMinutes, kept : 0 .. MaxMinutes, counting : BOOLEAN]
      /\ rec'.target = t
      /\ HasRule' <=> t # 0
  BY <1>0 DEF SetTarget, TypeOK, HasRule
<1>2. /\ Committed' = Committed /\ Fresh' /\ LogTells'
      /\ \A d : AnnouncedOn(d)' <=> AnnouncedOn(d)
  BY <1>1 DEF Committed, Inv, Fresh, LogTells, AnnouncedOn
<1>3. CASE t = 0
  <2>1. /\ cond' = FALSE /\ arming' = {} /\ timer' = "none" /\ excused' = "no"
        /\ forgot' = forgot \cup {d \in BeingRolled : AnnouncedOn(d)} /\ taken' = taken
    BY <1>3 DEF SetTarget, Forgets
  <2>2. TypeOK' /\ OnlyInSession'
    BY <1>0, <1>1, <2>1 DEF Inv, TypeOK, OnlyInSession
  <2>3. HasReason' /\ OncePerDay'
    BY <1>1, <2>1 DEF Inv, HasReason, LatchedIsTold, Latched, OncePerDay
  <2>4. Remembered'
    BY <1>0, <1>1, <1>2, <1>3, <2>1 DEF Remembered
  <2> QED
    BY <1>2, <2>2, <2>3, <2>4 DEF Inv
<1>4. CASE t # 0 /\ ~HasRule
  <2>1. /\ cond' = ("row" \in log)
        /\ excused' = IF paused /\ "row" \in log THEN "paused" ELSE "no"
        /\ taken' = IF "row" \in log /\ day = date /\ "late" \in log THEN taken \cup {"row"} ELSE taken
        /\ forgot' = IF "row" \in log THEN forgot ELSE forgot \cup {d \in {day} : AnnouncedOn(d)}
        /\ arming' = arming \/ (on /\ arming' = arming \cup {"session"})
        /\ timer' = timer
    BY <1>1, <1>4 DEF SetTarget, Arm, NotifiedToday, Unlogged, Forgets
  <2>2. /\ taken' \subseteq {"record", "row"} /\ forgot' \subseteq Day /\ cond' \in BOOLEAN
        /\ excused' \in {"no", "midnight", "paused"} /\ arming' \subseteq Round
        /\ forgot \subseteq forgot'
    <3>1. forgot' \subseteq Day /\ forgot \subseteq forgot'
      BY <1>0, <2>1 DEF TypeOK
    <3>2. arming' \subseteq Round
      BY <1>0, <2>1 DEF TypeOK, Round
    <3>3. taken' \subseteq {"record", "row"}
      BY <1>0, <2>1 DEF TypeOK
    <3>4. cond' \in BOOLEAN /\ excused' \in {"no", "midnight", "paused"}
      BY <2>1
    <3> QED
      BY <3>1, <3>2, <3>3, <3>4
  <2>3. TypeOK' /\ OnlyInSession'
    BY <1>0, <1>1, <2>1, <2>2 DEF Inv, TypeOK, OnlyInSession
  <2>4. HasReason'
    <3>1. "row" \in log => AnnouncedOn(day) \/ (day = date /\ "late" \in log)
      BY DEF Inv, LogTells
    <3> QED
      BY <1>1, <1>2, <2>1, <3>1 DEF HasReason, LatchedIsTold, Latched, TakenAsTold
  <2>5. AnnouncedOn(day) => cond' \/ day \in forgot'
    BY <1>0, <2>1
  <2>6. Remembered'
    <3>1. MemoryOf(day)'
      BY <1>1, <1>2, <2>5 DEF MemoryOf
    <3>2. Committed /\ roll.target # 0 /\ AnnouncedOn(roll.from) => roll.from \in forgot'
      BY <1>4, <2>2 DEF Inv, Remembered, Committed
    <3> QED
      BY <1>1, <1>2, <1>4, <3>1, <3>2 DEF Remembered, MemoryOf
  <2>7. OncePerDay'
    BY <1>1, <2>2 DEF Inv, OncePerDay
  <2> QED
    BY <1>2, <2>3, <2>4, <2>6, <2>7 DEF Inv
<1>5. CASE t # 0 /\ HasRule
  <2>1. /\ UNCHANGED <<cond, timer, excused, memory>>
        /\ arming' = arming \/ (on /\ arming' = arming \cup {"session"})
    BY <1>1, <1>5 DEF SetTarget, Arm
  <2>2. arming' \subseteq Round
    BY <1>0, <2>1 DEF TypeOK, Round
  <2>3. TypeOK' /\ OnlyInSession'
    BY <1>0, <1>1, <2>1, <2>2 DEF Inv, TypeOK, OnlyInSession, memory
  <2>4. HasReason' /\ OncePerDay'
    BY <1>1, <2>1 DEF Inv, HasReason, OncePerDay, LatchedIsTold, Latched, TakenAsTold, AnnouncedOn, memory
  <2>5. Remembered'
    BY <1>1, <1>2, <1>5, <2>1 DEF Inv, Remembered, MemoryOf, memory
  <2> QED
    BY <1>2, <2>3, <2>4, <2>5 DEF Inv
<1> QED
  BY <1>3, <1>4, <1>5

(* The rollover, whose commit begins a day nothing is known of.            *)
LEMMA RolloverInv ==
  ASSUME Inv, RolloverReads \/ RolloverStep
  PROVE  Inv'
<1>0. TypeOK /\ day \in Day
  BY DayType DEF Inv
<1>1. CASE RolloverReads
  <2>1. /\ roll' = [pc |-> "read", from |-> day, target |-> rec.target, acc |-> rec.acc]
        /\ roll.pc = "idle" /\ day < date
        /\ UNCHANGED <<rec, date, day, on, paused, arming, timer, heard, memory>>
    BY <1>1 DEF RolloverReads
  <2>2. ~Committed /\ ~Committed' /\ HasRule' = HasRule
    BY <2>1 DEF Committed, HasRule
  <2>3. TypeOK'
    BY <1>0, <2>1, DayType DEF TypeOK, heard, memory
  <2>4. OnlyInSession' /\ Fresh'
    BY <2>1, <2>2 DEF Inv, OnlyInSession, Fresh, heard
  <2>5. HasReason' /\ LogTells' /\ OncePerDay'
    BY <2>1 DEF Inv, HasReason, LogTells, LatchedIsTold, Latched, TakenAsTold, OncePerDay, AnnouncedOn,
                heard, memory
  <2>6. Remembered'
    BY <2>1, <2>2 DEF Inv, Remembered, MemoryOf, AnnouncedOn, HasRule, heard, memory
  <2> QED
    BY <2>3, <2>4, <2>5, <2>6 DEF Inv
<1>2. CASE RolloverOne
  <2>1. UNCHANGED <<date, on, paused, arming, timer, heard, forgot>> /\ roll.pc = "read"
    BY <1>2 DEF RolloverOne
  <2>2. CASE roll' = Idle /\ UNCHANGED <<rec, day, taken>>
    <3>1. ~Committed /\ ~Committed' /\ HasRule' = HasRule /\ roll'.pc = "idle"
      BY <2>1, <2>2 DEF Committed, HasRule, Idle
    <3>2. TypeOK'
      BY <1>0, <2>1, <2>2, DayType DEF TypeOK, heard, Idle
    <3>3. OnlyInSession' /\ Fresh'
      BY <2>1, <2>2, <3>1 DEF Inv, OnlyInSession, Fresh, heard
    <3>4. HasReason' /\ LogTells' /\ OncePerDay'
      BY <2>1, <2>2, <3>1 DEF Inv, HasReason, LogTells, LatchedIsTold, Latched, TakenAsTold, OncePerDay,
                              AnnouncedOn, heard
    <3>5. Remembered'
      BY <2>1, <2>2, <3>1 DEF Inv, Remembered, MemoryOf, AnnouncedOn, heard
    <3> QED
      BY <3>2, <3>3, <3>4, <3>5 DEF Inv
  <2>3. CASE /\ rec' = [rec EXCEPT !.acc = 0, !.kept = 0] /\ day' = date /\ taken' = {}
             /\ roll' = [roll EXCEPT !.pc = "rolled"]
    <3>1. roll.from = day /\ day < date /\ date \in Day
      BY <1>0, <2>1 DEF Inv, Fresh, TypeOK
    <3>2. /\ roll'.pc = "rolled" /\ roll'.target = roll.target /\ roll'.from = day
          /\ rec'.target = rec.target
      BY <1>0, <2>3, <3>1 DEF TypeOK
    <3>3. Committed' /\ HasRule' = HasRule
      BY <3>2 DEF Committed, HasRule
    <3>4. TypeOK'
      <4>1. date \in 1 .. date /\ 0 \in 0 .. MaxMinutes
        BY <1>0, <3>1, DayType DEF Day
      <4>2. /\ rec' \in [target : 0 .. MaxTarget, acc : 0 .. MaxMinutes, kept : 0 .. MaxMinutes, counting : BOOLEAN]
            /\ roll' \in [pc : {"idle", "read", "rolled", "called"}, from : 0 .. MaxDay,
                          target : 0 .. MaxTarget, acc : 0 .. MaxMinutes]
        BY <1>0, <2>3, <4>1 DEF TypeOK
      <4> QED
        BY <1>0, <2>1, <2>3, <3>1, <4>1, <4>2 DEF TypeOK, heard
    <3>5. OnlyInSession'
      BY <2>1 DEF Inv, OnlyInSession
    <3>6. told'[date] = 0 /\ told' = told
      BY <2>1, <3>1 DEF Inv, Fresh, heard
    <3>7. Fresh'
      BY <1>0, <2>1, <2>3, <3>1, <3>2, <3>6, DayType DEF Inv, Fresh, Day
    <3>8. HasReason'
      BY <2>1, <3>2 DEF Inv, HasReason, LatchedIsTold, Latched, heard
    <3>9. LogTells'
      BY <2>1, <2>3, <3>1, <3>6 DEF Inv, LogTells, AnnouncedOn, heard
    <3>10. Remembered'
      BY <2>1, <2>3, <3>1, <3>2, <3>3, <3>6 DEF Inv, Remembered, MemoryOf, AnnouncedOn, heard
    <3>11. OncePerDay'
      BY <2>1, <3>6 DEF Inv, OncePerDay
    <3> QED
      BY <3>4, <3>5, <3>7, <3>8, <3>9, <3>10, <3>11 DEF Inv
  <2> QED
    BY <1>2, <2>2, <2>3 DEF RolloverOne
<1>3. CASE CrossDay
  <2>1. /\ roll' = [roll EXCEPT !.pc = "called"] /\ roll.pc = "rolled"
        /\ UNCHANGED <<rec, date, day, on, paused, arming, timer, heard, memory>>
    BY <1>3 DEF CrossDay
  <2>2. roll'.pc = "called" /\ roll'.target = roll.target /\ roll'.from = roll.from
    BY <1>0, <2>1 DEF TypeOK
  <2>3. Committed /\ Committed' /\ HasRule' = HasRule
    BY <2>1, <2>2 DEF Committed, HasRule
  <2>4. TypeOK'
    BY <1>0, <2>1 DEF TypeOK, heard, memory
  <2>5. OnlyInSession' /\ Fresh'
    BY <2>1, <2>2, <2>3 DEF Inv, OnlyInSession, Fresh, heard
  <2>6. HasReason' /\ LogTells' /\ OncePerDay'
    BY <2>1, <2>2 DEF Inv, HasReason, LogTells, LatchedIsTold, Latched, OncePerDay, AnnouncedOn, heard, memory
  <2>7. Remembered'
    BY <2>1, <2>2, <2>3 DEF Inv, Remembered, MemoryOf, AnnouncedOn, heard, memory
  <2> QED
    BY <2>4, <2>5, <2>6, <2>7 DEF Inv
<1>4. CASE RollOver
  <2>1. /\ roll' = Idle /\ roll'.pc = "idle" /\ roll.pc = "called" /\ Committed /\ ~Committed'
        /\ UNCHANGED <<rec, date, day, on, paused, taken>>
        /\ HasRule' = HasRule
        /\ IF paused THEN UNCHANGED <<cond, excused, forgot>>
           ELSE cond' = FALSE /\ excused' = "no" /\ forgot' = forgot \cup {d \in {day} : AnnouncedOn(d)}
        /\ timer' = "none"
        /\ arming' \subseteq {"stale", "midnight"} \cup (IF on THEN {"session"} ELSE {})
    BY <1>4 DEF RollOver, Committed, Idle, Abandoned, HasRule, Forgets
  <2>2. roll.from \in Day /\ roll.from # day /\ roll.from < day /\ day = date
    BY <1>0, <2>1, DayType DEF Inv, Fresh, Day
  <2>3. /\ told' \in [Day -> 0 .. 2] /\ log' \subseteq Fire
        /\ \A d \in Day : d # roll.from => told'[d] = told[d]
        /\ told'[roll.from] < 2 \/ roll.from \in forgot
        /\ log \subseteq log'
        /\ log' # log => "late" \in log' /\ "out" \in log'
    <3>1. CASE ~Honoured
      BY <1>0, <1>4, <2>2, <3>1 DEF RollOver, TypeOK, Inv, OncePerDay
    <3>2. CASE Honoured
      <4>1. Announce(roll.from)
        BY <1>4, <3>2 DEF RollOver
      <4>2. told[roll.from] = 0 \/ roll.from \in forgot
        BY <1>0, <2>1, <2>2, <3>2 DEF Honoured, Enough, Inv, Remembered, MemoryOf, AnnouncedOn, TypeOK
      <4> QED
        BY <1>0, <2>2, <4>1, <4>2, AnnounceStep
    <3> QED
      BY <3>1, <3>2
  <2>4. TypeOK'
    <3>1. /\ arming' \subseteq Round /\ cond' \in BOOLEAN /\ excused' \in {"no", "midnight", "paused"}
          /\ forgot' \subseteq Day
      BY <1>0, <2>1 DEF TypeOK, Round
    <3>2. roll' \in [pc : {"idle", "read", "rolled", "called"}, from : 0 .. MaxDay,
                     target : 0 .. MaxTarget, acc : 0 .. MaxMinutes]
      BY <1>0, <2>1, DayType DEF Idle
    <3> QED
      BY <1>0, <2>1, <2>3, <3>1, <3>2 DEF TypeOK
  <2>5. OnlyInSession'
    BY <2>1 DEF Inv, OnlyInSession
  <2>6. told'[day] = told[day]
    BY <1>0, <2>2, <2>3
  <2>7. Fresh'
    BY <1>0, <2>1, <2>2, <2>3, DayType DEF Inv, Fresh, Day
  <2>8. HasReason'
    BY <2>1 DEF Inv, HasReason, LatchedIsTold, Latched, TakenAsTold
  <2>9. LogTells'
    BY <2>1, <2>2, <2>3, <2>6 DEF Inv, LogTells, AnnouncedOn
  <2>10. Remembered'
    BY <2>1, <2>6 DEF Inv, Remembered, MemoryOf, AnnouncedOn
  <2>11. forgot \subseteq forgot'
    BY <2>1
  <2>12. OncePerDay'
    BY <1>0, <2>2, <2>3, <2>11 DEF Inv, OncePerDay
  <2> QED
    BY <2>4, <2>5, <2>7, <2>8, <2>9, <2>10, <2>12 DEF Inv
<1> QED
  BY <1>1, <1>2, <1>3, <1>4 DEF RolloverStep

-----------------------------------------------------------------------------
(* The inductive invariant.                                                *)
LEMMA NextInv ==
  ASSUME Inv, [Next]_vars
  PROVE  Inv'
<1>1. CASE UNCHANGED vars
  <2>1. TypeOK' /\ OnlyInSession' /\ Fresh'
    BY <1>1 DEF vars, heard, memory, Inv, TypeOK, OnlyInSession, Fresh, Committed
  <2>2. HasReason' /\ LogTells' /\ OncePerDay'
    BY <1>1 DEF vars, heard, memory, Inv, HasReason, LogTells, LatchedIsTold, Latched, TakenAsTold, OncePerDay,
                AnnouncedOn
  <2>3. Remembered'
    BY <1>1 DEF vars, heard, memory, Inv, Remembered, MemoryOf, AnnouncedOn, HasRule, Committed
  <2> QED
    BY <2>1, <2>2, <2>3 DEF Inv
<1> QED
  BY <1>1, SourceInv, SessionInv, CountingInv, LogInv, RestartInv, ResumeInv, PauseInv, TargetInv, RolloverInv
     DEF Next, SourceStep

(* The inductive invariant holds: what was announced is remembered by the  *)
(* condition or marked as forgotten (runner.py:394, service.py:639), and   *)
(* the log of this date tells whether today is among it (service.py:1526). *)
THEOREM RecordInvariance == Spec => []Inv
<1>1. Init => Inv
  <2> SUFFICES ASSUME Init PROVE Inv
    OBVIOUS
  <2>1. /\ roll.pc = "idle" /\ cond = FALSE /\ on = FALSE /\ timer = "none" /\ arming = {} /\ day = 1
        /\ \A d \in Day : told[d] = 0
        /\ log = {} /\ 1 \in Day
    BY RecordAssumption DEF Init, Idle, Day
  <2>2. TypeOK
    <3>1. /\ 1 \in Day /\ {0} \subseteq 0 .. MaxMinutes /\ 0 \in 0 .. MaxTarget /\ 0 \in 0 .. MaxMinutes
          /\ 0 \in 0 .. MaxDay
      BY RecordAssumption DEF Day
    <3>2. rec \in [target : 0 .. MaxTarget, acc : 0 .. MaxMinutes, kept : 0 .. MaxMinutes, counting : BOOLEAN]
      BY <3>1 DEF Init
    <3>3. roll \in [pc : {"idle", "read", "rolled", "called"}, from : 0 .. MaxDay,
                    target : 0 .. MaxTarget, acc : 0 .. MaxMinutes]
      BY <3>1 DEF Init, Idle
    <3>4. told \in [Day -> 0 .. 2]
      BY DEF Init
    <3>5. day \in 1 .. date /\ date \in Day
      BY <3>1 DEF Init
    <3>6. {on, paused, cond} \subseteq BOOLEAN /\ arming \subseteq Round /\ log \subseteq Fire
      BY DEF Init
    <3> QED
      BY <3>2, <3>3, <3>4, <3>5, <3>6 DEF Init, TypeOK
  <2>3. OnlyInSession /\ Fresh
    BY <2>1 DEF OnlyInSession, Fresh, Committed
  <2>4. HasReason
    BY <2>1 DEF HasReason, LatchedIsTold, Latched
  <2>5. ~AnnouncedOn(day) /\ OncePerDay
    BY <2>1 DEF AnnouncedOn, OncePerDay
  <2>6. Remembered /\ LogTells
    BY <2>1, <2>5 DEF Remembered, MemoryOf, Committed, LogTells
  <2> QED
    BY <2>2, <2>3, <2>4, <2>5, <2>6 DEF Inv
<1>2. Inv /\ [Next]_vars => Inv'
  BY NextInv
<1> QED
  BY <1>1, <1>2, PTL DEF Spec

(* Of a day one announcement is made, however often its target is changed  *)
(* and whatever timers, pauses and restarts find it reached, unless its    *)
(* memory was lost in one of the ways OncePerDay names: among them a rule  *)
(* made anew (service.py:1759) while the row of its announcement is not    *)
(* written yet, or was never, or is dated yesterday.                       *)
THEOREM AnnouncedOnce == Spec => []OncePerDay
<1>1. Inv => OncePerDay
  BY DEF Inv
<1> QED
  BY <1>1, RecordInvariance, PTL

(* A true condition means that the day was announced, or why not: taken    *)
(* from its record, taken from the row of an announcement that was late,   *)
(* or excused.                                                             *)
THEOREM LatchExplained == Spec => []LatchedIsTold
<1>1. Inv => LatchedIsTold
  BY DEF Inv, HasReason
<1> QED
  BY <1>1, RecordInvariance, PTL

(* Neither arms nor timers of a session outlive it.                        *)
THEOREM DisarmedWhenOff == Spec => []OffIsDisarmed
<1>1. Inv => OffIsDisarmed
  BY DEF Inv, OnlyInSession, OffIsDisarmed
<1> QED
  BY <1>1, RecordInvariance, PTL

(* A session whose target is reached announces it before it ends.          *)
THEOREM LeavingAnnounces == Spec => LeavingTells
<1>1. ASSUME Inv, [Next]_vars
      PROVE  [Leave /\ on' = FALSE /\ Enough(rec) /\ roll.pc = "idle"
                => AnnouncedOn(day)' \/ TakenAsTold]_vars
  <2> SUFFICES ASSUME Leave, Enough(rec), roll.pc = "idle", ~TakenAsTold
               PROVE  AnnouncedOn(day)'
    OBVIOUS
  <2>1. on /\ FeedTrue("session") /\ ~paused /\ UNCHANGED day
    BY <1>1 DEF Leave, Settle, Inv, OnlyInSession
  <2>2. CASE cond
    <3>1. AnnouncedOn(day)
      BY <1>1, <2>2 DEF Inv, HasReason, LatchedIsTold, Latched
    <3> QED
      BY <1>1, <2>1, <3>1, FeedStep DEF AnnouncedOn
  <2>3. CASE ~cond
    <3>1. cond' /\ (cond' => excused' # "no" \/ told'[day] > 0)
      BY <1>1, <2>1, <2>3, FeedStep
    <3>2. excused' = "no"
      BY <1>1, <2>1 DEF FeedTrue, TakenAsTold, heard
    <3> QED
      BY <2>1, <3>1, <3>2 DEF AnnouncedOn
  <2> QED
    BY <2>2, <2>3
<1>2. [][Leave /\ on' = FALSE /\ Enough(rec) /\ roll.pc = "idle"
           => AnnouncedOn(day)' \/ TakenAsTold]_vars <=> LeavingTells
  BY DEF LeavingTells
<1> QED
  BY <1>1, <1>2, RecordInvariance, PTL DEF Spec
=============================================================================
