----------------------------- MODULE Onboarding -----------------------------
(***************************************************************************)
(* OnboardingTriggerService                                                *)
(* (backend/miloco/src/miloco/home_profile/onboarding_trigger.py) on top   *)
(* of the dispatcher: the owner of a fresh installation is invited once to *)
(* tell about the home.  The start-up task and every authorization call    *)
(* maybe_trigger(), which holds a lock until the dispatcher has answered   *)
(* for the turn, and records a delivered invitation in the KV table.  The  *)
(* process may stop or be killed at any moment and starts again.           *)
(*                                                                         *)
(* What the checks of the token, the home, the persons and the profile say *)
(* is left free: users change all four at any time.                        *)
(***************************************************************************)
EXTENDS Dispatcher, Sequences

CONSTANTS
    Invitation,   \* the onboarding events: each call makes one of its own
    NoInvitation

ASSUME InvitationAssumption ==
    /\ Invitation \subseteq Event
    /\ \A e \in Event : e \in Invitation <=> TypeOf[e] = "onboarding"
    /\ NoInvitation \notin Event

Caller == {"startup", "authorization"}

VARIABLES
    line,      \* _lock: who holds it, then who waits for it
    waits,     \* the invitation whose answer the holder awaits
    behind,    \* it was queued while another turn of its session ran
    up,        \* the process is running
    fired,     \* _fired
    flag,      \* ONBOARDING_PROMPTED_KEY is in the KV table
    here,      \* times the owner saw the invitation, from this process
    shown,     \* and from all processes: 2 is twice or more
    excuse     \* what went wrong that the code cannot see or does not mend

trigger == <<line, waits, behind, up, fired, flag>>
owner   == <<here, shown, excuse>>
allvars == <<vars, trigger, owner>>

(* "unrecorded": an invitation was made and could not be recorded;         *)
(* "unheard": a turn reported lost was seen; "unseen": a turn nobody saw   *)
(* was reported delivered, or nobody knows.                                *)
Excuse == {"unrecorded", "unheard", "unseen"}

OnboardingTypeOK ==
    /\ TypeOK
    /\ line \in Seq(Caller) /\ Len(line) <= Cardinality(Caller)
    /\ waits \in Invitation \cup {NoInvitation}
    /\ {behind, up, fired, flag} \subseteq BOOLEAN
    /\ here \in 0 .. 2 /\ shown \in here .. 2
    /\ excuse \subseteq Excuse

OnboardingInit ==
    /\ Init
    /\ line = <<>>
    /\ waits = NoInvitation
    /\ behind = FALSE /\ up = FALSE /\ fired = FALSE /\ flag = FALSE
    /\ here = 0 /\ shown = 0
    /\ excuse = {}

Twice(n) == IF n > 2 THEN 2 ELSE n

-----------------------------------------------------------------------------
(* The process starts; the start-up task, made before the server accepts   *)
(* requests, asks for the lock.                                            *)
Boot ==
    /\ ~up /\ up' = TRUE
    /\ line' = <<"startup">>
    /\ UNCHANGED <<vars, waits, behind, fired, flag, owner>>

(* An authorization asks for it.                                           *)
Call ==
    /\ up
    /\ \A i \in DOMAIN line : line[i] # "authorization"
    /\ line' = Append(line, "authorization")
    /\ UNCHANGED <<vars, waits, behind, up, fired, flag, owner>>

Entering == line # <<>> /\ waits = NoInvitation

Release == line' = Tail(line)

(* The holder has nothing to do: the trigger fired in this process, the    *)
(* flag is set, a condition is not met or its check raises.                *)
Skip ==
    /\ Entering
    /\ Release
    /\ UNCHANGED <<vars, waits, behind, up, fired, flag, owner>>

MayInvite == ~fired /\ ~flag

(* It dispatches an invitation, and waits only if the queue has taken it.  *)
Invite(e) ==
    /\ Entering
    /\ MayInvite
    /\ \/ Dispatch(e)
       \/ Refuse(e)
    /\ IF fut'[e] = "pending"
       THEN waits' = e /\ UNCHANGED line
       ELSE Release /\ UNCHANGED waits
    /\ behind' = FALSE
    /\ UNCHANGED <<up, fired, flag, owner>>

(* Mutants: any answer of the dispatcher sets the flag; only the flag      *)
(* remembers the invitation.                                               *)
Answered_WhateverItIs ==
    /\ waits # NoInvitation
    /\ fut[waits] \in {"sent", "dropped"}
    /\ fired' = TRUE
    /\ \E written \in BOOLEAN :
        /\ flag' = written
        /\ excuse' = IF written THEN excuse ELSE excuse \cup {"unrecorded"}
    /\ waits' = NoInvitation
    /\ Release
    /\ UNCHANGED <<vars, behind, up, here, shown>>

Answered_FlagOnly ==
    /\ waits # NoInvitation
    /\ fut[waits] \in {"sent", "dropped"}
    /\ IF fut[waits] = "sent"
       THEN \E written \in BOOLEAN :
                /\ flag' = written
                /\ excuse' = IF written THEN excuse ELSE excuse \cup {"unrecorded"}
       ELSE UNCHANGED <<flag, excuse>>
    /\ waits' = NoInvitation
    /\ Release
    /\ UNCHANGED <<vars, behind, up, fired, here, shown>>

(* The dispatcher answers: a delivered invitation is remembered, in the    *)
(* process and, unless the write fails, in the KV table.                   *)
Answered ==
    /\ waits # NoInvitation
    /\ fut[waits] \in {"sent", "dropped"}
    /\ IF fut[waits] = "sent"
       THEN /\ fired' = TRUE
            /\ \E written \in BOOLEAN :
                /\ flag' = written
                /\ excuse' = IF written THEN excuse ELSE excuse \cup {"unrecorded"}
       ELSE UNCHANGED <<fired, flag, excuse>>
    /\ waits' = NoInvitation
    /\ Release
    /\ UNCHANGED <<vars, behind, up, here, shown>>

(* Mutant: after the guard the next call invites again.                    *)
GuardExpires_NotFired ==
    /\ waits # NoInvitation
    /\ behind
    /\ GiveUp(waits)
    /\ excuse' = excuse \cup {"unrecorded", "unseen"}
    /\ waits' = NoInvitation
    /\ Release
    /\ UNCHANGED <<behind, up, fired, flag, here, shown>>

(* The guard of the wait expires first.  It outlasts the longest turn, so  *)
(* the invitation has been queued behind another one.  It is not taken     *)
(* back: it stays queued, or its turn runs on.                             *)
GuardExpires ==
    /\ waits # NoInvitation
    /\ behind
    /\ GiveUp(waits)
    /\ fired' = TRUE
    /\ excuse' = excuse \cup {"unrecorded", "unseen"}
    /\ waits' = NoInvitation
    /\ Release
    /\ UNCHANGED <<behind, up, flag, here, shown>>

-----------------------------------------------------------------------------
(* The dispatcher works on.                                                *)
Waiting ==
    behind' = (behind \/ /\ waits # NoInvitation
                         /\ waits \in queue'["main"]
                         /\ tasks'["main"] \ {{}} # {})

Dispatching ==
    /\ up
    /\ \/ \E e \in Event \ Invitation : Dispatch(e) \/ Refuse(e)
       \/ \E e \in Event : Age(e) \/ (e # waits /\ Forget(e))
       \/ \E s \in Session : StartDrain(s)
       \/ StopBegin
       \/ StopEnd
    /\ Waiting
    /\ UNCHANGED <<line, waits, up, fired, flag, owner>>

(* Whether the owner saw the invitation of batch b.  A turn that was       *)
(* reported delivered may have shown nothing yet, one that was lost may    *)
(* have been seen.                                                         *)
Witnessed(b, may, delivered) ==
    IF b \cap Invitation = {}
    THEN UNCHANGED owner
    ELSE \E seen \in may :
        /\ here'  = IF seen THEN Twice(here + 1) ELSE here
        /\ shown' = IF seen THEN Twice(shown + 1) ELSE shown
        /\ excuse' = excuse \cup
             (IF seen /\ ~delivered THEN {"unheard"} ELSE {}) \cup
             (IF ~seen /\ delivered THEN {"unseen"} ELSE {})

Seen(outcome) ==
    CASE outcome = "ok"                      -> {TRUE}
      [] outcome \in {"no-channel", "skipped"} -> {FALSE}
      [] OTHER                               -> BOOLEAN

TurnEnds ==
    /\ \E s \in Session : \E b \in tasks[s] :
        \/ \E o \in Outcome :
            /\ SendEnds(s, b, o)
            /\ Witnessed(b, Seen(o), o \in Delivered)
        \/ /\ DrainerDies(s, b) \/ Cancelled(s, b)
           /\ Witnessed(b, BOOLEAN, FALSE)
    /\ Waiting
    /\ UNCHANGED <<line, waits, up, fired, flag>>

(* The process ends, in order or not: only the KV table is left.  The      *)
(* platform may finish the turns that were in flight.                      *)
ProcessEnds ==
    /\ up
    /\ queue' = [s \in Session |-> {}]
    /\ arrived' = {} /\ stale' = {}
    /\ tasks' = [s \in Session |-> {}]
    /\ draining' = {}
    /\ closed' = FALSE /\ stopping' = FALSE
    /\ fut' = [e \in Event |-> "none"]
    /\ line' = <<>> /\ waits' = NoInvitation
    /\ behind' = FALSE /\ up' = FALSE /\ fired' = FALSE
    /\ here' = 0
    /\ \E e \in IF \E x \in Invitation : InFlight(x) THEN BOOLEAN ELSE {FALSE} :
        shown' = IF e THEN Twice(shown + 1) ELSE shown
    /\ excuse' = IF waits # NoInvitation THEN excuse \cup {"unrecorded"} ELSE excuse
    /\ UNCHANGED flag

OnboardingNext ==
    \/ Boot
    \/ Call
    \/ Skip
    \/ \E e \in Invitation : Invite(e)
    \/ Answered
    \/ GuardExpires
    \/ Dispatching
    \/ TurnEnds
    \/ ProcessEnds

(* Fairness: the dispatcher's, and the loop resumes a holder of the lock   *)
(* that is ready.  The timer of the guard is not needed.                   *)
OnboardingSpec ==
    /\ OnboardingInit
    /\ [][OnboardingNext]_allvars
    /\ Fairness
    /\ WF_allvars(Skip \/ \E e \in Invitation : Invite(e))
    /\ WF_allvars(Answered)

-----------------------------------------------------------------------------
(* A call that may invite finds no invitation queued or in flight, also    *)
(* after a guard that gave one up: two callers or a retry never greet the  *)
(* owner together.                                                         *)
OneInvitationOut ==
    /\ OnboardingTypeOK
    /\ Entering /\ MayInvite =>
          \A e \in Invitation : ~Queued(e) /\ ~InFlight(e)

(* One process shows the invitation once, although the flag could not be   *)
(* written or the guard expired, unless a turn reported lost was seen.     *)
(* Over restarts the owner sees it twice only when nobody could record the *)
(* first: the write failed, the guard expired, the process ended while it  *)
(* waited, or the turn was reported lost.                                  *)
InvitedOnce ==
    /\ here > 1 => "unheard" \in excuse
    /\ shown > 1 => excuse \ {"unseen"} # {}

(* The trigger falls silent only after the owner has seen the invitation,  *)
(* or after an answer that did not tell: a turn that timed out, a guard.   *)
NotSilencedInVain ==
    (fired \/ flag) /\ shown = 0 => "unseen" \in excuse

(* Every call returns, whatever becomes of the turn and without the guard: *)
(* the dispatcher's answer alone releases the lock.                        *)
CallsReturn ==
    \A c \in Caller :
        (\E i \in DOMAIN line : line[i] = c) ~> (\A i \in DOMAIN line : line[i] # c)

(* With restarts the dispatcher still implements its promise.              *)
KeepsPromise == D!PromiseOfLives

=============================================================================
