-------------------------- MODULE OnboardingProofs --------------------------
(***************************************************************************)
(* Proofs about Onboarding for every number of invitations and of other    *)
(* messages, over any number of restarts.  The dispatcher's part of the    *)
(* invariant is the one of DispatcherProofs, whose steps are those of this *)
(* module but for the restart, which leads back to its initial states.     *)
(***************************************************************************)
EXTENDS Onboarding, DispatcherProofs

(* One invitation is out at a time: the one the holder of the lock awaits, *)
(* or one its guard has given up, which the process remembers.             *)
Alone ==
    /\ \A e, f \in Invitation : Out(e) /\ Out(f) => e = f
    /\ \A e \in Invitation : Out(e) =>
        \/ e = waits /\ fut[e] = "pending"
        \/ fut[e] = "cancelled" /\ fired /\ "unrecorded" \in excuse

NoneOut == \A e \in Invitation : ~Out(e)
Told == waits # NoInvitation /\ fut[waits] = "sent"

(* Once the owner has seen the invitation nothing more is on its way, and  *)
(* the process knows, or is about to.                                      *)
SeenHere ==
    "unheard" \notin excuse =>
        here = 0 \/ (here = 1 /\ NoneOut /\ (fired \/ Told))

(* The same of all processes, as long as nothing kept them from recording. *)
SeenEver ==
    excuse \subseteq {"unseen"} =>
        shown = 0 \/ (shown = 1 /\ NoneOut /\ (flag \/ Told))

Line ==
    /\ line \in Seq(Caller)
    /\ \A i, j \in 1 .. Len(line) : line[i] = line[j] => i = j
    /\ waits # NoInvitation => line # <<>>

Memory ==
    /\ waits \in Invitation \cup {NoInvitation}
    /\ behind \in BOOLEAN /\ up \in BOOLEAN /\ fired \in BOOLEAN /\ flag \in BOOLEAN
    /\ here \in 0 .. 2 /\ shown \in 0 .. 2 /\ here <= shown
    /\ excuse \subseteq Excuse

OInv == IInv /\ Unanswered /\ Line /\ Memory /\ Alone /\ SeenHere /\ SeenEver

-----------------------------------------------------------------------------
(* Every step is one of the dispatcher's, or the restart, which leads to   *)
(* its initial states.                                                     *)
LEMMA DispatcherStep ==
  ASSUME OInv, [OnboardingNext]_allvars
  PROVE  \/ [Next]_vars
         \/ ProcessEnds /\ Init'
<1>1. ASSUME Boot \/ Call PROVE [Next]_vars
  BY <1>1 DEF Boot, Call
<1>2. CASE Skip \/ Answered \/ UNCHANGED allvars
  BY <1>2 DEF Skip, Answered, allvars
<1>3. ASSUME NEW e \in Invitation, Invite(e) PROVE [Next]_vars
  BY <1>3, InvitationAssumption DEF Invite, Next
<1>4. CASE GuardExpires
  <2>1. waits \in Event
    BY <1>4, InvitationAssumption DEF GuardExpires, OInv, Memory
  <2> QED
    BY <1>4, <2>1 DEF GuardExpires, Next
<1>5. CASE Dispatching
  BY <1>5 DEF Dispatching, Next
<1>6. CASE TurnEnds
  BY <1>6 DEF TurnEnds, Next
<1>7. CASE ProcessEnds
  BY <1>7 DEF ProcessEnds, Init
<1> QED
  BY <1>1, <1>2, <1>3, <1>4, <1>5, <1>6, <1>7 DEF OnboardingNext

LEMMA InitIInv == Init => IInv
  BY DEF Init, IInv, TypeOK, Phases, OneDrainer, SingleFlight, MarkedHasDrainer,
         NoLostWakeup, Homes, NothingDangles, Session

LEMMA IInvStep ==
  ASSUME OInv, [OnboardingNext]_allvars
  PROVE  IInv'
<1>1. Init' => IInv'
  BY DEF Init, IInv, TypeOK, Phases, OneDrainer, SingleFlight, MarkedHasDrainer,
         NoLostWakeup, Homes, NothingDangles, Session
<1> QED
  BY <1>1, DispatcherStep, NextInv DEF OInv

LEMMA UnansweredStep ==
  ASSUME OInv, [OnboardingNext]_allvars
  PROVE  Unanswered'
<1>1. CASE [Next]_vars
  BY <1>1, StillOut DEF OInv, Unanswered
<1>2. CASE Init'
  BY <1>2 DEF Init, Unanswered, Out, Queued, InFlight
<1> QED
  BY <1>1, <1>2, DispatcherStep

-----------------------------------------------------------------------------
(* What the dispatcher's own steps do to an invitation: they neither       *)
(* dispatch nor give up one, and the answer the holder awaits is kept.     *)
LEMMA OwnSteps ==
  ASSUME OInv, Dispatching \/ TurnEnds, NEW e \in Invitation
  PROVE  /\ fut[e] = "none" => fut'[e] # "pending"
         /\ fut[e] = "pending" => fut'[e] # "cancelled"
         /\ fut[e] = "sent" /\ e = waits => fut'[e] = "sent"
<1>0. TypeOK /\ e \in Event
  BY InvitationAssumption DEF OInv, IInv
<1> DEFINE Goal == /\ fut[e] = "none" => fut'[e] # "pending"
                   /\ fut[e] = "pending" => fut'[e] # "cancelled"
                   /\ fut[e] = "sent" /\ e = waits => fut'[e] = "sent"
<1>1. ASSUME NEW x \in Event \ Invitation, Dispatch(x) PROVE Goal
  <2> DEFINE f == [fut EXCEPT ![x] = "pending"]
  <2>1. PICK S : fut' = Resolved(f, S, "dropped")
    BY <1>1 DEF Dispatch
  <2>2. f \in [Event -> {"none", "pending"} \cup Final] /\ f[e] = fut[e]
    BY <1>0 DEF TypeOK
  <2> HIDE DEF f
  <2> QED
    BY <1>0, <2>1, <2>2 DEF Resolved
<1>2. ASSUME NEW x \in Event \ Invitation, Refuse(x) PROVE Goal
  BY <1>0, <1>2 DEF Refuse, TypeOK
<1>3. ASSUME NEW x \in Event, Age(x) PROVE Goal
  BY <1>3 DEF Age
<1>4. ASSUME NEW x \in Event, x # waits, Forget(x) PROVE Goal
  BY <1>0, <1>4 DEF Forget, TypeOK
<1>5. ASSUME NEW s \in Session, NEW b, NEW r \in {"sent", "dropped"}, NextBatch(s, b, r) PROVE Goal
  BY <1>0, <1>5 DEF NextBatch, Resolved, TypeOK
<1>6. ASSUME NEW s \in Session, StartDrain(s) PROVE Goal
  BY <1>5, <1>6 DEF StartDrain
<1>7. ASSUME NEW s \in Session, NEW b, NEW o, SendEnds(s, b, o) PROVE Goal
  BY <1>5, <1>7 DEF SendEnds
<1>8. ASSUME NEW s \in Session, NEW b, DrainerDies(s, b) \/ Cancelled(s, b) PROVE Goal
  BY <1>0, <1>8 DEF DrainerDies, Cancelled, Resolved, TypeOK
<1>9. CASE StopBegin
  BY <1>9 DEF StopBegin
<1>10. CASE StopEnd
  BY <1>0, <1>10 DEF StopEnd, Resolved, TypeOK
<1> QED
  BY <1>1, <1>2, <1>3, <1>4, <1>6, <1>7, <1>8, <1>9, <1>10 DEF Dispatching, TurnEnds

(* An invitation that is out after a step was out before it with the same  *)
(* answer, or has just been made, or has just been given up by its guard.  *)
LEMMA OutStep ==
  ASSUME OInv, [OnboardingNext]_allvars, NEW e \in Invitation, Out(e)'
  PROVE  \/ Out(e) /\ fut'[e] = fut[e]
         \/ Invite(e) /\ waits' = e /\ fut'[e] = "pending" /\ ~Out(e)
         \/ Out(e) /\ GuardExpires /\ e = waits /\ fut'[e] = "cancelled"
<1>0. e \in Event /\ IInv /\ Unanswered
  BY InvitationAssumption DEF OInv
<1>1. ASSUME Boot \/ Call PROVE Out(e) /\ fut'[e] = fut[e]
  BY <1>1 DEF Boot, Call, vars, Out, Queued, InFlight
<1>2. CASE Skip \/ Answered \/ UNCHANGED allvars
  BY <1>2 DEF Skip, Answered, allvars, vars, Out, Queued, InFlight
<1>3. ASSUME NEW x \in Invitation, Invite(x)
      PROVE  \/ Out(e) /\ fut'[e] = fut[e]
             \/ Invite(e) /\ waits' = e /\ fut'[e] = "pending" /\ ~Out(e)
  <2>1. [Next]_vars /\ x \in Event
    BY <1>3, InvitationAssumption DEF Invite, Next
  <2>2. fut[e] = "pending" => fut'[e] # "cancelled"
    BY <1>0, <1>3, <2>1 DEF Invite, Dispatch, Refuse, Resolved, IInv, TypeOK
  <2>3. CASE fut[e] = "none" /\ fut'[e] = "pending"
    <3>1. e = x
      <4>1. CASE Refuse(x)
        BY <1>0, <2>1, <2>3, <4>1 DEF Refuse, IInv, TypeOK
      <4>2. CASE Dispatch(x)
        BY <1>0, <2>1, <2>3, <4>2 DEF Dispatch, Resolved, IInv, TypeOK
      <4> QED
        BY <1>3, <4>1, <4>2 DEF Invite
    <3> QED
      BY <1>0, <1>3, <2>3, <3>1 DEF Invite, Unanswered
  <2> QED
    BY <1>0, <2>1, <2>2, <2>3, StillOut
<1>4. CASE GuardExpires
  <2>1. /\ waits \in Event /\ GiveUp(waits)
    BY <1>4, InvitationAssumption DEF GuardExpires, OInv, Memory
  <2>2. Out(e)
    BY <2>1 DEF GiveUp, Out, Queued, InFlight
  <2> QED
    BY <1>0, <1>4, <2>1, <2>2 DEF GiveUp, IInv, TypeOK
<1>5. CASE Dispatching \/ TurnEnds
  <2>1. [Next]_vars
    BY <1>5 DEF Dispatching, TurnEnds, Next
  <2> QED
    BY <1>0, <1>5, <2>1, OwnSteps, StillOut
<1>6. CASE ProcessEnds
  BY <1>6 DEF ProcessEnds, Out, Queued, InFlight
<1> QED
  BY <1>1, <1>2, <1>3, <1>4, <1>5, <1>6 DEF OnboardingNext

-----------------------------------------------------------------------------
(* A call that may invite finds nothing out: what is out is awaited, or    *)
(* the process has fired.                                                  *)
LEMMA InviteFindsNone ==
  ASSUME OInv, Entering, MayInvite
  PROVE  NoneOut
  BY InvitationAssumption DEF OInv, Alone, Entering, MayInvite, NoneOut

(* While a call waits, or none may invite, nothing new comes out.          *)
LEMMA NothingNew ==
  ASSUME OInv, [OnboardingNext]_allvars, fired \/ flag \/ waits # NoInvitation,
         NEW e \in Invitation, Out(e)'
  PROVE  Out(e)
  BY OutStep DEF Invite, Entering, MayInvite

(* A process forgets nothing.                                              *)
LEMMA Remembers ==
  ASSUME [OnboardingNext]_allvars, ~ProcessEnds
  PROVE  (fired => fired') /\ excuse \subseteq excuse'
<1>1. CASE TurnEnds
  <2>1. excuse \subseteq excuse'
    BY <1>1 DEF TurnEnds, Witnessed, owner
  <2> QED
    BY <1>1, <2>1 DEF TurnEnds
<1>2. CASE Dispatching
  BY <1>2 DEF Dispatching, owner
<1>3. CASE Answered \/ GuardExpires
  BY <1>3 DEF Answered, GuardExpires
<1>4. ASSUME Boot \/ Call PROVE (fired => fired') /\ excuse \subseteq excuse'
  BY <1>4 DEF Boot, Call, owner
<1>5. CASE Skip \/ UNCHANGED allvars
  BY <1>5 DEF Skip, allvars, trigger, owner
<1>6. ASSUME NEW e \in Invitation, Invite(e) PROVE (fired => fired') /\ excuse \subseteq excuse'
  BY <1>6 DEF Invite, owner
<1> QED
  BY <1>1, <1>2, <1>3, <1>4, <1>5, <1>6 DEF OnboardingNext

(* The holder waits until it is answered or its guard expires.             *)
LEMMA StillWaits ==
  ASSUME OInv, [OnboardingNext]_allvars, ~ProcessEnds, waits # NoInvitation
  PROVE  \/ waits' = waits
         \/ GuardExpires /\ fut'[waits] = "cancelled"
         \/ Answered /\ fut[waits] \in {"sent", "dropped"}
<1>1. CASE GuardExpires
  <2>1. waits \in Event
    BY InvitationAssumption DEF OInv, Memory
  <2> QED
    BY <1>1, <2>1 DEF GuardExpires, GiveUp, OInv, IInv, TypeOK
<1>2. CASE ~GuardExpires
  BY <1>2 DEF OnboardingNext, Boot, Call, Skip, Invite, Entering, Answered, Dispatching, TurnEnds,
              allvars, trigger
<1> QED
  BY <1>1, <1>2

LEMMA AloneStep ==
  ASSUME OInv, [OnboardingNext]_allvars
  PROVE  Alone'
<1>1. CASE ProcessEnds
  BY <1>1 DEF ProcessEnds, Alone, Out, Queued, InFlight
<1>2. CASE ~ProcessEnds
  <2>1. ASSUME NEW e \in Invitation, NEW f \in Invitation, Out(e)', Out(f)'
        PROVE  e = f
    <3>1. CASE Out(e) /\ Out(f)
      BY <3>1 DEF OInv, Alone
    <3>2. CASE ~Out(e) \/ ~Out(f)
      <4>1. Entering /\ MayInvite
        BY <2>1, <3>2, OutStep DEF Invite
      <4>2. ~Out(e) /\ ~Out(f)
        BY <4>1, InviteFindsNone DEF NoneOut
      <4> QED
        BY <2>1, <4>2, OutStep
    <3> QED
      BY <3>1, <3>2
  <2>2. ASSUME NEW e \in Invitation, Out(e)'
        PROVE  \/ e = waits' /\ fut'[e] = "pending"
               \/ fut'[e] = "cancelled" /\ fired' /\ "unrecorded" \in excuse'
    <3>1. CASE Out(e) /\ fut'[e] = fut[e] /\ e = waits /\ fut[e] = "pending"
      <4>1. waits # NoInvitation
        BY <3>1, InvitationAssumption
      <4> QED
        BY <1>2, <3>1, <4>1, StillWaits
    <3>2. CASE Out(e) /\ fut'[e] = fut[e] /\ fut[e] = "cancelled" /\ fired /\ "unrecorded" \in excuse
      BY <1>2, <3>2, Remembers
    <3>3. CASE GuardExpires /\ fut'[e] = "cancelled"
      BY <3>3 DEF GuardExpires
    <3>4. CASE waits' = e /\ fut'[e] = "pending"
      BY <3>4
    <3>5. Out(e) => \/ e = waits /\ fut[e] = "pending"
                    \/ fut[e] = "cancelled" /\ fired /\ "unrecorded" \in excuse
      BY DEF OInv, Alone
    <3> QED
      BY <2>2, <3>1, <3>2, <3>3, <3>4, <3>5, OutStep
  <2> QED
    BY <2>1, <2>2 DEF Alone
<1> QED
  BY <1>1, <1>2

-----------------------------------------------------------------------------
(* What the owner has seen.                                                *)
LEMMA SeenStep ==
  ASSUME OInv, [OnboardingNext]_allvars
  PROVE  SeenHere' /\ SeenEver'
<1>0. /\ SeenHere /\ SeenEver /\ Memory /\ Alone
      /\ NoInvitation \notin Invitation
  BY InvitationAssumption DEF OInv
<1>1. fired \/ flag \/ Told => (NoneOut => NoneOut')
  BY NothingNew DEF NoneOut, Told
<1>2. ASSUME Boot \/ Call PROVE SeenHere' /\ SeenEver'
  BY <1>0, <1>1, <1>2 DEF Boot, Call, vars, owner, SeenHere, SeenEver, Told
<1>3. CASE Skip \/ UNCHANGED allvars
  BY <1>0, <1>1, <1>3 DEF Skip, vars, allvars, trigger, owner, SeenHere, SeenEver, Told
<1>4. ASSUME NEW e \in Invitation, Invite(e) PROVE SeenHere' /\ SeenEver'
  BY <1>0, <1>4 DEF Invite, Entering, MayInvite, owner, SeenHere, SeenEver, Told
<1>5. CASE Answered
  BY <1>0, <1>1, <1>5 DEF Answered, vars, SeenHere, SeenEver, Told
<1>6. CASE GuardExpires
  BY <1>0, <1>1, <1>6 DEF GuardExpires, SeenHere, SeenEver, Told
<1>7. CASE Dispatching
  <2>1. Told => Told'
    BY <1>0, <1>7, OwnSteps DEF Dispatching, Told, Memory
  <2> QED
    BY <1>0, <1>1, <1>7, <2>1 DEF Dispatching, owner, SeenHere, SeenEver
<1>8. CASE TurnEnds
  <2>1. Told => Told'
    BY <1>0, <1>8, OwnSteps DEF TurnEnds, Told, Memory
  <2>2. UNCHANGED <<waits, fired, flag>>
    BY <1>8 DEF TurnEnds
  <2>3. ASSUME NEW s \in Session, NEW b \in tasks[s], b \cap Invitation = {}, UNCHANGED owner
        PROVE  SeenHere' /\ SeenEver'
    BY <1>0, <1>1, <2>1, <2>2, <2>3 DEF owner, SeenHere, SeenEver
  <2>4. ASSUME NEW s \in Session, NEW b \in tasks[s], NEW may, NEW delivered \in BOOLEAN,
               NEW x \in b \cap Invitation, Witnessed(b, may, delivered),
               ~Out(x)', delivered /\ fut[x] = "pending" => fut'[x] = "sent"
        PROVE  SeenHere' /\ SeenEver'
    <3>1. Out(x)
      BY DEF Out, InFlight
    <3>2. ASSUME NEW e \in Invitation, Out(e)' PROVE FALSE
      <4>1. fired \/ waits # NoInvitation
        BY <1>0, <3>1 DEF Alone
      <4>2. Out(e)
        BY <3>2, <4>1, NothingNew
      <4> QED
        BY <1>0, <2>4, <3>1, <3>2, <4>2 DEF Alone
    <3>3. NoneOut'
      BY <3>2 DEF NoneOut
    <3>5. PICK seen \in BOOLEAN :
            /\ here'  = IF seen THEN Twice(here + 1) ELSE here
            /\ shown' = IF seen THEN Twice(shown + 1) ELSE shown
            /\ excuse \subseteq excuse'
            /\ seen /\ ~delivered => "unheard" \in excuse'
      BY <2>4 DEF Witnessed
    <3>4. delivered => Told' \/ (fired' /\ "unrecorded" \in excuse')
      BY <1>0, <2>2, <2>4, <3>1, <3>5 DEF Alone, Told
    <3>6. ~NoneOut
      BY <3>1 DEF NoneOut
    <3>7. SeenHere'
      BY <1>0, <3>3, <3>4, <3>5, <3>6 DEF SeenHere, Twice
    <3>8. SeenEver'
      BY <1>0, <3>3, <3>4, <3>5, <3>6 DEF SeenEver, Twice
    <3> QED
      BY <3>7, <3>8
  <2>5. ASSUME NEW s \in Session, NEW b \in tasks[s], NEW o \in Outcome, SendEnds(s, b, o),
               Witnessed(b, Seen(o), o \in Delivered)
        PROVE  SeenHere' /\ SeenEver'
    <3>1. CASE b \cap Invitation = {}
      BY <2>3, <2>5, <3>1 DEF Witnessed
    <3>2. CASE b \cap Invitation # {}
      <4>1. PICK x \in b \cap Invitation : TRUE
        BY <3>2
      <4>2. ~Out(x)'
        BY <2>5, TurnOver DEF SendEnds, OInv
      <4>3. o \in Delivered /\ fut[x] = "pending" => fut'[x] = "sent"
        BY <2>5, InvitationAssumption DEF SendEnds, NextBatch, Resolved
      <4>4. (o \in Delivered) \in BOOLEAN
        OBVIOUS
      <4> QED
        BY <2>4, <2>5, <4>2, <4>3, <4>4
    <3> QED
      BY <3>1, <3>2
  <2>6. ASSUME NEW s \in Session, NEW b \in tasks[s], DrainerDies(s, b) \/ Cancelled(s, b),
               Witnessed(b, BOOLEAN, FALSE)
        PROVE  SeenHere' /\ SeenEver'
    <3>1. CASE b \cap Invitation = {}
      BY <2>3, <2>6, <3>1 DEF Witnessed
    <3>2. CASE b \cap Invitation # {}
      <4>1. PICK x \in b \cap Invitation : TRUE
        BY <3>2
      <4>2. ~Out(x)'
        BY <2>6, TurnOver DEF OInv
      <4> QED
        BY <2>4, <2>6, <4>2
    <3> QED
      BY <3>1, <3>2
  <2> QED
    BY <1>8, <2>5, <2>6 DEF TurnEnds
<1>9. CASE ProcessEnds
  <2>1. SeenHere'
    <3>1. here' = 0
      BY <1>9 DEF ProcessEnds
    <3> QED
      BY <3>1 DEF SeenHere
  <2>2. NoneOut'
    BY <1>9 DEF ProcessEnds, NoneOut, Out, Queued, InFlight
  <2>3. SeenEver'
    <3> SUFFICES ASSUME excuse' \subseteq {"unseen"}
                 PROVE  shown' = 0 \/ (shown' = 1 /\ flag')
      BY <2>2 DEF SeenEver
    <3>1. waits = NoInvitation /\ excuse' = excuse
      BY <1>9 DEF ProcessEnds
    <3>2. \A x \in Invitation : ~InFlight(x)
      BY <1>0, <3>1 DEF Alone, Out
    <3>3. shown' = shown /\ flag' = flag
      BY <1>9, <3>2 DEF ProcessEnds
    <3> QED
      BY <1>0, <3>1, <3>3 DEF SeenEver, Told
  <2> QED
    BY <2>1, <2>3
<1> QED
  BY <1>2, <1>3, <1>4, <1>5, <1>6, <1>7, <1>8, <1>9 DEF OnboardingNext

-----------------------------------------------------------------------------
(* The types.                                                              *)
LEMMA MemoryStep ==
  ASSUME OInv, [OnboardingNext]_allvars
  PROVE  Memory'
<1>0. Memory
  BY DEF OInv
<1>1. ASSUME Boot \/ Call PROVE Memory'
  BY <1>0, <1>1 DEF Boot, Call, owner, Memory
<1>2. CASE Skip \/ UNCHANGED allvars
  BY <1>0, <1>2 DEF Skip, allvars, trigger, owner, Memory
<1>3. ASSUME NEW e \in Invitation, Invite(e) PROVE Memory'
  BY <1>0, <1>3 DEF Invite, owner, Memory
<1>4. CASE Answered \/ GuardExpires
  BY <1>0, <1>4 DEF Answered, GuardExpires, Memory, Excuse
<1>5. Waiting => behind' \in BOOLEAN
  BY <1>0 DEF Waiting, Memory
<1>6. CASE Dispatching
  BY <1>0, <1>5, <1>6 DEF Dispatching, owner, Memory
<1>7. CASE TurnEnds
  <2>1. ASSUME NEW b, NEW may, NEW delivered, Witnessed(b, may, delivered)
        PROVE  /\ here' \in 0 .. 2 /\ shown' \in 0 .. 2 /\ here' <= shown'
               /\ excuse' \subseteq Excuse
    <3>1. excuse' \subseteq excuse \cup {"unheard", "unseen"}
      BY <2>1 DEF Witnessed, owner
    <3>2. \/ here' = here /\ shown' = shown
          \/ here' = Twice(here + 1) /\ shown' = Twice(shown + 1)
      BY <2>1 DEF Witnessed, owner
    <3>3. here' \in 0 .. 2 /\ shown' \in 0 .. 2 /\ here' <= shown'
      BY <1>0, <3>2 DEF Memory, Twice
    <3>4. excuse' \subseteq Excuse
      BY <1>0, <3>1 DEF Memory, Excuse
    <3> QED
      BY <3>3, <3>4
  <2>2. /\ here' \in 0 .. 2 /\ shown' \in 0 .. 2 /\ here' <= shown'
        /\ excuse' \subseteq Excuse
    BY <1>7, <2>1 DEF TurnEnds
  <2> QED
    BY <1>0, <1>5, <1>7, <2>2 DEF TurnEnds, Memory
<1>8. CASE ProcessEnds
  <2>1. /\ waits' = NoInvitation /\ flag' = flag
        /\ behind' = FALSE /\ up' = FALSE /\ fired' = FALSE
        /\ here' = 0 /\ shown' \in {shown, Twice(shown + 1)}
        /\ excuse' \subseteq excuse \cup {"unrecorded"}
    BY <1>8 DEF ProcessEnds
  <2>2. shown' \in 0 .. 2 /\ here' \in 0 .. 2 /\ here' <= shown'
    BY <1>0, <2>1 DEF Memory, Twice
  <2>3. behind' \in BOOLEAN /\ up' \in BOOLEAN /\ fired' \in BOOLEAN /\ flag' \in BOOLEAN
    BY <1>0, <2>1 DEF Memory
  <2>4. excuse' \subseteq Excuse
    BY <1>0, <2>1 DEF Memory, Excuse
  <2> QED
    BY <2>1, <2>2, <2>3, <2>4 DEF Memory
<1> QED
  BY <1>1, <1>2, <1>3, <1>4, <1>6, <1>7, <1>8 DEF OnboardingNext

(* The line to the lock: nobody stands in it twice, and whoever waits for  *)
(* an answer holds the lock.                                               *)
LEMMA LineStep ==
  ASSUME OInv, [OnboardingNext]_allvars
  PROVE  Line'
<1>0. Line
  BY DEF OInv
<1>1. ASSUME Boot \/ Call PROVE Line'
  <2>1. CASE Boot
    BY <1>0, <2>1 DEF Boot, Line, Caller
  <2>2. CASE Call
    BY <1>0, <2>2 DEF Call, Line, Caller
  <2> QED
    BY <1>1, <2>1, <2>2
<1>2. ASSUME line # <<>>, Release, waits' = NoInvitation PROVE Line'
  <2>1. /\ line' \in Seq(Caller) /\ Len(line') = Len(line) - 1
        /\ \A i \in 1 .. Len(line') : line'[i] = line[i + 1]
    BY <1>0, <1>2 DEF Release, Line
  <2>2. \A i \in 1 .. Len(line') : i + 1 \in 1 .. Len(line) /\ i \in Int
    BY <1>0, <2>1 DEF Line
  <2>3. \A i, j \in 1 .. Len(line') : line'[i] = line'[j] => i + 1 = j + 1
    BY <1>0, <2>1, <2>2 DEF Line
  <2>4. \A i, j \in 1 .. Len(line') : line'[i] = line'[j] => i = j
    BY <2>2, <2>3
  <2> QED
    BY <1>2, <2>1, <2>4 DEF Line
<1>3. CASE Skip
  BY <1>2, <1>3 DEF Skip, Entering
<1>4. ASSUME NEW e \in Invitation, Invite(e) PROVE Line'
  BY <1>0, <1>2, <1>4 DEF Invite, Entering, Line
<1>5. CASE Answered \/ GuardExpires
  BY <1>0, <1>2, <1>5 DEF Answered, GuardExpires, Line
<1>6. CASE Dispatching \/ TurnEnds \/ UNCHANGED allvars
  BY <1>0, <1>6 DEF Dispatching, TurnEnds, allvars, trigger, Line
<1>7. CASE ProcessEnds
  <2>1. line' = <<>> /\ waits' = NoInvitation
    BY <1>7 DEF ProcessEnds
  <2> QED
    BY <2>1 DEF Line
<1> QED
  BY <1>1, <1>3, <1>4, <1>5, <1>6, <1>7 DEF OnboardingNext

LEMMA LineType == Line /\ Memory /\ TypeOK => OnboardingTypeOK
<1> SUFFICES ASSUME Line, Memory, TypeOK
             PROVE  OnboardingTypeOK
  OBVIOUS
<1>1. Cardinality(Caller) = 2
  <2>1. Caller = {"startup"} \cup {"authorization"}
    BY DEF Caller
  <2>2. Cardinality({"startup"}) = 1 /\ IsFiniteSet({"startup"})
    BY FS_Singleton
  <2>3. "authorization" \notin {"startup"}
    OBVIOUS
  <2> QED
    BY <2>1, <2>2, <2>3, FS_AddElement
<1>2. Len(line) <= 2
  <2> SUFFICES ASSUME Len(line) > 2 PROVE FALSE
    BY DEF Line
  <2>1. 1 \in 1 .. Len(line) /\ 2 \in 1 .. Len(line) /\ 3 \in 1 .. Len(line)
    BY DEF Line
  <2>2. line[1] \in Caller /\ line[2] \in Caller /\ line[3] \in Caller
    BY <2>1 DEF Line
  <2>3. line[1] # line[2] /\ line[1] # line[3] /\ line[2] # line[3]
    BY <2>1 DEF Line
  <2> QED
    BY <2>2, <2>3 DEF Caller
<1> QED
  BY <1>1, <1>2 DEF Line, Memory, OnboardingTypeOK

-----------------------------------------------------------------------------
(* The inductive invariant, over all processes.                            *)
THEOREM OnboardingInvariance == OnboardingSpec => []OInv
<1>1. OnboardingInit => OInv
  <2> SUFFICES ASSUME OnboardingInit PROVE OInv
    OBVIOUS
  <2>1. IInv /\ \A e : ~Out(e)
    BY InitIInv DEF OnboardingInit, Init, Out, Queued, InFlight
  <2>2. Memory
    <3>1. /\ behind \in BOOLEAN /\ up \in BOOLEAN /\ fired \in BOOLEAN /\ flag \in BOOLEAN
          /\ waits = NoInvitation /\ excuse = {} /\ here = 0 /\ shown = 0
      BY DEF OnboardingInit
    <3> QED
      BY <3>1 DEF Memory
  <2>3. Line
    BY DEF OnboardingInit, Line
  <2> QED
    BY <2>1, <2>2, <2>3 DEF OnboardingInit, OInv, Unanswered, Alone, SeenHere, SeenEver
<1>2. OInv /\ [OnboardingNext]_allvars => OInv'
  <2> SUFFICES ASSUME OInv, [OnboardingNext]_allvars PROVE OInv'
    OBVIOUS
  <2> QED
    BY IInvStep, UnansweredStep, LineStep, MemoryStep, AloneStep, SeenStep DEF OInv
<1> QED
  BY <1>1, <1>2, PTL DEF OnboardingSpec

(* Whatever callers, restarts and other messages do, a call that may       *)
(* invite finds no invitation queued or in flight.                         *)
THEOREM NeverTwoOut == OnboardingSpec => []OneInvitationOut
<1>1. OInv => OneInvitationOut
  BY InviteFindsNone, LineType DEF OInv, IInv, OneInvitationOut, NoneOut, Out
<1> QED
  BY <1>1, OnboardingInvariance, PTL

(* A process shows the invitation twice only if a turn reported lost was   *)
(* seen, and all processes together only if nobody could record the first. *)
THEOREM ShownOnce == OnboardingSpec => []InvitedOnce
<1>1. OInv => InvitedOnce
  BY DEF OInv, SeenHere, SeenEver, InvitedOnce
<1> QED
  BY <1>1, OnboardingInvariance, PTL

-----------------------------------------------------------------------------
(* Silence: what the process or the KV table remembers, or is about to,    *)
(* was seen by the owner, or nobody can know.                              *)
Justified == (fired \/ flag \/ Told) /\ shown = 0 => "unseen" \in excuse

(* The dispatcher's own steps answer an invitation "sent" only at the end  *)
(* of a turn that is reported delivered.                                   *)
LEMMA SentByDelivery ==
  ASSUME OInv, NEW e \in Invitation, fut[e] # "sent", fut'[e] = "sent"
  PROVE  /\ ~Dispatching
         /\ \A s \in Session : \A b \in tasks[s] :
               /\ ~DrainerDies(s, b) /\ ~Cancelled(s, b)
               /\ \A o \in Outcome : SendEnds(s, b, o) => e \in b /\ o \in Delivered
<1>0. TypeOK /\ e \in Event
  BY InvitationAssumption DEF OInv, IInv
<1>1. ASSUME NEW x \in Event, Dispatch(x) PROVE FALSE
  <2> DEFINE f == [fut EXCEPT ![x] = "pending"]
  <2>1. PICK S : fut' = Resolved(f, S, "dropped")
    BY <1>1 DEF Dispatch
  <2>2. f[e] # "sent"
    BY <1>0 DEF TypeOK
  <2> HIDE DEF f
  <2> QED
    BY <1>0, <2>1, <2>2 DEF Resolved
<1>2. ASSUME NEW x \in Event, Refuse(x) \/ Age(x) \/ Forget(x) PROVE FALSE
  BY <1>0, <1>2 DEF Refuse, Age, Forget, TypeOK
<1>3. ASSUME NEW s \in Session, NEW b, NEW r \in {"sent", "dropped"}, NextBatch(s, b, r)
      PROVE  e \in b /\ r = "sent"
  BY <1>0, <1>3 DEF NextBatch, Resolved, TypeOK
<1>4. ASSUME NEW s \in Session, StartDrain(s) PROVE FALSE
  BY <1>3, <1>4 DEF StartDrain
<1>5. ASSUME StopBegin \/ StopEnd PROVE FALSE
  BY <1>0, <1>5 DEF StopBegin, StopEnd, Resolved, TypeOK
<1>6. ASSUME NEW s \in Session, NEW b, DrainerDies(s, b) \/ Cancelled(s, b) PROVE FALSE
  BY <1>0, <1>6 DEF DrainerDies, Cancelled, Resolved, TypeOK
<1>7. ASSUME NEW s \in Session, NEW b, NEW o, SendEnds(s, b, o)
      PROVE  e \in b /\ o \in Delivered
  BY <1>3, <1>7 DEF SendEnds
<1> QED
  BY <1>1, <1>2, <1>4, <1>5, <1>6, <1>7 DEF Dispatching

(* Once shown, always shown: nothing is taken back from the owner.         *)
LEMMA ShownStays ==
  ASSUME OInv, [OnboardingNext]_allvars, shown # 0
  PROVE  shown' # 0
<1>1. shown \in 0 .. 2
  BY DEF OInv, Memory
<1>2. CASE TurnEnds
  <2>1. shown' = shown \/ shown' = Twice(shown + 1)
    BY <1>2 DEF TurnEnds, Witnessed, owner
  <2> QED
    BY <1>1, <2>1 DEF Twice
<1>3. CASE ProcessEnds
  <2>1. shown' = shown \/ shown' = Twice(shown + 1)
    BY <1>3 DEF ProcessEnds
  <2> QED
    BY <1>1, <2>1 DEF Twice
<1>4. CASE ~TurnEnds /\ ~ProcessEnds
  <2>1. shown' = shown
    BY <1>4 DEF OnboardingNext, Boot, Call, Skip, Invite, Answered, GuardExpires, Dispatching,
                allvars, owner
  <2> QED
    BY <2>1
<1> QED
  BY <1>2, <1>3, <1>4

LEMMA JustifiedStep ==
  ASSUME OInv, Justified, [OnboardingNext]_allvars
  PROVE  Justified'
<1>0. Memory /\ NoInvitation \notin Invitation
  BY InvitationAssumption DEF OInv
<1>1. ASSUME UNCHANGED <<fired, flag, excuse>>, Told' => Told
      PROVE  Justified'
  BY <1>1, ShownStays DEF Justified
<1>2. ASSUME Boot \/ Call \/ Skip \/ UNCHANGED allvars PROVE Justified'
  BY <1>1, <1>2 DEF Boot, Call, Skip, vars, allvars, trigger, owner, Told
<1>3. ASSUME NEW e \in Invitation, Invite(e) PROVE Justified'
  BY <1>1, <1>3 DEF Invite, Entering, owner, Told
<1>4. CASE Answered
  BY <1>4 DEF Answered, Justified, Told
<1>5. CASE GuardExpires
  BY <1>5 DEF GuardExpires, Justified
<1>6. CASE Dispatching
  <2>1. UNCHANGED <<waits, fired, flag, excuse>>
    BY <1>6 DEF Dispatching, owner
  <2>2. Told' => Told
    BY <1>0, <1>6, <2>1, SentByDelivery DEF Told, Memory
  <2> QED
    BY <1>1, <2>1, <2>2
<1>7. CASE TurnEnds
  <2>1. UNCHANGED <<waits, fired, flag>>
    BY <1>7 DEF TurnEnds
  <2>2. excuse \subseteq excuse'
    BY <1>7 DEF TurnEnds, Witnessed, owner
  <2>3. CASE Told' => Told
    BY <2>1, <2>2, <2>3, ShownStays DEF Justified
  <2>4. CASE Told' /\ ~Told
    <3>1. waits \in Invitation /\ fut[waits] # "sent" /\ fut'[waits] = "sent"
      BY <1>0, <2>1, <2>4 DEF Told, Memory
    <3>2. PICK b, may : waits \in b /\ Witnessed(b, may, TRUE)
      BY <1>7, <3>1, SentByDelivery DEF TurnEnds
    <3>3. shown' = Twice(shown + 1) \/ "unseen" \in excuse'
      BY <3>1, <3>2 DEF Witnessed
    <3> QED
      BY <1>0, <3>3 DEF Justified, Memory, Twice
  <2> QED
    BY <2>3, <2>4
<1>8. CASE ProcessEnds
  <2>1. ~fired' /\ ~Told' /\ flag' = flag /\ excuse \subseteq excuse'
    BY <1>8 DEF ProcessEnds, Told
  <2> QED
    BY <2>1, ShownStays DEF Justified
<1> QED
  BY <1>2, <1>3, <1>4, <1>5, <1>6, <1>7, <1>8 DEF OnboardingNext

(* The trigger never falls silent over an invitation nobody has seen,      *)
(* unless the answer it was given could not tell: over any number of       *)
(* processes, callers, failed turns and failed writes.                     *)
THEOREM SilentOnlyWhenSeen == OnboardingSpec => []NotSilencedInVain
<1>1. OnboardingInit => Justified
  BY DEF OnboardingInit, Justified, Told
<1>2. OInv /\ Justified /\ [OnboardingNext]_allvars => Justified'
  BY JustifiedStep
<1>3. Justified => NotSilencedInVain
  BY DEF Justified, NotSilencedInVain
<1> QED
  BY <1>1, <1>2, <1>3, OnboardingInvariance, PTL DEF OnboardingSpec

-----------------------------------------------------------------------------
(* A step of the composition is one of the dispatcher, which implements    *)
(* one of its promise, or leaves a dispatcher as it is at a start.         *)
LEMMA LivesRefine ==
  ASSUME OInv, [OnboardingNext]_allvars
  PROVE  [D!Next \/ D!Killed]_(D!vars)
<1>1. CASE [Next]_vars
  <2>1. [D!Next]_<<fut, Phase>>
    BY <1>1, StepRefines DEF OInv
  <2> QED
    BY <2>1 DEF D!vars, Phase
<1>2. CASE Init'
  BY <1>2 DEF Init, D!Killed
<1> QED
  BY <1>1, <1>2, DispatcherStep

(* What the dispatcher promises of each answer also holds with restarts,   *)
(* interactions of the trigger and a guard that gives up: over any number  *)
(* of processes an event is answered at most once, "sent" only while its   *)
(* dispatcher is open, and none is left pending when stop() returns.       *)
THEOREM LivesKeepPromise == OnboardingSpec => D!StepsOfLives
<1>1. OnboardingInit => D!Init
  BY DEF OnboardingInit, Init, D!Init
<1>2. OInv /\ [OnboardingNext]_allvars => [D!Next \/ D!Killed]_(D!vars)
  BY LivesRefine
<1> QED
  BY <1>1, <1>2, OnboardingInvariance, PTL DEF OnboardingSpec, D!StepsOfLives

=============================================================================
