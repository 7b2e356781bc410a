------------------------- MODULE DeviceStateProofs -------------------------
(***************************************************************************)
(* Proofs about DeviceState for any number of devices and homes, and every *)
(* number of attempts, reports, flaps, switches, refreshes and pulls.      *)
(*                                                                         *)
(* The invariant has a part for each group of variables and for each       *)
(* relation between two of them; in the proof of a step a part whose       *)
(* variables are unchanged needs no argument.                              *)
(***************************************************************************)
EXTENDS DeviceState, TLAPS

(* The records of the coroutines.                                          *)
Round ==
    [pc : {"collect", "flags", "read", "write"}, scope : Nat, tries : Nat,
     todo : SUBSET Device, known : SUBSET Device, asked : SUBSET Device,
     value : [Device -> Nat]]

Drain == [pc : {"drain"}, drain : SUBSET Device]

Refresh ==
    [pc : {"asked", "answered"}, by : {"other", "switch"}, scope : Nat,
     online : [Device -> BOOLEAN]]

Read ==
    [pc : {"spec", "asked", "answered"}, device : Device, scope : Nat, used : Nat,
     value : Nat, newer : BOOLEAN]

Push == [device : Device, value : Nat] \cup [device : Device, online : BOOLEAN]

InRound == align.pc \in {"collect", "flags", "read", "write"}

-----------------------------------------------------------------------------
(* The types, and how the counts bound what they count.                    *)
World ==
    /\ cloud \in [Device -> [online : BOOLEAN, value : Nat]]
    /\ channel \in Seq(Push)
    /\ count \in [reports : Nat, flaps : Nat, refreshes : Nat, pulls : Nat, switches : Nat]
    /\ count.reports <= MaxReports /\ count.switches <= MaxSwitches
    /\ \A d \in Device : cloud[d].value \in 1..(count.reports + 1)

Container ==
    /\ home \in Home /\ cached \in [Device -> BOOLEAN]
    /\ flag \in [Device -> {"absent", "on", "off"}]
    /\ leaf \in [Device -> Nat]

TopUps ==
    /\ settling \subseteq Device /\ noted \subseteq Device
    /\ attempts \in [Device -> Nat] /\ \A d \in Device : attempts[d] <= TopUpMax

Histories == quiet \subseteq Device /\ unread \subseteq Device

Scoped ==
    /\ scope \in Nat \ {0} /\ aligned \in Nat /\ aligned <= scope
    /\ switch \in [pc : {"idle", "begun", "cleared", "rebuilding", "rebuilt"}, waiting : Nat]
    /\ scope + switch.waiting = count.switches + 1

Aligning == align \in {Idle} \cup Round \cup Drain
Refreshing == refresh \in {Idle} \cup Refresh

Reading ==
    /\ task \in [Slot -> {Idle} \cup Read]
    /\ \A s \in Slot : task[s].pc # "idle" /\ s # "reconnect" => task[s].used < TopUpMax

Types ==
    /\ World /\ Container /\ TopUps /\ Histories
    /\ Scoped /\ Aligning /\ Refreshing /\ Reading

-----------------------------------------------------------------------------
(* Nothing is newer than what the cloud knows: no leaf, no push, no value  *)
(* the alignment or a read brings.                                         *)
LeafOld == \A d \in Device : leaf[d] <= cloud[d].value

PushOld ==
    \A i \in 1..Len(channel) :
        "value" \in DOMAIN channel[i] => channel[i].value \in 1..cloud[channel[i].device].value

RoundOld ==
    align.pc = "write" => \A d \in Device : align.value[d] \in 1..cloud[d].value

ReadOld ==
    \A s \in Slot : task[s].pc # "idle" =>
        /\ task[s].value <= cloud[task[s].device].value
        /\ task[s].pc # "answered" => task[s].value = 0

(* A top-up is one of a scope that has been aligned, and when the cloud    *)
(* did not answer it is among the failed ones, unless the scope is over.   *)
ReadScope ==
    \A s \in {"debounced", "drain"} : task[s].pc # "idle" =>
        /\ task[s].scope <= scope
        /\ task[s].scope = scope =>
              /\ ScopeIsAligned
              /\ task[s].pc = "answered" /\ task[s].value = 0 => task[s].device \in unread

(* A read that no write has overtaken brings a value that is as new.       *)
NotOvertaken ==
    \A s \in Slot : task[s].pc = "answered" /\ ~task[s].newer /\ task[s].value # 0 =>
        leaf[task[s].device] <= task[s].value

(* The round under way is one of the current scope, which it has still to  *)
(* align; a switch has no round.                                           *)
RoundScope ==
    /\ InRound => align.scope = scope /\ aligned # scope
    /\ switch.pc # "idle" => align = Idle /\ aligned # scope

(* It deals with the devices of the home, unless the home has changed.     *)
RoundHome ==
    Settled /\ InRound => align.todo \cup align.asked \cup align.known \subseteq HomeDevices

(* A refresh of an old scope lasts no longer than the clearing.            *)
RefreshScope ==
    refresh.pc # "idle" =>
        /\ refresh.scope # scope => switch.pc \in {"begun", "cleared"}
        /\ refresh.by = "switch" => switch.pc = "rebuilding"

(* Until a scope is aligned there are only the values of its last round.   *)
OnlyWritten ==
    switch.pc # "begun" /\ aligned # scope =>
        \A d \in Device : leaf[d] # 0 => align.pc = "write" /\ d \notin align.todo

(* The flags the round has written are those of the cache.                 *)
FlagsSoFar ==
    Settled =>
        /\ ScopeIsAligned \/ align.pc \in {"read", "write"} =>
              \A d \in HomeDevices : flag[d] = Flag(cached[d])
        /\ align.pc = "flags" =>
              \A d \in HomeDevices \ align.todo : flag[d] = Flag(cached[d])

(* Whoever is online without a value is cared for, or will be read.        *)
Watched(d) ==
    \/ CaredFor(d)
    \/ align.pc \in {"collect", "write"} /\ d \in align.todo
    \/ align.pc \in {"collect", "flags", "read"} /\ d \in align.asked
    \/ d \in quiet \/ d \in unread \/ attempts[d] >= TopUpMax

Tended ==
    Settled /\ (ScopeIsAligned \/ InRound) =>
        \A d \in HomeDevices : cached[d] /\ leaf[d] = 0 => Watched(d)

Inv ==
    /\ Types
    /\ LeafOld /\ PushOld /\ RoundOld /\ ReadOld /\ NotOvertaken
    /\ RoundScope /\ RoundHome /\ RefreshScope /\ ReadScope
    /\ OnlyWritten /\ OnlyThisHome /\ FlagsSoFar /\ Tended

-----------------------------------------------------------------------------
(* What the types say of the records.                                      *)
LEMMA Facts ==
  ASSUME Types
  PROVE  /\ InRound <=> align \in Round
         /\ align.pc = "drain" <=> align \in Drain
         /\ align.pc = "idle" <=> align = Idle
         /\ refresh.pc = "idle" <=> refresh = Idle
         /\ refresh.pc # "idle" <=> refresh \in Refresh
         /\ \A s \in Slot : /\ task[s].pc = "idle" <=> task[s] = Idle
                            /\ task[s].pc # "idle" <=> task[s] \in Read
  BY DEF Types, Aligning, Refreshing, Reading, InRound, Round, Drain, Idle, Refresh, Read

LEMMA Bounds ==
  /\ TopUpMax \in Nat /\ AlignMax \in Nat /\ MaxReports \in Nat /\ MaxFlaps \in Nat
  /\ MaxSwitches \in Nat /\ MaxRefreshes \in Nat /\ MaxPulls \in Nat
  /\ HomeDevices \subseteq Device
  BY DeviceAssumption DEF HomeDevices

LEMMA TypesImplyTypeOK == Types /\ LeafOld => TypeOK
<1> SUFFICES ASSUME Types, LeafOld PROVE TypeOK
  OBVIOUS
<1>1. cloud \in [Device -> [online : BOOLEAN, value : 1..(MaxReports + 1)]]
  BY Bounds DEF Types, World
<1>2. /\ scope \in 1..(MaxSwitches + 1) /\ aligned \in 0..scope
      /\ switch \in [pc : {"idle", "begun", "cleared", "rebuilding", "rebuilt"}, waiting : 0..MaxSwitches]
  BY Bounds DEF Types, World, Scoped
<1>3. attempts \in [Device -> 0..TopUpMax]
  BY Bounds DEF Types, TopUps
<1>5. leaf \in [Device -> 0..(MaxReports + 1)]
  BY Bounds DEF Types, World, Container, LeafOld
<1>4. /\ align.pc \in {"idle", "collect", "flags", "read", "write", "drain"}
      /\ refresh.pc \in {"idle", "asked", "answered"}
      /\ \A s \in Slot : task[s].pc \in {"idle", "spec", "asked", "answered"}
  BY DEF Types, Aligning, Refreshing, Reading, Idle, Round, Drain, Refresh, Read
<1> QED
  BY <1>1, <1>2, <1>3, <1>4, <1>5 DEF Types, Container, TopUps, Histories, TypeOK

(* A part of the invariant holds on when its variables are unchanged.      *)
LEMMA Untouched ==
  ASSUME Inv
  PROVE  /\ UNCHANGED <<cloud, channel, count>> => World'
         /\ UNCHANGED <<home, cached, flag, leaf>> => Container'
         /\ UNCHANGED <<settling, noted, attempts>> => TopUps'
         /\ UNCHANGED <<quiet, unread>> => Histories'
         /\ UNCHANGED <<scope, aligned, switch>> /\ count'.switches = count.switches => Scoped'
         /\ UNCHANGED align => Aligning'
         /\ UNCHANGED refresh => Refreshing'
         /\ UNCHANGED task => Reading'
         /\ UNCHANGED <<cloud, leaf>> => LeafOld'
         /\ UNCHANGED <<cloud, channel>> => PushOld'
         /\ UNCHANGED <<cloud, align>> => RoundOld'
         /\ UNCHANGED <<cloud, task>> => ReadOld'
         /\ UNCHANGED <<leaf, task>> => NotOvertaken'
         /\ UNCHANGED <<scope, aligned, switch, align>> => RoundScope'
         /\ UNCHANGED <<home, switch, align>> => RoundHome'
         /\ UNCHANGED <<scope, switch, refresh>> => RefreshScope'
         /\ UNCHANGED <<scope, task>> /\ unread \subseteq unread' /\ aligned' \in {aligned, scope} => ReadScope'
         /\ UNCHANGED <<scope, aligned, switch, leaf, align>> => OnlyWritten'
         /\ UNCHANGED <<home, switch, flag, leaf>> => OnlyThisHome'
         /\ UNCHANGED <<home, scope, aligned, switch, cached, flag, align>> => FlagsSoFar'
         /\ UNCHANGED <<home, scope, aligned, switch, cached, leaf, align, settling, noted, attempts,
                        task, quiet, unread>> => Tended'
<1>1. /\ UNCHANGED <<cloud, channel, count>> => World'
      /\ UNCHANGED <<home, cached, flag, leaf>> => Container'
      /\ UNCHANGED <<settling, noted, attempts>> => TopUps'
      /\ UNCHANGED <<quiet, unread>> => Histories'
      /\ UNCHANGED <<scope, aligned, switch>> /\ count'.switches = count.switches => Scoped'
  BY DEF Inv, Types, World, Container, TopUps, Histories, Scoped
<1>2. /\ UNCHANGED align => Aligning'
      /\ UNCHANGED refresh => Refreshing'
      /\ UNCHANGED task => Reading'
  BY DEF Inv, Types, Aligning, Refreshing, Reading
<1>3. /\ UNCHANGED <<cloud, leaf>> => LeafOld'
      /\ UNCHANGED <<cloud, channel>> => PushOld'
      /\ UNCHANGED <<cloud, align>> => RoundOld'
      /\ UNCHANGED <<cloud, task>> => ReadOld'
      /\ UNCHANGED <<leaf, task>> => NotOvertaken'
  BY DEF Inv, LeafOld, PushOld, RoundOld, ReadOld, NotOvertaken
<1>4. /\ UNCHANGED <<scope, aligned, switch, align>> => RoundScope'
      /\ UNCHANGED <<home, switch, align>> => RoundHome'
      /\ UNCHANGED <<scope, switch, refresh>> => RefreshScope'
  BY DEF Inv, RoundScope, RoundHome, RefreshScope, InRound, Settled, HomeDevices, InHome
<1>5. /\ UNCHANGED <<scope, aligned, switch, leaf, align>> => OnlyWritten'
      /\ UNCHANGED <<home, switch, flag, leaf>> => OnlyThisHome'
      /\ UNCHANGED <<home, scope, aligned, switch, cached, flag, align>> => FlagsSoFar'
  BY DEF Inv, OnlyWritten, OnlyThisHome, FlagsSoFar, Settled, ScopeIsAligned, HomeDevices, InHome
<1>6. UNCHANGED <<home, scope, aligned, switch, cached, leaf, align, settling, noted, attempts,
                 task, quiet, unread>> => Tended'
  BY DEF Inv, Tended, Watched, CaredFor, InRound, Settled, ScopeIsAligned, HomeDevices, InHome
<1>7. UNCHANGED <<scope, task>> /\ unread \subseteq unread' /\ aligned' \in {aligned, scope} => ReadScope'
  BY DEF Inv, ReadScope, ScopeIsAligned
<1> QED
  BY <1>1, <1>2, <1>3, <1>4, <1>5, <1>6, <1>7

(* A write marks the reads of its device, and changes nothing else.        *)
LEMMA ReportedSame ==
  ASSUME Reading, NEW d \in Device
  PROVE  /\ Reported(d) \in [Slot -> {Idle} \cup Read]
         /\ \A s \in Slot :
              /\ Reported(d)[s].pc = task[s].pc
              /\ task[s].pc # "idle" =>
                    /\ Reported(d)[s].device = task[s].device
                    /\ Reported(d)[s].value = task[s].value
                    /\ Reported(d)[s].used = task[s].used
                    /\ Reported(d)[s].scope = task[s].scope
                    /\ ~Reported(d)[s].newer => ~task[s].newer /\ task[s].device # d
<1>1. SUFFICES ASSUME NEW s \in Slot
               PROVE  /\ Reported(d)[s] \in {Idle} \cup Read
                      /\ Reported(d)[s].pc = task[s].pc
                      /\ task[s].pc # "idle" =>
                            /\ Reported(d)[s].device = task[s].device
                            /\ Reported(d)[s].value = task[s].value
                            /\ Reported(d)[s].used = task[s].used
                            /\ Reported(d)[s].scope = task[s].scope
                            /\ ~Reported(d)[s].newer => ~task[s].newer /\ task[s].device # d
  BY DEF Reported
<1>2. CASE task[s] = Idle
  BY <1>2 DEF Reported, Idle
<1>3. CASE task[s] \in Read
  BY <1>3 DEF Reported, Read
<1> QED
  BY <1>2, <1>3 DEF Reading

(* A value that is no newer than the cloud's is written to a leaf.         *)
LEMMA LeafWritten ==
  ASSUME Inv, NEW d \in Device, NEW v \in 1..cloud[d].value,
         leaf' = [leaf EXCEPT ![d] = v], task' = Reported(d),
         UNCHANGED <<cloud, home, scope, aligned, cached, flag, unread>>
  PROVE  /\ Container' /\ LeafOld' /\ Reading' /\ ReadOld' /\ NotOvertaken' /\ ReadScope'
         /\ leaf'[d] = v /\ v # 0 /\ \A e \in Device : e # d => leaf'[e] = leaf[e]
         /\ \A s \in Slot :
              /\ task'[s].pc = task[s].pc
              /\ task[s].pc # "idle" => task'[s].device = task[s].device /\ task'[s].scope = task[s].scope
<1>0. cloud[d].value \in Nat /\ leaf \in [Device -> Nat] /\ Reading
  BY DEF Inv, Types, World, Container
<1>1. /\ leaf' \in [Device -> Nat] /\ leaf'[d] = v /\ v > 0 /\ v <= cloud[d].value
      /\ \A e \in Device : e # d => leaf'[e] = leaf[e]
  BY <1>0
<1>2. Container' /\ LeafOld'
  BY <1>1 DEF Inv, Types, Container, LeafOld
<1>3. /\ task' \in [Slot -> {Idle} \cup Read]
      /\ \A s \in Slot :
            /\ task'[s].pc = task[s].pc
            /\ task[s].pc # "idle" =>
                  /\ task'[s].device = task[s].device /\ task'[s].value = task[s].value
                  /\ task'[s].used = task[s].used /\ task'[s].scope = task[s].scope
                  /\ ~task'[s].newer => ~task[s].newer /\ task[s].device # d
  BY <1>0, ReportedSame
<1>4. Reading' /\ ReadOld'
  BY <1>3 DEF Inv, Types, Reading, ReadOld
<1>5. NotOvertaken'
  <2>1. SUFFICES ASSUME NEW s \in Slot, task[s].pc = "answered", ~task'[s].newer, task[s].value # 0
                 PROVE  leaf'[task[s].device] <= task[s].value
    BY <1>3 DEF NotOvertaken
  <2>2. task[s] \in Read
    BY <2>1, Facts DEF Inv
  <2>3. task[s].device \in Device
    BY <2>2 DEF Read
  <2> QED
    BY <1>1, <1>3, <2>1, <2>3 DEF Inv, NotOvertaken
<1>6. ReadScope'
  BY <1>3 DEF Inv, ReadScope, ScopeIsAligned, Slot
<1> QED
  BY <1>1, <1>2, <1>3, <1>4, <1>5, <1>6

-----------------------------------------------------------------------------
(* The devices.                                                            *)
LEMMA CloudGrows ==
  ASSUME Inv, World', UNCHANGED <<leaf, align, task>>,
         \A d \in Device : cloud'[d].value >= cloud[d].value
  PROVE  LeafOld' /\ RoundOld' /\ ReadOld'
<1>1. LeafOld'
  BY DEF Inv, Types, World, Container, LeafOld
<1>2. RoundOld'
  <2>1. SUFFICES ASSUME align.pc = "write", NEW d \in Device
                 PROVE  align.value[d] \in 1..cloud'[d].value
    BY DEF RoundOld
  <2>2. align.value[d] \in 1..cloud[d].value /\ cloud[d].value \in Nat /\ cloud'[d].value \in Nat
    BY <2>1 DEF Inv, RoundOld, Types, World
  <2> QED
    BY <2>2
<1>3. ReadOld'
  <2>1. SUFFICES ASSUME NEW s \in Slot, task[s].pc # "idle"
                 PROVE  /\ task[s].value <= cloud'[task[s].device].value
                        /\ task[s].pc # "answered" => task[s].value = 0
    BY DEF ReadOld
  <2>2. task[s] \in Read
    BY <2>1, Facts DEF Inv
  <2>3. task[s].device \in Device /\ task[s].value \in Nat
    BY <2>2 DEF Read
  <2>4. cloud[task[s].device].value \in Nat /\ cloud'[task[s].device].value \in Nat
    BY <2>3 DEF Inv, Types, World
  <2>5. /\ task[s].value <= cloud[task[s].device].value
        /\ task[s].pc # "answered" => task[s].value = 0
    BY <2>1 DEF Inv, ReadOld
  <2> QED
    BY <2>3, <2>4, <2>5
<1> QED
  BY <1>1, <1>2, <1>3

(* A push that says no more than the cloud keeps the channel old.          *)
LEMMA PushedOld ==
  ASSUME Inv, World', NEW push \in Push, Pushed(push),
         \A d \in Device : cloud'[d].value >= cloud[d].value,
         "value" \in DOMAIN push => push.value \in 1..cloud'[push.device].value
  PROVE  PushOld'
<1>1. SUFFICES ASSUME NEW i \in 1..Len(channel'), "value" \in DOMAIN channel'[i]
               PROVE  channel'[i].value \in 1..cloud'[channel'[i].device].value
  BY DEF PushOld
<1>2. channel \in Seq(Push) /\ (channel' = channel \/ channel' = Append(channel, push))
  BY DEF Inv, Types, World, Pushed
<1>3. \/ i \in 1..Len(channel) /\ channel'[i] = channel[i]
      \/ channel'[i] = push
  BY <1>2, <1>1
<1>4. CASE i \in 1..Len(channel) /\ channel'[i] = channel[i]
  <2>1. channel[i] \in Push
    BY <1>2, <1>4
  <2>2. channel[i].device \in Device
    BY <2>1 DEF Push
  <2>3. channel[i].value \in 1..cloud[channel[i].device].value
    BY <1>1, <1>4 DEF Inv, PushOld
  <2>4. cloud[channel[i].device].value \in Nat /\ cloud'[channel[i].device].value \in Nat
    BY <2>2 DEF Inv, Types, World
  <2>5. cloud[channel[i].device].value <= cloud'[channel[i].device].value
    BY <2>2, <2>4
  <2>6. channel[i].value \in 1..cloud'[channel[i].device].value
    BY <2>3, <2>4, <2>5
  <2> QED
    BY <1>4, <2>6
<1> QED
  BY <1>1, <1>3, <1>4

LEMMA PushedType ==
  ASSUME channel \in Seq(Push), NEW push \in Push, Pushed(push)
  PROVE  channel' \in Seq(Push)
  BY DEF Pushed

LEMMA DeviceReportsInv ==
  ASSUME Inv, NEW d \in Device, DeviceReports(d)
  PROVE  Inv'
<1> DEFINE push == [device |-> d, value |-> cloud[d].value + 1]
<1>1. /\ UNCHANGED <<home, scope, aligned, cached, flag, leaf, align, switch, refresh,
                     settling, noted, attempts, task, quiet, unread>>
      /\ count.reports < MaxReports /\ count' = [count EXCEPT !.reports = @ + 1]
      /\ cloud' = [cloud EXCEPT ![d].value = @ + 1]
      /\ Pushed(push)
  BY DEF DeviceReports, container, topUp, history
<1>2. /\ cloud \in [Device -> [online : BOOLEAN, value : Nat]] /\ cloud[d].value \in Nat
      /\ channel \in Seq(Push)
      /\ count \in [reports : Nat, flaps : Nat, refreshes : Nat, pulls : Nat, switches : Nat]
  BY DEF Inv, Types, World
<1>3. push \in Push
  BY <1>2 DEF Push
<1>4. channel' \in Seq(Push)
  BY <1>1, <1>2, <1>3, PushedType
<1>5. /\ count' \in [reports : Nat, flaps : Nat, refreshes : Nat, pulls : Nat, switches : Nat]
      /\ count'.reports = count.reports + 1 /\ count'.switches = count.switches
  <2>1. count' = [count EXCEPT !.reports = @ + 1]
    BY <1>1
  <2>2. count \in [reports : Nat, flaps : Nat, refreshes : Nat, pulls : Nat, switches : Nat]
    BY <1>2
  <2> QED
    BY <2>1, <2>2
<1>6. /\ cloud' \in [Device -> [online : BOOLEAN, value : Nat]]
      /\ cloud'[d].value = cloud[d].value + 1
      /\ \A e \in Device : e # d => cloud'[e] = cloud[e]
  BY <1>1, <1>2
<1>a. \A e \in Device : cloud[e].value \in 1..(count.reports + 1)
  BY DEF Inv, Types, World
<1>b. \A e \in Device : cloud'[e].value \in 1..(count'.reports + 1)
  <2>1. count.reports \in Nat /\ count'.reports = count.reports + 1
    BY <1>2, <1>5
  <2>2. cloud'[d].value \in 1..(count'.reports + 1)
    BY <1>2, <1>6, <1>a, <2>1
  <2>3. \A e \in Device : e # d => cloud'[e].value \in 1..(count'.reports + 1)
    BY <1>6, <1>a, <2>1
  <2> QED
    BY <2>2, <2>3
<1>c. count'.reports <= MaxReports /\ count'.switches <= MaxSwitches
  <2>1. count.reports \in Nat /\ count.switches <= MaxSwitches
    BY <1>2 DEF Inv, Types, World
  <2> QED
    BY <1>1, <1>5, <2>1, Bounds
<1>7. World'
  BY <1>4, <1>5, <1>6, <1>b, <1>c DEF World
<1>8. \A e \in Device : cloud'[e].value >= cloud[e].value
  <2>1. SUFFICES ASSUME NEW e \in Device PROVE cloud'[e].value >= cloud[e].value
    OBVIOUS
  <2>2. cloud[e].value \in Nat
    BY <1>2
  <2> QED
    BY <1>6, <2>2
<1>9. LeafOld' /\ RoundOld' /\ ReadOld'
  BY <1>1, <1>7, <1>8, CloudGrows
<1>10. PushOld'
  BY <1>1, <1>2, <1>3, <1>6, <1>7, <1>8, PushedOld
<1> QED
  BY <1>1, <1>5, <1>7, <1>9, <1>10, Untouched DEF Inv, Types

LEMMA DeviceFlapsInv ==
  ASSUME Inv, NEW d \in Device, DeviceFlaps(d)
  PROVE  Inv'
<1> DEFINE push == [device |-> d, online |-> ~cloud[d].online]
<1>1. /\ UNCHANGED <<home, scope, aligned, cached, flag, leaf, align, switch, refresh,
                     settling, noted, attempts, task, quiet, unread>>
      /\ count' = [count EXCEPT !.flaps = @ + 1]
      /\ cloud' = [cloud EXCEPT ![d].online = ~@]
      /\ Pushed(push)
  BY DEF DeviceFlaps, container, topUp, history
<1>2. /\ cloud \in [Device -> [online : BOOLEAN, value : Nat]]
      /\ channel \in Seq(Push)
      /\ count \in [reports : Nat, flaps : Nat, refreshes : Nat, pulls : Nat, switches : Nat]
  BY DEF Inv, Types, World
<1>3. push \in Push /\ "value" \notin DOMAIN push
  BY <1>2 DEF Push
<1>4. channel' \in Seq(Push)
  BY <1>1, <1>2, <1>3, PushedType
<1>5. /\ count' \in [reports : Nat, flaps : Nat, refreshes : Nat, pulls : Nat, switches : Nat]
      /\ count'.reports = count.reports /\ count'.switches = count.switches
  <2>1. count' = [count EXCEPT !.flaps = @ + 1]
    BY <1>1
  <2>2. count \in [reports : Nat, flaps : Nat, refreshes : Nat, pulls : Nat, switches : Nat]
    BY <1>2
  <2> QED
    BY <2>1, <2>2
<1>6. /\ cloud' \in [Device -> [online : BOOLEAN, value : Nat]]
      /\ \A e \in Device : cloud'[e].value = cloud[e].value
  BY <1>1, <1>2
<1>7. World'
  BY <1>1, <1>2, <1>4, <1>5, <1>6 DEF Inv, Types, World
<1>8. \A e \in Device : cloud'[e].value >= cloud[e].value
  BY <1>2, <1>6
<1>9. LeafOld' /\ RoundOld' /\ ReadOld'
  BY <1>1, <1>7, <1>8, CloudGrows
<1>10. PushOld'
  BY <1>1, <1>3, <1>7, <1>8, PushedOld
<1> QED
  BY <1>1, <1>5, <1>7, <1>9, <1>10, Untouched DEF Inv, Types

-----------------------------------------------------------------------------
(* Pushes.                                                                 *)
LEMMA PushTaken ==
  ASSUME Inv, channel # <<>>, channel' = Tail(channel), UNCHANGED <<cloud, count>>
  PROVE  /\ World' /\ PushOld'
         /\ Head(channel) \in Push /\ Head(channel).device \in Device
         /\ "value" \in DOMAIN Head(channel) =>
               Head(channel).value \in 1..cloud[Head(channel).device].value
         /\ "online" \in DOMAIN Head(channel) => Head(channel).online \in BOOLEAN
<1>1. channel \in Seq(Push) /\ Len(channel) \in Nat /\ Len(channel) > 0
  BY DEF Inv, Types, World
<1>2. /\ Head(channel) = channel[1] /\ channel[1] \in Push
      /\ channel' \in Seq(Push) /\ Len(channel') = Len(channel) - 1
      /\ \A i \in 1..Len(channel') : channel'[i] = channel[i + 1]
  BY <1>1
<1>3. World'
  BY <1>2 DEF Inv, Types, World
<1>4. PushOld'
  <2>1. SUFFICES ASSUME NEW i \in 1..Len(channel'), "value" \in DOMAIN channel'[i]
                 PROVE  channel'[i].value \in 1..cloud[channel'[i].device].value
    BY DEF PushOld
  <2>2. channel'[i] = channel[i + 1] /\ i + 1 \in 1..Len(channel)
    BY <1>1, <1>2
  <2> QED
    BY <2>1, <2>2 DEF Inv, PushOld
<1>5. "value" \in DOMAIN Head(channel) =>
         Head(channel).value \in 1..cloud[Head(channel).device].value
  <2>1. 1 \in 1..Len(channel)
    BY <1>1
  <2> QED
    BY <1>2, <2>1 DEF Inv, PushOld
<1>6. Head(channel).device \in Device /\ ("online" \in DOMAIN Head(channel) => Head(channel).online \in BOOLEAN)
  BY <1>2 DEF Push
<1> QED
  BY <1>2, <1>3, <1>4, <1>5, <1>6

LEMMA PushStateInv ==
  ASSUME Inv, PushState
  PROVE  Inv'
<1>1. PICK d, on : d = Head(channel).device /\ on = Head(channel).online
  OBVIOUS
<1>2. /\ UNCHANGED <<cloud, home, scope, aligned, leaf, align, switch, refresh, noted, attempts, task, unread, count>>
      /\ channel # <<>> /\ channel' = Tail(channel) /\ "online" \in DOMAIN Head(channel)
      /\ cached' = [cached EXCEPT ![d] = on]
      /\ flag' = IF InHome(d) THEN [flag EXCEPT ![d] = Flag(on)] ELSE flag
      /\ settling' = IF on THEN settling \cup {d} ELSE settling
      /\ quiet' = quiet \ {d}
  BY <1>1 DEF PushState
<1>3. d \in Device /\ on \in BOOLEAN /\ World' /\ PushOld'
  BY <1>1, <1>2, PushTaken
<1>4. /\ cached \in [Device -> BOOLEAN] /\ flag \in [Device -> {"absent", "on", "off"}]
      /\ Flag(on) \in {"absent", "on", "off"}
  BY DEF Inv, Types, Container, Flag
<1>5. /\ cached' \in [Device -> BOOLEAN] /\ flag' \in [Device -> {"absent", "on", "off"}]
      /\ cached'[d] = on /\ (InHome(d) => flag'[d] = Flag(on)) /\ (~InHome(d) => flag' = flag)
      /\ \A e \in Device : e # d => cached'[e] = cached[e] /\ flag'[e] = flag[e]
  BY <1>2, <1>3, <1>4
<1>6. Container' /\ TopUps' /\ Histories'
  BY <1>2, <1>3, <1>5 DEF Inv, Types, Container, TopUps, Histories
<1>7. OnlyThisHome'
  BY <1>2, <1>3, <1>5 DEF Inv, OnlyThisHome, InHome
<1>8. FlagsSoFar'
  BY <1>2, <1>3, <1>5 DEF Inv, FlagsSoFar, Settled, ScopeIsAligned, HomeDevices, InHome
<1>9. Tended'
  <2>1. SUFFICES ASSUME Settled, ScopeIsAligned \/ InRound, NEW e \in HomeDevices, cached'[e], leaf[e] = 0
                 PROVE  Watched(e)'
    BY <1>2 DEF Tended, Settled, ScopeIsAligned, InRound, HomeDevices, InHome
  <2>2. CASE e = d
    BY <1>2, <1>5, <2>1, <2>2 DEF Watched, CaredFor
  <2>3. CASE e # d
    <3>1. Watched(e)
      BY <1>5, <2>1, <2>3 DEF Inv, Tended, HomeDevices
    <3> QED
      BY <1>2, <2>3, <3>1 DEF Watched, CaredFor
  <2> QED
    BY <2>2, <2>3
<1> QED
  BY <1>2, <1>3, <1>6, <1>7, <1>8, <1>9, Untouched DEF Inv, Types

LEMMA PushPropInv ==
  ASSUME Inv, PushProp
  PROVE  Inv'
<1>1. PICK d, v : d = Head(channel).device /\ v = Head(channel).value
  OBVIOUS
<1>2. /\ UNCHANGED <<cloud, home, scope, aligned, cached, flag, align, switch, refresh,
                     settling, noted, attempts, quiet, unread, count>>
      /\ channel # <<>> /\ channel' = Tail(channel) /\ "value" \in DOMAIN Head(channel)
      /\ \/ PushGate(d) /\ leaf' = [leaf EXCEPT ![d] = v] /\ task' = Reported(d)
         \/ UNCHANGED <<leaf, task>>
  BY <1>1 DEF PushProp, topUp, history
<1>3. d \in Device /\ v \in 1..cloud[d].value /\ World' /\ PushOld'
  BY <1>1, <1>2, PushTaken
<1>4. CASE UNCHANGED <<leaf, task>>
  BY <1>2, <1>3, <1>4, Untouched DEF Inv, Types
<1>5. CASE PushGate(d) /\ leaf' = [leaf EXCEPT ![d] = v] /\ task' = Reported(d)
  <2>1. /\ Container' /\ LeafOld' /\ Reading' /\ ReadOld' /\ NotOvertaken' /\ ReadScope'
        /\ leaf'[d] = v /\ v # 0 /\ \A e \in Device : e # d => leaf'[e] = leaf[e]
        /\ \A s \in Slot :
              /\ task'[s].pc = task[s].pc
              /\ task[s].pc # "idle" => task'[s].device = task[s].device /\ task'[s].scope = task[s].scope
    BY <1>2, <1>3, <1>5, LeafWritten
  <2>2. OnlyWritten' /\ OnlyThisHome'
    BY <1>2, <1>5, <2>1 DEF Inv, OnlyWritten, OnlyThisHome, PushGate, ScopeIsAligned, InHome
  <2>3. Tended'
    <3>1. SUFFICES ASSUME Settled, ScopeIsAligned \/ InRound, NEW e \in HomeDevices, cached[e], leaf'[e] = 0
                   PROVE  Watched(e)'
      BY <1>2 DEF Tended, Settled, ScopeIsAligned, InRound, HomeDevices, InHome
    <3>2. leaf[e] = 0
      BY <2>1, <3>1 DEF HomeDevices
    <3>3. Watched(e)
      BY <3>1, <3>2 DEF Inv, Tended
    <3> QED
      BY <1>2, <2>1, <3>3 DEF Watched, CaredFor, Slot
  <2> QED
    BY <1>2, <1>3, <2>1, <2>2, <2>3, Untouched DEF Inv, Types
<1> QED
  BY <1>2, <1>4, <1>5

-----------------------------------------------------------------------------
(* The alignment.  A round is always one of the current scope, so that the *)
(* branches in which the scope has moved on are not taken.                 *)
LEMMA InTheRound ==
  ASSUME Inv, InRound
  PROVE  /\ align \in Round /\ align.scope = scope /\ ~MovedOn
         /\ ~ScopeIsAligned /\ switch.pc = "idle"
         /\ align.todo \subseteq Device /\ align.known \subseteq Device /\ align.asked \subseteq Device
         /\ Settled => /\ align.todo \subseteq HomeDevices
                       /\ align.known \subseteq HomeDevices /\ align.asked \subseteq HomeDevices
<1>1. align \in Round /\ align # Idle
  BY Facts DEF Inv, Round, Idle, InRound
<1>2. align.todo \subseteq Device /\ align.known \subseteq Device /\ align.asked \subseteq Device
  BY <1>1 DEF Round
<1>3. align.scope = scope /\ aligned # scope /\ switch.pc = "idle"
  BY <1>1 DEF Inv, RoundScope
<1> QED
  BY <1>1, <1>2, <1>3 DEF Inv, RoundHome, MovedOn, ScopeIsAligned

(* Before its last reads a scope has no values.                            *)
LEMMA NoValuesYet ==
  ASSUME Inv, InRound, align.pc # "write"
  PROVE  \A d \in Device : leaf[d] = 0
  BY InTheRound DEF Inv, OnlyWritten, ScopeIsAligned

(* A round begins, or the attempts end.                                    *)
LEMMA NewRound ==
  ASSUME Inv, ~ScopeIsAligned, switch'.pc = "idle",
         \A d \in Device : leaf[d] # 0 => switch.pc = "begun",
         switch.pc # "begun",
         align' = Idle \/ \E n \in Nat : align' = AlignAt(scope, n),
         UNCHANGED <<home, scope, aligned, leaf>>
  PROVE  /\ Aligning' /\ RoundOld' /\ RoundScope' /\ RoundHome' /\ OnlyWritten' /\ FlagsSoFar'
         /\ (UNCHANGED cached => Tended')
<1>1. CASE align' = Idle
  <2>1. align'.pc = "idle"
    BY <1>1 DEF Idle
  <2> QED
    BY <1>1, <2>1 DEF Inv, Aligning, RoundOld, RoundScope, RoundHome, OnlyWritten, FlagsSoFar, Tended,
       InRound, ScopeIsAligned, HomeDevices
<1>2. CASE \E n \in Nat : align' = AlignAt(scope, n)
  <2>1. PICK n \in Nat : align' = AlignAt(scope, n)
    BY <1>2
  <2>2. /\ align'.pc = "collect" /\ align'.scope = scope
        /\ align'.todo = HomeDevices /\ align'.known = {} /\ align'.asked = {}
    BY <2>1 DEF AlignAt
  <2>3. align' \in Round
    BY <2>1, Bounds DEF AlignAt, Round, Inv, Types, Scoped
  <2>4. Aligning' /\ RoundOld' /\ RoundScope' /\ RoundHome' /\ OnlyWritten' /\ FlagsSoFar'
    BY <2>2, <2>3 DEF Aligning, RoundOld, RoundScope, RoundHome, OnlyWritten, FlagsSoFar,
       InRound, ScopeIsAligned, HomeDevices, InHome
  <2>5. UNCHANGED cached => Tended'
    BY <2>2 DEF Tended, Watched, HomeDevices, InHome
  <2> QED
    BY <2>4, <2>5
<1> QED
  BY <1>1, <1>2

LEMMA RoundFailsStarts ==
  ASSUME Inv, InRound, RoundFails
  PROVE  align' = Idle \/ \E n \in Nat : align' = AlignAt(scope, n)
<1>1. align.tries \in Nat /\ align.scope = scope
  BY InTheRound DEF Round
<1> QED
  BY <1>1 DEF RoundFails

LEMMA AlignFailsInv ==
  ASSUME Inv, AlignFails
  PROVE  Inv'
<1>1. /\ UNCHANGED <<cloud, channel, home, scope, aligned, cached, flag, leaf, switch, refresh,
                     settling, noted, attempts, task, quiet, unread, count>>
      /\ InRound /\ align.pc # "write" /\ RoundFails
  BY DEF AlignFails, world, container, topUp, history, InRound
<1>2. ~ScopeIsAligned /\ switch.pc = "idle" /\ \A d \in Device : leaf[d] = 0
  BY <1>1, InTheRound, NoValuesYet
<1>3. align' = Idle \/ \E n \in Nat : align' = AlignAt(scope, n)
  BY <1>1, RoundFailsStarts
<1>4. /\ Aligning' /\ RoundOld' /\ RoundScope' /\ RoundHome' /\ OnlyWritten' /\ FlagsSoFar' /\ Tended'
  BY <1>1, <1>2, <1>3, NewRound
<1> QED
  BY <1>1, <1>4, Untouched DEF Inv, Types

LEMMA CollectInv ==
  ASSUME Inv, NEW d \in Device, Collect(d)
  PROVE  Inv'
<1>1. PICK ok \in BOOLEAN :
        /\ align.pc = "collect" /\ d \in align.todo
        /\ align' = [align EXCEPT !.todo = @ \ {d},
                                  !.known = IF cached[d] THEN @ \cup {d} ELSE @,
                                  !.asked = IF cached[d] /\ ok THEN @ \cup {d} ELSE @]
        /\ unread' = IF cached[d] /\ ~ok THEN unread \cup {d} ELSE unread
  BY DEF Collect
<1>2. UNCHANGED <<cloud, channel, home, scope, aligned, cached, flag, leaf, switch, refresh,
                  settling, noted, attempts, task, quiet, count>>
  BY DEF Collect, world, container, topUp
<1>3. InRound /\ align \in Round
  BY <1>1, InTheRound DEF InRound
<1>4. /\ align' \in Round /\ align'.pc = "collect" /\ align'.scope = align.scope
      /\ align'.todo = align.todo \ {d}
      /\ align'.known \subseteq align.known \cup {d}
      /\ align'.asked = IF cached[d] /\ ok THEN align.asked \cup {d} ELSE align.asked
  BY <1>1, <1>3 DEF Round
<1>9. ReadScope'
  BY <1>1, <1>2, Untouched
<1>5. Histories' /\ Aligning' /\ RoundOld'
  BY <1>1, <1>2, <1>4 DEF Inv, Types, Histories, Aligning, RoundOld
<1>6. RoundScope' /\ OnlyWritten' /\ FlagsSoFar'
  BY <1>2, <1>3, <1>4, InTheRound, NoValuesYet, <1>1
     DEF RoundScope, OnlyWritten, FlagsSoFar, InRound, ScopeIsAligned
<1>7. RoundHome'
  BY <1>1, <1>2, <1>3, <1>4, InTheRound DEF RoundHome, Settled, HomeDevices, InHome
<1>8. Tended'
  <2>1. SUFFICES ASSUME Settled, NEW e \in HomeDevices, cached[e], leaf[e] = 0
                 PROVE  Watched(e)'
    BY <1>2 DEF Tended, Settled, HomeDevices, InHome
  <2>2. Watched(e)
    BY <1>3, <2>1 DEF Inv, Tended
  <2> QED
    BY <1>1, <1>2, <1>4, <2>1, <2>2 DEF Watched, CaredFor
<1> QED
  BY <1>2, <1>5, <1>6, <1>7, <1>8, <1>9, Untouched DEF Inv, Types

LEMMA CollectedInv ==
  ASSUME Inv, Collected
  PROVE  Inv'
<1>1. /\ UNCHANGED <<cloud, channel, home, scope, aligned, cached, flag, leaf, switch, refresh,
                     settling, noted, attempts, task, quiet, unread, count>>
      /\ align.pc = "collect" /\ align.todo = {}
      /\ align' = [align EXCEPT !.pc = "flags", !.todo = HomeDevices]
  BY DEF Collected, world, container, topUp, history
<1>2. InRound /\ align \in Round
  BY <1>1, InTheRound DEF InRound
<1>3. /\ align' \in Round /\ align'.pc = "flags" /\ align'.scope = align.scope
      /\ align'.todo = HomeDevices /\ align'.known = align.known /\ align'.asked = align.asked
  BY <1>1, <1>2, Bounds DEF Round
<1>4. Aligning' /\ RoundOld' /\ RoundScope' /\ OnlyWritten' /\ FlagsSoFar' /\ RoundHome'
  BY <1>1, <1>2, <1>3, InTheRound, NoValuesYet
     DEF Aligning, RoundOld, RoundScope, OnlyWritten, FlagsSoFar, RoundHome, InRound, ScopeIsAligned,
         Settled, HomeDevices, InHome
<1>5. Tended'
  <2>1. SUFFICES ASSUME Settled, NEW e \in HomeDevices, cached[e], leaf[e] = 0
                 PROVE  Watched(e)'
    BY <1>1 DEF Tended, Settled, HomeDevices, InHome
  <2>2. Watched(e)
    BY <1>2, <2>1 DEF Inv, Tended
  <2> QED
    BY <1>1, <1>3, <2>2 DEF Watched, CaredFor
<1> QED
  BY <1>1, <1>4, <1>5, Untouched DEF Inv, Types

LEMMA WriteFlagInv ==
  ASSUME Inv, NEW d \in Device, WriteFlag(d)
  PROVE  Inv'
<1>1. /\ UNCHANGED <<cloud, channel, home, scope, aligned, cached, leaf, switch, refresh,
                     settling, noted, attempts, task, quiet, unread, count>>
      /\ align.pc = "flags" /\ d \in align.todo
      /\ align' = [align EXCEPT !.todo = @ \ {d}]
      /\ flag' = [flag EXCEPT ![d] = Flag(OnlineNow(d))]
  BY DEF WriteFlag, world, topUp, history
<1>2. InRound /\ align \in Round
  BY <1>1, InTheRound DEF InRound
<1>3. /\ align' \in Round /\ align'.pc = "flags" /\ align'.scope = align.scope
      /\ align'.todo = align.todo \ {d} /\ align'.known = align.known /\ align'.asked = align.asked
  BY <1>1, <1>2 DEF Round
<1>4. /\ flag' \in [Device -> {"absent", "on", "off"}]
      /\ InHome(d) => flag'[d] = Flag(cached[d])
      /\ \A e \in Device : e # d => flag'[e] = flag[e]
  BY <1>1 DEF Inv, Types, Container, Flag, OnlineNow
<1>5. Container' /\ Aligning' /\ RoundOld' /\ RoundScope' /\ OnlyWritten' /\ RoundHome'
  BY <1>1, <1>2, <1>3, <1>4, InTheRound, NoValuesYet
     DEF Inv, Types, Container, Aligning, RoundOld, RoundScope, OnlyWritten, RoundHome, InRound,
         ScopeIsAligned, Settled, HomeDevices, InHome
<1>6. OnlyThisHome'
  <2>1. Settled => InHome(d)
    BY <1>1, <1>2, InTheRound DEF HomeDevices
  <2>2. switch.pc = "idle"
    BY <1>2, InTheRound
  <2> QED
    BY <1>1, <1>4, <2>1, <2>2 DEF Inv, OnlyThisHome, Settled, InHome
<1>7. FlagsSoFar'
  BY <1>1, <1>2, <1>3, <1>4, InTheRound DEF Inv, FlagsSoFar, Settled, ScopeIsAligned, HomeDevices, InHome
<1>8. Tended'
  <2>1. SUFFICES ASSUME Settled, NEW e \in HomeDevices, cached[e], leaf[e] = 0
                 PROVE  Watched(e)'
    BY <1>1 DEF Tended, Settled, HomeDevices, InHome
  <2>2. Watched(e)
    BY <1>2, <2>1 DEF Inv, Tended
  <2> QED
    BY <1>1, <1>3, <2>2 DEF Watched, CaredFor
<1> QED
  BY <1>1, <1>5, <1>6, <1>7, <1>8, Untouched DEF Inv, Types

(* The round is over: its scope is aligned, and what was noted is drained. *)
LEMMA MarkAlignedInv ==
  ASSUME Inv, InRound, MarkAligned, align.todo = {},
         align.pc = "write" \/ (align.pc = "flags" /\ align.asked = {}),
         UNCHANGED <<cloud, channel, home, scope, cached, flag, leaf, switch, refresh,
                     settling, attempts, task, quiet, unread, count>>
  PROVE  Inv'
<1>1. aligned' = scope /\ align' = [pc |-> "drain", drain |-> noted] /\ noted' = {}
  BY InTheRound DEF MarkAligned
<1>2. /\ align' \in Drain /\ align'.pc = "drain" /\ align'.drain = noted /\ ~InRound'
  BY <1>1 DEF Drain, InRound, Inv, Types, TopUps
<1>3. /\ TopUps' /\ Scoped' /\ Aligning'
  BY <1>1, <1>2 DEF Inv, Types, TopUps, Scoped, Aligning
<1>4. RoundOld' /\ RoundScope' /\ RoundHome' /\ OnlyWritten'
  BY <1>1, <1>2, InTheRound DEF RoundOld, RoundScope, RoundHome, OnlyWritten
<1>5. FlagsSoFar' /\ ReadScope'
  BY <1>1, <1>2, Untouched DEF Inv, FlagsSoFar, Settled, ScopeIsAligned, HomeDevices, InHome
<1>6. Tended'
  <2>1. SUFFICES ASSUME Settled, NEW e \in HomeDevices, cached[e], leaf[e] = 0
                 PROVE  Watched(e)'
    BY DEF Tended, Settled, HomeDevices, InHome
  <2>2. Watched(e)
    BY <2>1 DEF Inv, Tended
  <2> QED
    BY <1>1, <1>2, <2>2 DEF Watched, CaredFor
<1> QED
  BY <1>3, <1>4, <1>5, <1>6, Untouched DEF Inv, Types

LEMMA FlagsWrittenInv ==
  ASSUME Inv, FlagsWritten
  PROVE  Inv'
<1>1. /\ UNCHANGED <<cloud, channel, home, scope, cached, flag, leaf, switch, refresh,
                     settling, attempts, task, quiet, unread, count>>
      /\ align.pc = "flags" /\ align.todo = {}
      /\ \/ align.asked = {} /\ MarkAligned
         \/ align' = [align EXCEPT !.pc = "read"] /\ UNCHANGED <<aligned, noted>>
  BY DEF FlagsWritten, world, container, history
<1>2. InRound /\ align \in Round
  BY <1>1, InTheRound DEF InRound
<1>3. CASE align.asked = {} /\ MarkAligned
  BY <1>1, <1>2, <1>3, MarkAlignedInv
<1>4. CASE align' = [align EXCEPT !.pc = "read"] /\ UNCHANGED <<aligned, noted>>
  <2>1. /\ align' \in Round /\ align'.pc = "read" /\ align'.scope = align.scope
        /\ align'.todo = {} /\ align'.known = align.known /\ align'.asked = align.asked
    BY <1>1, <1>2, <1>4 DEF Round
  <2>2. Aligning' /\ RoundOld' /\ RoundScope' /\ OnlyWritten' /\ RoundHome'
    BY <1>1, <1>2, <1>4, <2>1, InTheRound, NoValuesYet
       DEF Aligning, RoundOld, RoundScope, OnlyWritten, RoundHome, InRound,
           ScopeIsAligned, Settled, HomeDevices, InHome
  <2>3. FlagsSoFar'
    BY <1>1, <1>4, <2>1 DEF Inv, FlagsSoFar, Settled, ScopeIsAligned, HomeDevices, InHome
  <2>4. Tended'
    <3>1. SUFFICES ASSUME Settled, NEW e \in HomeDevices, cached[e], leaf[e] = 0
                   PROVE  Watched(e)'
      BY <1>1 DEF Tended, Settled, HomeDevices, InHome
    <3>2. Watched(e)
      BY <1>2, <3>1 DEF Inv, Tended
    <3> QED
      BY <1>1, <1>4, <2>1, <3>2 DEF Watched, CaredFor
  <2> QED
    BY <1>1, <1>4, <2>2, <2>3, <2>4, Untouched DEF Inv, Types
<1> QED
  BY <1>1, <1>3, <1>4

LEMMA ReadAllInv ==
  ASSUME Inv, ReadAll
  PROVE  Inv'
<1>1. PICK failed \in SUBSET align.asked :
        /\ align.pc = "read"
        /\ align' = [align EXCEPT !.pc = "write", !.todo = align.asked \ failed,
                                  !.value = [d \in Device |-> cloud[d].value]]
        /\ unread' = unread \cup failed
  BY DEF ReadAll
<1>2. UNCHANGED <<cloud, channel, home, scope, aligned, cached, flag, leaf, switch, refresh,
                  settling, noted, attempts, task, quiet, count>>
  BY DEF ReadAll, world, container, topUp
<1>3. InRound /\ align \in Round
  BY <1>1, InTheRound DEF InRound
<1>4. /\ align' \in Round /\ align'.pc = "write" /\ align'.scope = align.scope
      /\ align'.todo = align.asked \ failed /\ align'.known = align.known /\ align'.asked = align.asked
      /\ \A d \in Device : align'.value[d] = cloud[d].value
  BY <1>1, <1>3 DEF Round, Inv, Types, World
<1>9. ReadScope'
  BY <1>1, <1>2, Untouched
<1>5. Histories' /\ Aligning' /\ RoundScope' /\ OnlyWritten' /\ RoundHome'
  BY <1>1, <1>2, <1>3, <1>4, InTheRound, NoValuesYet
     DEF Inv, Types, Histories, Aligning, RoundScope, OnlyWritten, RoundHome, InRound,
         ScopeIsAligned, Settled, HomeDevices, InHome
<1>6. RoundOld'
  <2>1. \A d \in Device : cloud[d].value \in Nat /\ cloud[d].value \in 1..(count.reports + 1)
    BY DEF Inv, Types, World
  <2>2. \A d \in Device : cloud[d].value \in 1..cloud[d].value
    BY <2>1
  <2> QED
    BY <1>2, <1>4, <2>2 DEF RoundOld
<1>7. FlagsSoFar'
  BY <1>1, <1>2, <1>4 DEF Inv, FlagsSoFar, Settled, ScopeIsAligned, HomeDevices, InHome
<1>8. Tended'
  <2>1. SUFFICES ASSUME Settled, NEW e \in HomeDevices, cached[e], leaf[e] = 0
                 PROVE  Watched(e)'
    BY <1>2 DEF Tended, Settled, HomeDevices, InHome
  <2>2. Watched(e)
    BY <1>3, <2>1 DEF Inv, Tended
  <2> QED
    BY <1>1, <1>2, <1>4, <2>2 DEF Watched, CaredFor
<1> QED
  BY <1>2, <1>5, <1>6, <1>7, <1>8, <1>9, Untouched DEF Inv, Types

LEMMA WriteDeviceInv ==
  ASSUME Inv, NEW d \in Device, WriteDevice(d)
  PROVE  Inv'
<1>0. align.pc = "write" /\ d \in align.todo /\ InRound
  BY DEF WriteDevice, InRound
<1>1. /\ UNCHANGED <<cloud, channel, home, scope, aligned, cached, flag, switch, refresh,
                     settling, noted, attempts, quiet, unread, count>>
      /\ align' = [align EXCEPT !.todo = @ \ {d}]
      /\ leaf' = [leaf EXCEPT ![d] = align.value[d]]
      /\ task' = Reported(d)
  BY <1>0, InTheRound DEF WriteDevice, world, topUp, history
<1>2. align \in Round /\ align.value[d] \in 1..cloud[d].value
  BY <1>0, InTheRound DEF Inv, RoundOld
<1>3. /\ align' \in Round /\ align'.pc = "write" /\ align'.scope = align.scope
      /\ align'.todo = align.todo \ {d} /\ align'.known = align.known /\ align'.asked = align.asked
      /\ align'.value = align.value
  BY <1>0, <1>1, <1>2 DEF Round
<1>4. /\ Container' /\ LeafOld' /\ Reading' /\ ReadOld' /\ NotOvertaken' /\ ReadScope'
      /\ leaf'[d] # 0 /\ \A e \in Device : e # d => leaf'[e] = leaf[e]
      /\ \A s \in Slot :
            /\ task'[s].pc = task[s].pc
            /\ task[s].pc # "idle" => task'[s].device = task[s].device /\ task'[s].scope = task[s].scope
  BY <1>1, <1>2, LeafWritten
<1>5. Aligning' /\ RoundOld' /\ RoundScope' /\ RoundHome'
  BY <1>0, <1>1, <1>3, InTheRound
     DEF Inv, Aligning, RoundOld, RoundScope, RoundHome, InRound, ScopeIsAligned, Settled, HomeDevices, InHome
<1>6. OnlyWritten'
  BY <1>0, <1>1, <1>3, <1>4, InTheRound DEF Inv, OnlyWritten, ScopeIsAligned
<1>7. OnlyThisHome'
  <2>1. switch.pc = "idle" /\ (Settled => InHome(d))
    BY <1>0, InTheRound DEF HomeDevices
  <2> QED
    BY <1>1, <1>4, <2>1 DEF Inv, OnlyThisHome, Settled, InHome
<1>8. FlagsSoFar'
  BY <1>0, <1>1, <1>3 DEF Inv, FlagsSoFar, Settled, ScopeIsAligned, HomeDevices, InHome
<1>9. Tended'
  <2>1. SUFFICES ASSUME Settled, NEW e \in HomeDevices, cached[e], leaf'[e] = 0
                 PROVE  Watched(e)'
    BY <1>1 DEF Tended, Settled, HomeDevices, InHome
  <2>2. leaf[e] = 0 /\ e # d
    BY <1>4, <2>1 DEF HomeDevices
  <2>3. Watched(e)
    BY <1>0, <2>1, <2>2 DEF Inv, Tended
  <2> QED
    BY <1>0, <1>1, <1>3, <1>4, <2>2, <2>3 DEF Watched, CaredFor, Slot
<1> QED
  BY <1>1, <1>4, <1>5, <1>6, <1>7, <1>8, <1>9, Untouched DEF Inv, Types

LEMMA RoundDoneInv ==
  ASSUME Inv, RoundDone
  PROVE  Inv'
<1>1. /\ UNCHANGED <<cloud, channel, home, scope, cached, flag, leaf, switch, refresh,
                     settling, attempts, task, quiet, unread, count>>
      /\ align.pc = "write" /\ align.todo = {} /\ MarkAligned /\ InRound
  BY DEF RoundDone, world, container, history, InRound
<1> QED
  BY <1>1, MarkAlignedInv

LEMMA DrainEndsInv ==
  ASSUME Inv, DrainEnds
  PROVE  Inv'
<1>1. /\ UNCHANGED <<cloud, channel, home, scope, aligned, cached, flag, leaf, switch, refresh,
                     settling, noted, attempts, task, quiet, unread, count>>
      /\ align.pc = "drain" /\ align.drain = {} /\ align' = Idle
  BY DEF DrainEnds, world, container, topUp, history
<1>2. align'.pc = "idle" /\ ~InRound /\ ~InRound'
  BY <1>1 DEF Idle, InRound
<1>3. Aligning' /\ RoundOld' /\ RoundScope' /\ RoundHome' /\ OnlyWritten' /\ FlagsSoFar'
  BY <1>1, <1>2 DEF Inv, Aligning, RoundOld, RoundScope, RoundHome, OnlyWritten, FlagsSoFar,
     Settled, ScopeIsAligned, HomeDevices, InHome
<1>4. Tended'
  <2>1. SUFFICES ASSUME Settled, ScopeIsAligned, NEW e \in HomeDevices, cached[e], leaf[e] = 0
                 PROVE  Watched(e)'
    BY <1>1, <1>2 DEF Tended, Settled, ScopeIsAligned, HomeDevices, InHome
  <2>2. Watched(e)
    BY <2>1 DEF Inv, Tended
  <2> QED
    BY <1>1, <2>2 DEF Watched, CaredFor
<1> QED
  BY <1>1, <1>3, <1>4, Untouched DEF Inv, Types

-----------------------------------------------------------------------------
(* Reads of one device.                                                    *)
LEMMA TopUpStarts ==
  ASSUME Inv, NEW slot \in {"debounced", "drain"}, NEW d \in Device, task[slot].pc = "idle",
         StartTopUp(slot, d), UNCHANGED <<cloud, home, scope, aligned, cached, leaf, attempts, unread>>
  PROVE  /\ Reading' /\ ReadOld' /\ NotOvertaken' /\ ReadScope'
         /\ noted \subseteq noted' /\ noted' \subseteq noted \cup {d}
         /\ \A s \in Slot : task[s].pc # "idle" => task'[s] = task[s]
         /\ InHome(d) /\ cached[d] =>
              \/ d \in noted' \/ attempts[d] >= TopUpMax
              \/ task'[slot].pc # "idle" /\ task'[slot].device = d /\ task'[slot].scope = scope
<1>0. slot \in Slot /\ task \in [Slot -> {Idle} \cup Read]
  BY DEF Slot, Inv, Types, Reading
<1>1. CASE UNCHANGED task
  <2>1. Reading' /\ ReadOld' /\ NotOvertaken' /\ ReadScope'
    BY <1>1, Untouched
  <2>2. attempts[d] \in Nat
    BY DEF Inv, Types, TopUps
  <2>3. noted \subseteq noted' /\ noted' \subseteq noted \cup {d}
    BY DEF StartTopUp, NoteNeed
  <2>4. InHome(d) /\ cached[d] =>
          \/ d \in noted' \/ attempts[d] >= TopUpMax
          \/ task'[slot].pc # "idle" /\ task'[slot].device = d /\ task'[slot].scope = scope
    <3>1. CASE ~ScopeIsAligned
      BY <3>1 DEF StartTopUp, NoteNeed
    <3>2. CASE ScopeIsAligned /\ ~(attempts[d] < TopUpMax)
      BY <2>2, <3>2, Bounds
    <3>3. CASE ScopeIsAligned /\ InHome(d) /\ cached[d] /\ attempts[d] < TopUpMax
      <4>1. task' = [task EXCEPT ![slot] =
                       [pc |-> "spec", device |-> d, scope |-> scope, used |-> attempts[d],
                        value |-> 0, newer |-> TRUE]]
        BY <3>3 DEF StartTopUp
      <4>2. task'[slot].pc = "spec"
        BY <1>0, <4>1
      <4> QED
        BY <1>1, <4>2
    <3> QED
      BY <3>1, <3>2, <3>3
  <2> QED
    BY <1>1, <2>1, <2>3, <2>4
<1>2. CASE task' # task
  <2>1. /\ ScopeIsAligned /\ attempts[d] < TopUpMax /\ noted' = noted
        /\ task' = [task EXCEPT ![slot] =
                      [pc |-> "spec", device |-> d, scope |-> scope, used |-> attempts[d],
                       value |-> 0, newer |-> TRUE]]
    BY <1>2 DEF StartTopUp
  <2>2. /\ task'[slot].pc = "spec" /\ task'[slot].device = d /\ task'[slot].scope = scope
        /\ task'[slot].used = attempts[d] /\ task'[slot].value = 0
        /\ \A s \in Slot : s # slot => task'[s] = task[s]
    BY <1>0, <2>1
  <2>3. task' \in [Slot -> {Idle} \cup Read]
    BY <1>0, <2>1 DEF Read, Inv, Types, Scoped, TopUps
  <2>4. Reading'
    BY <2>1, <2>2, <2>3 DEF Inv, Types, Reading
  <2>5. cloud[d].value \in Nat /\ scope \in Nat
    BY DEF Inv, Types, World, Scoped
  <2>6. ReadOld' /\ NotOvertaken' /\ ReadScope'
    BY <2>1, <2>2, <2>5 DEF Inv, ReadOld, NotOvertaken, ReadScope, ScopeIsAligned, Slot
  <2> QED
    BY <1>0, <2>1, <2>2, <2>4, <2>6
<1> QED
  BY <1>1, <1>2

LEMMA DebounceFiresInv ==
  ASSUME Inv, NEW d \in Device, DebounceFires(d)
  PROVE  Inv'
<1>1. /\ UNCHANGED <<cloud, channel, home, scope, aligned, cached, flag, leaf, align, switch, refresh,
                     attempts, quiet, unread, count>>
      /\ settling' = settling \ {d} /\ task["debounced"].pc = "idle" /\ StartTopUp("debounced", d)
  BY DEF DebounceFires, world, container, history
<1>2. /\ Reading' /\ ReadOld' /\ NotOvertaken' /\ ReadScope'
      /\ noted \subseteq noted' /\ noted' \subseteq noted \cup {d}
      /\ \A s \in Slot : task[s].pc # "idle" => task'[s] = task[s]
      /\ InHome(d) /\ cached[d] =>
           \/ d \in noted' \/ attempts[d] >= TopUpMax
           \/ task'["debounced"].pc # "idle" /\ task'["debounced"].device = d /\ task'["debounced"].scope = scope
  BY <1>1, TopUpStarts
<1>3. TopUps'
  BY <1>1, <1>2 DEF Inv, Types, TopUps
<1>4. Tended'
  <2>1. SUFFICES ASSUME Settled, ScopeIsAligned \/ InRound, NEW e \in HomeDevices, cached[e], leaf[e] = 0
                 PROVE  Watched(e)'
    BY <1>1 DEF Tended, Settled, ScopeIsAligned, InRound, HomeDevices, InHome
  <2>2. Watched(e)
    BY <2>1 DEF Inv, Tended
  <2>3. CASE e = d
    BY <1>1, <1>2, <2>1, <2>3 DEF Watched, CaredFor, HomeDevices
  <2>4. CASE e # d
    BY <1>1, <1>2, <2>2, <2>4 DEF Watched, CaredFor, Slot
  <2> QED
    BY <2>3, <2>4
<1> QED
  BY <1>1, <1>2, <1>3, <1>4, Untouched DEF Inv, Types

LEMMA DrainNextInv ==
  ASSUME Inv, NEW d \in Device, DrainNext(d)
  PROVE  Inv'
<1>1. /\ UNCHANGED <<cloud, channel, home, scope, aligned, cached, flag, leaf, switch, refresh,
                     settling, attempts, quiet, unread, count>>
      /\ align.pc = "drain" /\ align' = [align EXCEPT !.drain = @ \ {d}]
      /\ task["drain"].pc = "idle" /\ StartTopUp("drain", d)
  BY DEF DrainNext, world, container, history
<1>2. /\ Reading' /\ ReadOld' /\ NotOvertaken' /\ ReadScope'
      /\ noted \subseteq noted' /\ noted' \subseteq noted \cup {d}
      /\ \A s \in Slot : task[s].pc # "idle" => task'[s] = task[s]
      /\ InHome(d) /\ cached[d] =>
           \/ d \in noted' \/ attempts[d] >= TopUpMax
           \/ task'["drain"].pc # "idle" /\ task'["drain"].device = d /\ task'["drain"].scope = scope
  BY <1>1, TopUpStarts
<1>3. align \in Drain
  BY <1>1, Facts DEF Inv
<1>4. align' \in Drain /\ align'.pc = "drain" /\ align'.drain = align.drain \ {d} /\ ~InRound /\ ~InRound'
  BY <1>1, <1>3 DEF Drain, InRound
<1>5. TopUps' /\ Aligning'
  BY <1>1, <1>2, <1>4 DEF Inv, Types, TopUps, Aligning
<1>6. RoundOld' /\ RoundScope' /\ RoundHome' /\ OnlyWritten' /\ FlagsSoFar'
  BY <1>1, <1>4 DEF Inv, RoundOld, RoundScope, RoundHome, OnlyWritten, FlagsSoFar,
     Settled, ScopeIsAligned, HomeDevices, InHome, Idle
<1>7. Tended'
  <2>1. SUFFICES ASSUME Settled, ScopeIsAligned, NEW e \in HomeDevices, cached[e], leaf[e] = 0
                 PROVE  Watched(e)'
    BY <1>1, <1>4 DEF Tended, Settled, ScopeIsAligned, HomeDevices, InHome
  <2>2. Watched(e)
    BY <2>1 DEF Inv, Tended
  <2>3. CASE e = d
    BY <1>1, <1>2, <2>1, <2>3 DEF Watched, CaredFor, HomeDevices
  <2>4. CASE e # d
    BY <1>1, <1>2, <1>4, <2>2, <2>4 DEF Watched, CaredFor, Slot
  <2> QED
    BY <2>3, <2>4
<1> QED
  BY <1>1, <1>2, <1>5, <1>6, <1>7, Untouched DEF Inv, Types

LEMMA AskMissingInv ==
  ASSUME Inv, NEW s \in Slot, AskMissing(s)
  PROVE  Inv'
<1>1. PICK d : d = task[s].device
  OBVIOUS
<1>2. /\ UNCHANGED <<cloud, channel, home, scope, aligned, cached, flag, leaf, align, switch, refresh,
                     settling, noted, attempts, quiet, count>>
      /\ task[s].pc = "spec"
      /\ \/ task' = [task EXCEPT ![s].pc = "asked"] /\ unread' = unread
         \/ leaf[d] # 0 /\ task' = [task EXCEPT ![s] = Idle] /\ unread' = unread
         \/ task' = [task EXCEPT ![s] = Idle] /\ unread' = unread \cup {d}
  BY <1>1 DEF AskMissing, world, container, topUp
<1>3. task \in [Slot -> {Idle} \cup Read] /\ task[s] \in Read /\ d \in Device
  BY <1>1, <1>2, Facts DEF Inv, Types, Reading, Read
<1>4. /\ task' \in [Slot -> {Idle} \cup Read]
      /\ \A t \in Slot : t # s => task'[t] = task[t]
      /\ \/ /\ task'[s].pc = "asked" /\ task'[s].device = d /\ task'[s].scope = task[s].scope
            /\ task'[s].used = task[s].used /\ task'[s].value = task[s].value
            /\ unread' = unread
         \/ task'[s].pc = "idle" /\ (leaf[d] # 0 \/ d \in unread')
  <2>1. CASE task' = [task EXCEPT ![s].pc = "asked"] /\ unread' = unread
    BY <1>1, <1>3, <2>1 DEF Read
  <2>2. CASE task' = [task EXCEPT ![s] = Idle] /\ (leaf[d] # 0 \/ d \in unread')
    BY <1>3, <2>2 DEF Idle
  <2> QED
    BY <1>2, <2>1, <2>2
<1>5. unread \subseteq unread' /\ unread' \subseteq unread \cup {d}
  BY <1>2
<1>6. Histories' /\ Reading'
  BY <1>2, <1>3, <1>4, <1>5 DEF Inv, Types, Histories, Reading
<1>7. ReadOld' /\ NotOvertaken' /\ ReadScope'
  BY <1>1, <1>2, <1>4, <1>5 DEF Inv, ReadOld, NotOvertaken, ReadScope, ScopeIsAligned, Slot
<1>8. Tended'
  <2>1. SUFFICES ASSUME Settled, ScopeIsAligned \/ InRound, NEW e \in HomeDevices, cached[e], leaf[e] = 0
                 PROVE  Watched(e)'
    BY <1>2 DEF Tended, Settled, ScopeIsAligned, InRound, HomeDevices, InHome
  <2>2. Watched(e)
    BY <2>1 DEF Inv, Tended
  <2> QED
    BY <1>1, <1>2, <1>4, <1>5, <2>1, <2>2 DEF Watched, CaredFor, Slot
<1> QED
  BY <1>2, <1>6, <1>7, <1>8, Untouched DEF Inv, Types

LEMMA ReconnectInv ==
  ASSUME Inv, NEW d \in Device, Reconnect(d)
  PROVE  Inv'
<1>1. PICK tie \in BOOLEAN :
        task' = [task EXCEPT !["reconnect"] =
                   [pc |-> "asked", device |-> d, scope |-> scope, used |-> 0, value |-> 0, newer |-> tie]]
  BY DEF Reconnect
<1>2. /\ UNCHANGED <<cloud, channel, home, scope, aligned, cached, flag, leaf, align, switch, refresh,
                     settling, noted, attempts, quiet, unread>>
      /\ count' = [count EXCEPT !.pulls = @ + 1] /\ task["reconnect"].pc = "idle"
  BY DEF Reconnect, world, container, topUp, history
<1>3. /\ count' \in [reports : Nat, flaps : Nat, refreshes : Nat, pulls : Nat, switches : Nat]
      /\ count'.reports = count.reports /\ count'.switches = count.switches
  <2>1. count \in [reports : Nat, flaps : Nat, refreshes : Nat, pulls : Nat, switches : Nat]
    BY DEF Inv, Types, World
  <2> QED
    BY <1>2, <2>1
<1>4. World' /\ Scoped'
  BY <1>2, <1>3 DEF Inv, Types, World, Scoped
<1>5. /\ task' \in [Slot -> {Idle} \cup Read]
      /\ task'["reconnect"].pc = "asked" /\ task'["reconnect"].device = d /\ task'["reconnect"].value = 0
      /\ \A t \in Slot : t # "reconnect" => task'[t] = task[t]
  BY <1>1 DEF Inv, Types, Reading, Read, Slot, Scoped
<1>6. Reading'
  BY <1>2, <1>5 DEF Inv, Types, Reading
<1>7. cloud[d].value \in Nat
  BY DEF Inv, Types, World
<1>8. ReadOld' /\ NotOvertaken' /\ ReadScope'
  BY <1>2, <1>5, <1>7 DEF Inv, ReadOld, NotOvertaken, ReadScope, ScopeIsAligned, Slot
<1>9. Tended'
  <2>1. SUFFICES ASSUME Settled, ScopeIsAligned \/ InRound, NEW e \in HomeDevices, cached[e], leaf[e] = 0
                 PROVE  Watched(e)'
    BY <1>2 DEF Tended, Settled, ScopeIsAligned, InRound, HomeDevices, InHome
  <2>2. Watched(e)
    BY <2>1 DEF Inv, Tended
  <2> QED
    BY <1>2, <1>5, <2>2 DEF Watched, CaredFor, Slot
<1> QED
  BY <1>2, <1>4, <1>6, <1>8, <1>9, Untouched DEF Inv, Types

LEMMA ReadOneInv ==
  ASSUME Inv, NEW s \in Slot, ReadOne(s)
  PROVE  Inv'
<1>1. PICK d : d = task[s].device
  OBVIOUS
<1>2. /\ UNCHANGED <<cloud, channel, home, scope, aligned, cached, flag, leaf, align, switch, refresh,
                     settling, noted, attempts, quiet, count>>
      /\ task[s].pc = "asked"
      /\ \/ task' = [task EXCEPT ![s].pc = "answered", ![s].value = cloud[d].value] /\ unread' = unread
         \/ task' = [task EXCEPT ![s].pc = "answered"] /\ unread' = unread \cup {d}
  BY <1>1 DEF ReadOne, CloudAnswers, world, container, topUp
<1>3. /\ task \in [Slot -> {Idle} \cup Read] /\ task[s] \in Read /\ d \in Device /\ task[s].value = 0
      /\ cloud[d].value \in Nat /\ cloud[d].value \in 1..(count.reports + 1) /\ leaf[d] <= cloud[d].value
  BY <1>1, <1>2, Facts DEF Inv, Types, World, Reading, Read, ReadOld, LeafOld
<1>4. /\ task' \in [Slot -> {Idle} \cup Read]
      /\ \A t \in Slot : t # s => task'[t] = task[t]
      /\ task'[s].pc = "answered" /\ task'[s].device = d /\ task'[s].scope = task[s].scope
      /\ task'[s].used = task[s].used
      /\ task'[s].value = cloud[d].value \/ (task'[s].value = 0 /\ d \in unread')
  <2>1. CASE task' = [task EXCEPT ![s].pc = "answered", ![s].value = cloud[d].value] /\ unread' = unread
    BY <1>1, <1>3, <2>1 DEF Read
  <2>2. CASE task' = [task EXCEPT ![s].pc = "answered"] /\ unread' = unread \cup {d}
    BY <1>1, <1>3, <2>2 DEF Read
  <2> QED
    BY <1>2, <2>1, <2>2
<1>5. unread \subseteq unread' /\ unread' \subseteq unread \cup {d} /\ cloud[d].value # 0
  BY <1>2, <1>3
<1>6. Histories' /\ Reading'
  BY <1>2, <1>3, <1>4, <1>5 DEF Inv, Types, Histories, Reading
<1>7. ReadOld'
  BY <1>2, <1>3, <1>4 DEF Inv, ReadOld
<1>8. NotOvertaken'
  BY <1>2, <1>3, <1>4 DEF Inv, NotOvertaken
<1>9. ReadScope'
  BY <1>1, <1>2, <1>4, <1>5 DEF Inv, ReadScope, ScopeIsAligned, Slot
<1>10. Tended'
  <2>1. SUFFICES ASSUME Settled, ScopeIsAligned \/ InRound, NEW e \in HomeDevices, cached[e], leaf[e] = 0
                 PROVE  Watched(e)'
    BY <1>2 DEF Tended, Settled, ScopeIsAligned, InRound, HomeDevices, InHome
  <2>2. Watched(e)
    BY <2>1 DEF Inv, Tended
  <2> QED
    BY <1>1, <1>2, <1>4, <1>5, <2>2 DEF Watched, CaredFor, Slot
<1> QED
  BY <1>2, <1>6, <1>7, <1>8, <1>9, <1>10, Untouched DEF Inv, Types

LEMMA WritePulledInv ==
  ASSUME Inv, NEW s \in Slot, WritePulled(s)
  PROVE  Inv'
<1>1. PICK d, v : d = task[s].device /\ v = task[s].value
  OBVIOUS
<1>2. /\ UNCHANGED <<cloud, channel, home, scope, aligned, cached, flag, align, switch, refresh,
                     settling, noted, quiet, unread, count>>
      /\ task[s].pc = "answered"
      /\ attempts' = IF s # "reconnect" /\ scope = task[s].scope
                       THEN [attempts EXCEPT ![d] = task[s].used + 1] ELSE attempts
      /\ \/ MayWrite(task[s]) /\ leaf' = [leaf EXCEPT ![d] = v] /\ task' = [Reported(d) EXCEPT ![s] = Idle]
         \/ ~MayWrite(task[s]) /\ leaf' = leaf /\ task' = [task EXCEPT ![s] = Idle]
  BY <1>1 DEF WritePulled, world, history
<1>3. /\ Reading /\ task[s] \in Read /\ d \in Device /\ v \in Nat /\ v <= cloud[d].value
      /\ task[s].used \in Nat /\ (s # "reconnect" => task[s].used < TopUpMax)
      /\ leaf \in [Device -> Nat] /\ attempts \in [Device -> Nat] /\ cloud[d].value \in Nat
  BY <1>1, <1>2, Facts DEF Inv, Types, World, Container, TopUps, Reading, Read, ReadOld
<1>4. /\ task' \in [Slot -> {Idle} \cup Read] /\ task'[s].pc = "idle"
      /\ \A t \in Slot : t # s /\ task[t].pc # "idle" =>
            /\ task'[t].pc = task[t].pc
            /\ task'[t].device = task[t].device /\ task'[t].value = task[t].value
            /\ task'[t].used = task[t].used /\ task'[t].scope = task[t].scope
            /\ ~task'[t].newer => ~task[t].newer /\ (leaf' = leaf \/ task[t].device # d)
      /\ \A t \in Slot : task[t].pc = "idle" => task'[t].pc = "idle"
  <2>1. CASE task' = [task EXCEPT ![s] = Idle] /\ leaf' = leaf
    BY <1>3, <2>1 DEF Reading, Idle
  <2>2. CASE task' = [Reported(d) EXCEPT ![s] = Idle]
    BY <1>3, <2>2, ReportedSame DEF Idle
  <2> QED
    BY <1>2, <2>1, <2>2
<1>5. /\ leaf' \in [Device -> Nat] /\ \A e \in Device : e # d => leaf'[e] = leaf[e]
      /\ leaf'[d] = v \/ leaf' = leaf
      /\ leaf' # leaf => v # 0 /\ ScopeIsAligned /\ InHome(d)
  BY <1>1, <1>2, <1>3 DEF MayWrite
<1>6. Container' /\ LeafOld'
  BY <1>2, <1>3, <1>5 DEF Inv, Types, Container, LeafOld
<1>7. TopUps'
  <2>1. task[s].used + 1 \in Nat /\ (s # "reconnect" => task[s].used + 1 <= TopUpMax)
    BY <1>3, Bounds
  <2> QED
    BY <1>2, <1>3, <2>1 DEF Inv, Types, TopUps
<1>8. Reading' /\ ReadOld'
  BY <1>2, <1>4 DEF Inv, Types, Reading, ReadOld
<1>9. NotOvertaken'
  <2>1. SUFFICES ASSUME NEW t \in Slot, task'[t].pc = "answered", ~task'[t].newer, task'[t].value # 0
                 PROVE  leaf'[task'[t].device] <= task'[t].value
    BY DEF NotOvertaken
  <2>2. /\ t # s /\ task[t].pc = "answered" /\ task'[t].device = task[t].device
        /\ task'[t].value = task[t].value /\ ~task[t].newer /\ (leaf' = leaf \/ task[t].device # d)
    BY <1>4, <2>1
  <2>3. task[t] \in Read
    BY <2>2, Facts DEF Inv
  <2>4. task[t].device \in Device
    BY <2>3 DEF Read
  <2> QED
    BY <1>5, <2>1, <2>2, <2>4 DEF Inv, NotOvertaken
<1>10. ReadScope'
  BY <1>2, <1>4 DEF Inv, ReadScope, ScopeIsAligned, Slot
<1>11. OnlyWritten' /\ OnlyThisHome'
  BY <1>2, <1>5 DEF Inv, OnlyWritten, OnlyThisHome, ScopeIsAligned, InHome
<1>12. Tended'
  <2>1. SUFFICES ASSUME Settled, ScopeIsAligned \/ InRound, NEW e \in HomeDevices, cached[e], leaf'[e] = 0
                 PROVE  Watched(e)'
    BY <1>2 DEF Tended, Settled, ScopeIsAligned, InRound, HomeDevices, InHome
  <2>2. leaf[e] = 0 /\ (e = d => leaf' = leaf)
    BY <1>5, <2>1 DEF HomeDevices
  <2>3. Watched(e)
    BY <2>1, <2>2 DEF Inv, Tended
  <2>4. CASE e = d /\ s # "reconnect" /\ scope = task[s].scope
    <3>1. ScopeIsAligned /\ (v = 0 => d \in unread)
      BY <1>1, <1>2, <2>4 DEF Inv, ReadScope, Slot
    <3>2. ~MayWrite(task[s])
      <4>1. SUFFICES ASSUME MayWrite(task[s]) PROVE FALSE
        OBVIOUS
      <4>2. v # 0
        BY <1>1, <4>1 DEF MayWrite
      <4>3. leaf' = [leaf EXCEPT ![d] = v]
        BY <1>2, <4>1
      <4> QED
        BY <1>3, <2>1, <2>4, <4>2, <4>3
    <3>3. v = 0
      BY <1>1, <2>1, <2>2, <2>4, <3>1, <3>2 DEF MayWrite, HomeDevices
    <3> QED
      BY <1>2, <2>4, <3>1, <3>3 DEF Watched
  <2>5. CASE e # d \/ s = "reconnect" \/ scope # task[s].scope
    <3>1. attempts'[e] = attempts[e]
      BY <1>2, <1>3, <2>5 DEF HomeDevices
    <3>2. CaredFor(e) => CaredFor(e)'
      BY <1>1, <1>2, <1>4, <2>5 DEF CaredFor, Slot
    <3> QED
      BY <1>2, <2>3, <3>1, <3>2 DEF Watched
  <2> QED
    BY <2>4, <2>5
<1> QED
  BY <1>2, <1>6, <1>7, <1>8, <1>9, <1>10, <1>11, <1>12, Untouched DEF Inv, Types

-----------------------------------------------------------------------------
(* The refresh and the switch.                                             *)
LEMMA RefreshElsewhereInv ==
  ASSUME Inv, RefreshElsewhere
  PROVE  Inv'
<1>1. /\ UNCHANGED <<cloud, channel, home, scope, aligned, cached, flag, leaf, align, switch,
                     settling, noted, attempts, task, quiet, unread>>
      /\ count' = [count EXCEPT !.refreshes = @ + 1] /\ RefreshStarts("other")
  BY DEF RefreshElsewhere, world, container, topUp, history
<1>2. /\ count' \in [reports : Nat, flaps : Nat, refreshes : Nat, pulls : Nat, switches : Nat]
      /\ count'.reports = count.reports /\ count'.switches = count.switches
  <2>1. count \in [reports : Nat, flaps : Nat, refreshes : Nat, pulls : Nat, switches : Nat]
    BY DEF Inv, Types, World
  <2> QED
    BY <1>1, <2>1
<1>3. World'
  BY <1>1, <1>2 DEF Inv, Types, World
<1>4. refresh' \in Refresh /\ refresh'.scope = scope /\ refresh'.by = "other"
  BY <1>1 DEF RefreshStarts, Refresh, Inv, Types, Scoped
<1>5. Refreshing' /\ RefreshScope'
  BY <1>1, <1>4 DEF Refreshing, RefreshScope
<1> QED
  BY <1>1, <1>2, <1>3, <1>5, Untouched DEF Inv, Types

LEMMA RefreshReadsInv ==
  ASSUME Inv, RefreshReads
  PROVE  Inv'
<1>1. /\ UNCHANGED <<cloud, channel, home, scope, aligned, cached, flag, leaf, align, switch,
                     settling, noted, attempts, task, quiet, unread, count>>
      /\ refresh.pc = "asked"
      /\ refresh' = [refresh EXCEPT !.pc = "answered", !.online = [d \in Device |-> cloud[d].online]]
  BY DEF RefreshReads, world, container, topUp, history
<1>2. refresh \in Refresh /\ [d \in Device |-> cloud[d].online] \in [Device -> BOOLEAN]
  BY <1>1, Facts DEF Inv, Types, World
<1>3. refresh' \in Refresh /\ refresh'.scope = refresh.scope /\ refresh'.by = refresh.by
  BY <1>1, <1>2 DEF Refresh
<1>4. Refreshing' /\ RefreshScope'
  BY <1>1, <1>3 DEF Inv, Refreshing, RefreshScope
<1> QED
  BY <1>1, <1>4, Untouched DEF Inv, Types

(* The end of a refresh takes the switch it belongs to one step further.   *)
LEMMA RebuildOverInv ==
  ASSUME Inv, refresh.pc # "idle", RebuildOver, refresh' = Idle,
         UNCHANGED <<home, scope, aligned, align, count>>
  PROVE  /\ Scoped' /\ Refreshing' /\ RoundScope' /\ RoundHome' /\ RefreshScope'
         /\ Settled' = Settled /\ switch'.waiting = switch.waiting
         /\ switch.pc = "begun" <=> switch'.pc = "begun"
<1>1. /\ switch \in [pc : {"idle", "begun", "cleared", "rebuilding", "rebuilt"}, waiting : Nat]
      /\ refresh.by = "switch" => switch.pc = "rebuilding"
  BY DEF Inv, Types, Scoped, RefreshScope
<1>2. /\ switch' \in [pc : {"idle", "begun", "cleared", "rebuilding", "rebuilt"}, waiting : Nat]
      /\ switch'.waiting = switch.waiting
      /\ switch' = switch \/ (switch.pc = "rebuilding" /\ switch'.pc = "rebuilt")
  BY <1>1 DEF RebuildOver
<1>3. Scoped' /\ Refreshing'
  BY <1>2 DEF Inv, Types, Scoped, Refreshing
<1>4. RefreshScope'
  BY DEF RefreshScope, Idle
<1>5. Settled' = Settled /\ (switch.pc = "begun" <=> switch'.pc = "begun")
  BY <1>2 DEF Settled
<1>6. RoundScope' /\ RoundHome'
  BY <1>2, <1>5 DEF Inv, RoundScope, RoundHome, InRound, HomeDevices, InHome
<1> QED
  BY <1>2, <1>3, <1>4, <1>5, <1>6

LEMMA RefreshAppliesInv ==
  ASSUME Inv, RefreshApplies
  PROVE  Inv'
<1>1. /\ UNCHANGED <<cloud, channel, home, scope, aligned, align, settling, noted, attempts, task, unread, count>>
      /\ refresh.pc = "answered" /\ refresh' = Idle /\ RebuildOver
      /\ cached' = refresh.online
      /\ quiet' = quiet \cup {d \in Device : ~cached[d] /\ refresh.online[d]}
      /\ IF refresh.scope # scope THEN UNCHANGED <<flag, leaf>>
         ELSE /\ flag' = [d \in Device |-> IF InHome(d) THEN Flag(refresh.online[d]) ELSE "absent"]
              /\ leaf' = [d \in Device |-> IF InHome(d) THEN leaf[d] ELSE 0]
  BY DEF RefreshApplies, world, container, topUp
<1>2. /\ Scoped' /\ Refreshing' /\ RoundScope' /\ RoundHome' /\ RefreshScope'
      /\ Settled' = Settled /\ switch'.waiting = switch.waiting
      /\ switch.pc = "begun" <=> switch'.pc = "begun"
  BY <1>1, RebuildOverInv
<1>3. /\ refresh \in Refresh /\ cached' \in [Device -> BOOLEAN]
      /\ refresh.scope # scope => switch.pc # "idle" /\ switch.pc # "rebuilding"
  BY <1>1, Facts DEF Inv, Types, Refresh, RefreshScope
<1>4. /\ flag' \in [Device -> {"absent", "on", "off"}] /\ leaf' \in [Device -> Nat]
      /\ \A d \in Device : leaf'[d] = leaf[d] \/ (leaf'[d] = 0 /\ ~InHome(d))
      /\ refresh.scope = scope =>
            \A d \in Device : /\ InHome(d) => flag'[d] = Flag(cached'[d]) /\ leaf'[d] = leaf[d]
                              /\ ~InHome(d) => flag'[d] = "absent" /\ leaf'[d] = 0
  <2>1. flag \in [Device -> {"absent", "on", "off"}] /\ leaf \in [Device -> Nat]
    BY DEF Inv, Types, Container
  <2> QED
    BY <1>1, <2>1 DEF Flag
<1>5. Container' /\ Histories'
  BY <1>1, <1>3, <1>4 DEF Inv, Types, Container, Histories
<1>6. LeafOld' /\ NotOvertaken'
  <2>1. \A d \in Device : leaf[d] \in Nat /\ leaf'[d] \in Nat /\ leaf'[d] <= leaf[d] /\ cloud[d].value \in Nat
    <3>1. leaf \in [Device -> Nat] /\ \A d \in Device : cloud[d].value \in Nat
      BY DEF Inv, Types, Container, World
    <3> QED
      BY <1>4, <3>1
  <2>2. LeafOld'
    BY <1>1, <2>1 DEF Inv, LeafOld
  <2>3. NotOvertaken'
    <3>1. SUFFICES ASSUME NEW s \in Slot, task[s].pc = "answered", ~task[s].newer, task[s].value # 0
                   PROVE  leaf'[task[s].device] <= task[s].value
      BY <1>1 DEF NotOvertaken
    <3>2. task[s] \in Read
      BY <3>1, Facts DEF Inv
    <3>3. task[s].device \in Device /\ task[s].value \in Nat
      BY <3>2 DEF Read
    <3>4. leaf[task[s].device] <= task[s].value
      BY <3>1 DEF Inv, NotOvertaken
    <3> QED
      BY <2>1, <3>3, <3>4
  <2> QED
    BY <2>2, <2>3
<1>7. OnlyWritten'
  BY <1>1, <1>2, <1>4 DEF Inv, OnlyWritten
<1>8. OnlyThisHome'
  BY <1>1, <1>2, <1>3, <1>4 DEF Inv, OnlyThisHome, InHome
<1>9. FlagsSoFar'
  <2>1. Settled => refresh.scope = scope
    BY <1>3 DEF Settled
  <2> QED
    BY <1>1, <1>2, <1>4, <2>1 DEF FlagsSoFar, HomeDevices, InHome
<1>10. Tended'
  <2>1. SUFFICES ASSUME Settled, ScopeIsAligned \/ InRound, NEW e \in HomeDevices, cached'[e], leaf'[e] = 0
                 PROVE  Watched(e)'
    BY <1>1, <1>2 DEF Tended, ScopeIsAligned, InRound, HomeDevices, InHome
  <2>2. leaf[e] = 0
    BY <1>4, <2>1 DEF HomeDevices
  <2>3. CASE ~cached[e]
    BY <1>1, <2>1, <2>3 DEF Watched, HomeDevices
  <2>4. CASE cached[e]
    <3>1. Watched(e)
      BY <2>1, <2>2, <2>4 DEF Inv, Tended
    <3> QED
      BY <1>1, <3>1 DEF Watched, CaredFor
  <2> QED
    BY <2>3, <2>4
<1> QED
  BY <1>1, <1>2, <1>5, <1>6, <1>7, <1>8, <1>9, <1>10, Untouched DEF Inv, Types

LEMMA RefreshFailsInv ==
  ASSUME Inv, RefreshFails
  PROVE  Inv'
<1>1. /\ UNCHANGED <<cloud, channel, home, scope, aligned, cached, flag, leaf, align,
                     settling, noted, attempts, task, quiet, unread, count>>
      /\ refresh.pc = "asked" /\ refresh' = Idle /\ RebuildOver
  BY DEF RefreshFails, world, container, topUp, history
<1>2. /\ Scoped' /\ Refreshing' /\ RoundScope' /\ RoundHome' /\ RefreshScope'
      /\ Settled' = Settled /\ switch'.waiting = switch.waiting
      /\ switch.pc = "begun" <=> switch'.pc = "begun"
  BY <1>1, RebuildOverInv
<1>3. OnlyWritten' /\ OnlyThisHome' /\ FlagsSoFar'
  BY <1>1, <1>2 DEF Inv, OnlyWritten, OnlyThisHome, FlagsSoFar, ScopeIsAligned, HomeDevices, InHome
<1>4. Tended'
  BY <1>1, <1>2 DEF Inv, Tended, Watched, CaredFor, InRound, ScopeIsAligned, HomeDevices, InHome
<1> QED
  BY <1>1, <1>2, <1>3, <1>4, Untouched DEF Inv, Types

LEMMA SwitchHomeInv ==
  ASSUME Inv, NEW h \in Home, SwitchHome(h)
  PROVE  Inv'
<1>1. /\ UNCHANGED <<cloud, channel, scope, aligned, cached, flag, leaf, align, refresh,
                     settling, noted, attempts, task, quiet, unread>>
      /\ home' = h /\ switch' = [switch EXCEPT !.waiting = @ + 1]
      /\ count.switches < MaxSwitches /\ count' = [count EXCEPT !.switches = @ + 1]
  BY DEF SwitchHome, world, container, topUp, history
<1>2. /\ switch \in [pc : {"idle", "begun", "cleared", "rebuilding", "rebuilt"}, waiting : Nat]
      /\ count \in [reports : Nat, flaps : Nat, refreshes : Nat, pulls : Nat, switches : Nat]
      /\ scope \in Nat /\ scope + switch.waiting = count.switches + 1
  BY DEF Inv, Types, World, Scoped
<1>3. /\ count' \in [reports : Nat, flaps : Nat, refreshes : Nat, pulls : Nat, switches : Nat]
      /\ count'.reports = count.reports /\ count'.switches = count.switches + 1
      /\ switch' \in [pc : {"idle", "begun", "cleared", "rebuilding", "rebuilt"}, waiting : Nat]
      /\ switch'.pc = switch.pc /\ switch'.waiting = switch.waiting + 1
  BY <1>1, <1>2
<1>4. count'.switches <= MaxSwitches /\ scope + switch'.waiting = count'.switches + 1 /\ switch'.waiting # 0
  BY <1>1, <1>2, <1>3, Bounds
<1>5. World' /\ Scoped' /\ Container'
  BY <1>1, <1>3, <1>4 DEF Inv, Types, World, Scoped, Container
<1>6. /\ RoundScope' /\ RoundHome' /\ RefreshScope' /\ OnlyWritten' /\ OnlyThisHome' /\ FlagsSoFar' /\ Tended'
  BY <1>1, <1>3, <1>4 DEF Inv, RoundScope, RoundHome, RefreshScope, OnlyWritten, OnlyThisHome, FlagsSoFar,
     Tended, Settled, InRound
<1> QED
  BY <1>1, <1>5, <1>6, Untouched DEF Inv, Types

LEMMA SwitchBeginsInv ==
  ASSUME Inv, SwitchBegins
  PROVE  Inv'
<1>1. /\ UNCHANGED <<cloud, channel, home, aligned, cached, flag, leaf, refresh, settling, quiet, count>>
      /\ switch.pc = "idle" /\ switch.waiting > 0
      /\ switch' = [pc |-> "begun", waiting |-> switch.waiting - 1]
      /\ scope' = scope + 1
      /\ attempts' = [d \in Device |-> 0] /\ noted' = {}
      /\ align' = Idle /\ task' = [task EXCEPT !["drain"] = Idle] /\ unread' = {}
  BY DEF SwitchBegins, world, container
<1>2. /\ switch.waiting \in Nat /\ scope \in Nat /\ aligned \in Nat /\ aligned <= scope
      /\ count.switches \in Nat /\ scope + switch.waiting = count.switches + 1
  BY DEF Inv, Types, World, Scoped
<1>3. /\ switch' \in [pc : {"idle", "begun", "cleared", "rebuilding", "rebuilt"}, waiting : Nat]
      /\ switch'.pc = "begun" /\ switch'.waiting = switch.waiting - 1
      /\ scope' + switch'.waiting = count.switches + 1 /\ aligned # scope' /\ aligned <= scope'
      /\ scope' \in Nat \ {0} /\ scope < scope' /\ align'.pc = "idle"
  BY <1>1, <1>2 DEF Idle
<1>4. Scoped' /\ TopUps' /\ Histories' /\ Aligning'
  BY <1>1, <1>3, Bounds DEF Inv, Types, Scoped, TopUps, Histories, Aligning
<1>5. /\ task' \in [Slot -> {Idle} \cup Read] /\ task'["drain"].pc = "idle"
      /\ \A s \in Slot : s # "drain" => task'[s] = task[s]
  BY <1>1 DEF Inv, Types, Reading, Slot, Idle
<1>6. Reading' /\ ReadOld' /\ NotOvertaken'
  BY <1>1, <1>5 DEF Inv, Types, Reading, ReadOld, NotOvertaken
<1>7. ReadScope'
  <2>1. SUFFICES ASSUME task["debounced"].pc # "idle"
                 PROVE  task["debounced"].scope <= scope' /\ task["debounced"].scope # scope'
    BY <1>5 DEF ReadScope, Slot
  <2>2. task["debounced"] \in Read
    BY <2>1, Facts DEF Inv, Slot
  <2>3. task["debounced"].scope \in Nat /\ task["debounced"].scope <= scope
    BY <2>1, <2>2 DEF Inv, ReadScope, Read
  <2> QED
    BY <1>1, <1>2, <2>3
<1>8. RoundOld' /\ RoundScope' /\ RoundHome' /\ RefreshScope'
  BY <1>1, <1>3 DEF Inv, RoundOld, RoundScope, RoundHome, RefreshScope, InRound, Settled
<1>9. OnlyWritten' /\ OnlyThisHome' /\ FlagsSoFar' /\ Tended'
  BY <1>3 DEF OnlyWritten, OnlyThisHome, FlagsSoFar, Tended, Settled
<1> QED
  BY <1>1, <1>4, <1>6, <1>7, <1>8, <1>9, Untouched DEF Inv, Types

LEMMA SwitchClearsInv ==
  ASSUME Inv, SwitchClears
  PROVE  Inv'
<1>1. /\ UNCHANGED <<cloud, channel, home, scope, aligned, cached, align, refresh,
                     settling, noted, attempts, task, quiet, unread, count>>
      /\ switch.pc = "begun" /\ switch' = [switch EXCEPT !.pc = "cleared"]
      /\ flag' = [d \in Device |-> "absent"] /\ leaf' = [d \in Device |-> 0]
  BY DEF SwitchClears, world, topUp, history
<1>2. /\ switch' \in [pc : {"idle", "begun", "cleared", "rebuilding", "rebuilt"}, waiting : Nat]
      /\ switch'.pc = "cleared" /\ switch'.waiting = switch.waiting
  BY <1>1 DEF Inv, Types, Scoped
<1>3. Scoped' /\ Container'
  BY <1>1, <1>2 DEF Inv, Types, Scoped, Container
<1>4. LeafOld'
  BY <1>1 DEF Inv, Types, World, LeafOld
<1>5. NotOvertaken'
  <2>1. \A s \in Slot : task[s].pc = "answered" => task[s].device \in Device /\ task[s].value \in Nat
    BY Facts DEF Inv, Read
  <2> QED
    BY <1>1, <2>1 DEF NotOvertaken
<1>6. RoundScope' /\ RoundHome' /\ RefreshScope'
  BY <1>1, <1>2 DEF Inv, RoundScope, RoundHome, RefreshScope, Settled, InRound
<1>7. OnlyWritten' /\ OnlyThisHome' /\ FlagsSoFar' /\ Tended'
  BY <1>1, <1>2 DEF OnlyWritten, OnlyThisHome, FlagsSoFar, Tended, Settled
<1> QED
  BY <1>1, <1>3, <1>4, <1>5, <1>6, <1>7, Untouched DEF Inv, Types

LEMMA SwitchRebuildsInv ==
  ASSUME Inv, SwitchRebuilds
  PROVE  Inv'
<1>1. /\ UNCHANGED <<cloud, channel, home, scope, aligned, cached, flag, leaf, align,
                     settling, noted, attempts, task, quiet, unread, count>>
      /\ switch.pc = "cleared" /\ switch' = [switch EXCEPT !.pc = "rebuilding"]
      /\ RefreshStarts("switch")
  BY DEF SwitchRebuilds, world, container, topUp, history
<1>2. /\ switch' \in [pc : {"idle", "begun", "cleared", "rebuilding", "rebuilt"}, waiting : Nat]
      /\ switch'.pc = "rebuilding" /\ switch'.waiting = switch.waiting
  BY <1>1 DEF Inv, Types, Scoped
<1>3. refresh' \in Refresh /\ refresh'.scope = scope
  BY <1>1 DEF RefreshStarts, Refresh, Inv, Types, Scoped
<1>4. Scoped' /\ Refreshing' /\ RefreshScope'
  BY <1>1, <1>2, <1>3 DEF Inv, Types, Scoped, Refreshing, RefreshScope
<1>5. RoundScope' /\ RoundHome' /\ OnlyWritten' /\ OnlyThisHome' /\ FlagsSoFar' /\ Tended'
  BY <1>1, <1>2 DEF Inv, RoundScope, RoundHome, OnlyWritten, OnlyThisHome, FlagsSoFar, Tended, Settled,
     InRound, InHome
<1> QED
  BY <1>1, <1>4, <1>5, Untouched DEF Inv, Types

LEMMA SwitchRealignsInv ==
  ASSUME Inv, SwitchRealigns
  PROVE  Inv'
<1>1. /\ UNCHANGED <<cloud, channel, home, scope, aligned, cached, flag, leaf, refresh,
                     settling, noted, attempts, task, unread, count>>
      /\ switch.pc = "rebuilt" /\ switch' = [switch EXCEPT !.pc = "idle"]
      /\ align' = AlignAt(scope, 1) /\ quiet' = {}
  BY DEF SwitchRealigns, world, container, topUp
<1>2. /\ switch' \in [pc : {"idle", "begun", "cleared", "rebuilding", "rebuilt"}, waiting : Nat]
      /\ switch'.pc = "idle" /\ switch'.waiting = switch.waiting
  BY <1>1 DEF Inv, Types, Scoped
<1>3. align = Idle /\ ~ScopeIsAligned
  BY <1>1 DEF Inv, RoundScope, ScopeIsAligned
<1>4. \A d \in Device : leaf[d] = 0
  BY <1>1, <1>3 DEF Inv, OnlyWritten, ScopeIsAligned, Idle
<1>5. /\ Aligning' /\ RoundOld' /\ RoundScope' /\ RoundHome' /\ OnlyWritten' /\ FlagsSoFar' /\ Tended'
  BY <1>1, <1>2, <1>3, <1>4, NewRound
<1>6. Scoped' /\ Histories' /\ OnlyThisHome' /\ RefreshScope'
  BY <1>1, <1>2 DEF Inv, Types, Scoped, Histories, OnlyThisHome, RefreshScope, InHome
<1> QED
  BY <1>1, <1>5, <1>6, Untouched DEF Inv, Types

-----------------------------------------------------------------------------
(* The invariant.                                                          *)
LEMMA InitInv == Init => Inv
<1> SUFFICES ASSUME Init PROVE Inv
  OBVIOUS
<1>1. /\ cloud \in [Device -> [online : BOOLEAN, value : {1}]] /\ channel = <<>>
      /\ home \in Home /\ scope = 1 /\ aligned = 0
      /\ cached = [d \in Device |-> cloud[d].online]
      /\ flag = [d \in Device |-> "absent"] /\ leaf = [d \in Device |-> 0]
      /\ align = AlignAt(1, 1) /\ switch = [pc |-> "idle", waiting |-> 0] /\ refresh = Idle
      /\ settling = {} /\ noted = {} /\ attempts = [d \in Device |-> 0]
      /\ task = [s \in Slot |-> Idle] /\ quiet = {} /\ unread = {}
      /\ count = [reports |-> 0, flaps |-> 0, refreshes |-> 0, pulls |-> 0, switches |-> 0]
  BY DEF Init
<1>2. \A d \in Device : cloud[d].value = 1
  BY <1>1
<1>3. /\ cloud \in [Device -> [online : BOOLEAN, value : Nat]] /\ channel \in Seq(Push) /\ Len(channel) = 0
  <2>1. [online : BOOLEAN, value : {1}] \subseteq [online : BOOLEAN, value : Nat]
    OBVIOUS
  <2> QED
    BY <1>1, <2>1
<1>4. World
  BY <1>1, <1>2, <1>3, Bounds DEF World
<1>5. Container /\ TopUps /\ Histories /\ Scoped
  BY <1>1, <1>3, Bounds DEF Container, TopUps, Histories, Scoped
<1>6. /\ align.pc = "collect" /\ align.scope = 1 /\ align.todo = HomeDevices
      /\ align.known = {} /\ align.asked = {} /\ align \in Round
  BY <1>1, Bounds DEF AlignAt, Round
<1>7. \A s \in Slot : task[s] = Idle /\ task[s].pc = "idle"
  BY <1>1 DEF Idle
<1>8. Aligning /\ Refreshing /\ Reading
  BY <1>1, <1>6, <1>7 DEF Aligning, Refreshing, Reading
<1>9. LeafOld /\ RoundOld /\ ReadOld /\ NotOvertaken /\ ReadScope
  BY <1>1, <1>2, <1>6, <1>7 DEF LeafOld, RoundOld, ReadOld, NotOvertaken, ReadScope, Slot
<1>10. PushOld
  BY <1>3 DEF PushOld
<1>11. RoundScope /\ RoundHome /\ RefreshScope
  BY <1>1, <1>6 DEF RoundScope, RoundHome, RefreshScope, Idle
<1>12. OnlyWritten /\ OnlyThisHome /\ FlagsSoFar
  BY <1>1, <1>6 DEF OnlyWritten, OnlyThisHome, FlagsSoFar, ScopeIsAligned
<1>13. Tended
  BY <1>6 DEF Tended, Watched
<1> QED
  BY <1>4, <1>5, <1>8, <1>9, <1>10, <1>11, <1>12, <1>13 DEF Inv, Types

LEMMA StepInv ==
  ASSUME Inv, Next
  PROVE  Inv'
<1>1. CASE \E d \in Device : DeviceReports(d) \/ DeviceFlaps(d)
  BY <1>1, DeviceReportsInv, DeviceFlapsInv
<1>2. CASE PushState \/ PushProp
  BY <1>2, PushStateInv, PushPropInv
<1>3. CASE AlignStep
  BY <1>3, AlignFailsInv, CollectedInv, FlagsWrittenInv, ReadAllInv, RoundDoneInv, DrainEndsInv,
     CollectInv, WriteFlagInv, WriteDeviceInv, DrainNextInv DEF AlignStep
<1>4. CASE SwitchStep
  BY <1>4, SwitchBeginsInv, SwitchClearsInv, SwitchRebuildsInv, SwitchRealignsInv DEF SwitchStep
<1>5. CASE RefreshStep
  BY <1>5, RefreshReadsInv, RefreshAppliesInv, RefreshFailsInv DEF RefreshStep
<1>6. CASE \E d \in Device : DebounceFires(d) \/ Reconnect(d)
  BY <1>6, DebounceFiresInv, ReconnectInv
<1>7. CASE \E s \in Slot : TaskStep(s)
  BY <1>7, AskMissingInv, ReadOneInv, WritePulledInv DEF TaskStep
<1>8. CASE RefreshElsewhere
  BY <1>8, RefreshElsewhereInv
<1>9. CASE \E h \in Home : SwitchHome(h)
  BY <1>9, SwitchHomeInv
<1> QED
  BY <1>1, <1>2, <1>3, <1>4, <1>5, <1>6, <1>7, <1>8, <1>9 DEF Next

LEMMA StutterInv ==
  ASSUME Inv, UNCHANGED vars
  PROVE  Inv'
<1>1. UNCHANGED <<cloud, channel, home, scope, aligned, cached, flag, leaf, align, switch,
                  refresh, settling, noted, attempts, task, quiet, unread, count>>
  BY DEF vars
<1> QED
  BY <1>1, Untouched DEF Inv, Types

LEMMA Invariance == Spec => []Inv
<1>1. Inv /\ [Next]_vars => Inv'
  BY StepInv, StutterInv
<1> QED
  BY InitInv, <1>1, PTL DEF Spec

(* The container holds only devices of the enabled home, with the flags of *)
(* the device cache, but for the time of a switch: collect_params and      *)
(* write_online_flags, the refresh and the clearing may overlap in any     *)
(* order with pushes.                                                      *)
THEOREM HomeHolds == Spec => []HomeInv
<1>1. Inv => HomeInv
  <2>1. SUFFICES ASSUME Inv PROVE HomeInv
    OBVIOUS
  <2>2. TypeOK
    BY <2>1, TypesImplyTypeOK DEF Inv
  <2>3. FlagFollowsCache
    BY <2>1 DEF Inv, FlagsSoFar, FlagFollowsCache
  <2> QED
    BY <2>1, <2>2, <2>3 DEF Inv, HomeInv
<1> QED
  BY Invariance, <1>1, PTL

(* A device that a push reported online and that has no value is being     *)
(* taken care of, for any number of devices and of attempts.               *)
THEOREM NobodyIsForgotten == Spec => []NobodyForgotten
<1>1. Inv => NobodyForgotten
  <2>1. SUFFICES ASSUME Inv, Settled, ScopeIsAligned, NEW d \in HomeDevices, cached[d], leaf[d] = 0
                 PROVE  CaredFor(d) \/ d \in quiet \/ d \in unread \/ attempts[d] >= TopUpMax
    BY DEF NobodyForgotten
  <2>2. Watched(d) /\ ~InRound
    BY <2>1, InTheRound DEF Inv, Tended
  <2> QED
    BY <2>2 DEF Watched, InRound
<1> QED
  BY Invariance, <1>1, PTL

(* No value read from the cloud replaces a newer one, and once the scope   *)
(* is aligned none is written for a device that is offline.                *)
THEOREM ReadsStayFresh == Spec => ReadsAreFresh
<1> DEFINE Fresh ==
      \A d \in Device :
         (/\ leaf'[d] # 0 /\ leaf'[d] # leaf[d]
          /\ leaf'[d] < leaf[d] \/ (ScopeIsAligned /\ ~cached[d]))
             => channel' # channel
<1>1. Inv /\ Next => Fresh
  <2>1. SUFFICES ASSUME Inv, Next, NEW d \in Device, leaf'[d] # 0, leaf'[d] # leaf[d], channel' = channel
                 PROVE  ~(leaf'[d] < leaf[d]) /\ (ScopeIsAligned => cached[d])
    OBVIOUS
  <2>0. leaf \in [Device -> Nat]
    BY <2>1 DEF Inv, Types, Container
  <2>2. ASSUME NEW e \in Device, WriteDevice(e) PROVE ~(leaf'[d] < leaf[d]) /\ (ScopeIsAligned => cached[d])
    <3>1. align.pc = "write" /\ e \in align.todo /\ InRound
      BY <2>2 DEF WriteDevice, InRound
    <3>2. leaf' = [leaf EXCEPT ![e] = align.value[e]] /\ ~ScopeIsAligned /\ switch.pc = "idle"
      BY <2>1, <2>2, <3>1, InTheRound DEF WriteDevice
    <3>3. e = d
      BY <2>0, <2>1, <3>2
    <3>4. leaf[d] = 0
      BY <2>1, <3>1, <3>2, <3>3 DEF Inv, OnlyWritten, ScopeIsAligned
    <3>5. align.value[d] \in 1..cloud[d].value /\ cloud[d].value \in Nat
      BY <2>1, <3>1 DEF Inv, RoundOld, Types, World
    <3>6. leaf'[d] = align.value[d]
      BY <2>0, <3>2, <3>3
    <3> QED
      BY <3>2, <3>4, <3>5, <3>6
  <2>3. ASSUME NEW s \in Slot, WritePulled(s) PROVE ~(leaf'[d] < leaf[d]) /\ (ScopeIsAligned => cached[d])
    <3>1. task[s].pc = "answered" /\ MayWrite(task[s]) /\ leaf' = [leaf EXCEPT ![task[s].device] = task[s].value]
      BY <2>1, <2>3 DEF WritePulled
    <3>2. d = task[s].device /\ leaf'[d] = task[s].value
      BY <2>0, <2>1, <3>1
    <3>3. task[s].value # 0 /\ cached[d] /\ (leaf[d] = 0 \/ ~task[s].newer)
      BY <3>1, <3>2 DEF MayWrite
    <3>4. task[s].value \in Nat
      BY <2>1, <3>1, Facts DEF Inv, Read
    <3>5. leaf[d] = 0 \/ leaf[d] <= task[s].value
      BY <2>1, <3>1, <3>2, <3>3 DEF Inv, NotOvertaken
    <3> QED
      BY <2>0, <3>2, <3>3, <3>4, <3>5
  <2>4. CASE PushState \/ PushProp
    <3>1. channel # <<>> /\ channel' = Tail(channel) /\ channel \in Seq(Push)
      BY <2>1, <2>4 DEF PushState, PushProp, Inv, Types, World
    <3>2. Len(channel') = Len(channel) - 1 /\ Len(channel) \in Nat
      BY <3>1
    <3> QED
      BY <2>1, <3>2
  <2>5. CASE RefreshApplies
    <3>1. leaf'[d] = leaf[d] \/ leaf'[d] = 0
      BY <2>5 DEF RefreshApplies, container
    <3> QED
      BY <2>1, <3>1
  <2>6. CASE SwitchClears
    <3>1. leaf'[d] = 0
      BY <2>6 DEF SwitchClears
    <3> QED
      BY <2>1, <3>1
  <2>7. CASE UNCHANGED leaf
    BY <2>1, <2>7
  <2>8. \/ \E e \in Device : WriteDevice(e)
        \/ \E s \in Slot : WritePulled(s)
        \/ PushState \/ PushProp \/ RefreshApplies \/ SwitchClears
        \/ UNCHANGED leaf
    <3>1. CASE \E e \in Device : DeviceReports(e) \/ DeviceFlaps(e) \/ DebounceFires(e) \/ Reconnect(e)
      BY <3>1 DEF DeviceReports, DeviceFlaps, DebounceFires, Reconnect, container
    <3>2. CASE AlignStep
      BY <3>2 DEF AlignStep, AlignFails, Collected, FlagsWritten, ReadAll, RoundDone, DrainEnds,
         Collect, WriteFlag, DrainNext, container
    <3>3. CASE SwitchStep
      BY <3>3 DEF SwitchStep, SwitchBegins, SwitchRebuilds, SwitchRealigns, container
    <3>4. CASE RefreshStep
      BY <3>4 DEF RefreshStep, RefreshReads, RefreshFails, container
    <3>5. CASE \E s \in Slot : TaskStep(s)
      BY <3>5 DEF TaskStep, AskMissing, ReadOne, container
    <3>6. CASE RefreshElsewhere \/ \E h \in Home : SwitchHome(h)
      BY <3>6 DEF RefreshElsewhere, SwitchHome, container
    <3> QED
      BY <2>1, <3>1, <3>2, <3>3, <3>4, <3>5, <3>6 DEF Next
  <2> QED
    BY <2>2, <2>3, <2>4, <2>5, <2>6, <2>7, <2>8
<1>2. Inv /\ UNCHANGED vars => [Fresh]_vars
  OBVIOUS
<1>3. Inv /\ [Next]_vars => [Fresh]_vars
  BY <1>1, <1>2
<1> QED
  BY Invariance, <1>3, PTL DEF ReadsAreFresh, Spec
=============================================================================
