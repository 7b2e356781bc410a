---------------------------- MODULE DeviceState ----------------------------
(***************************************************************************)
(* How the devices of the current home get into the state container and    *)
(* stay current: the alignment that reads them all once per scope, the     *)
(* pushes of the cloud, the top-up of a device that comes online, the pull *)
(* after a reconnection, the refresh of the device list, and the switch of *)
(* the home, which starts a new scope while all of these may be waiting    *)
(* for the cloud.                                                          *)
(*                                                                         *)
(* A device has one readable property, whose values are numbered in the    *)
(* order the device takes them, and its online flag.  The step of a        *)
(* coroutine is the code between two answers of the cloud or two yields.   *)
(* The device cache is loaded, so looking a device up does not wait.       *)
(***************************************************************************)
EXTENDS Naturals, Sequences, FiniteSets

CONSTANTS
    Device,
    Home,
    HomeOf,       \* the home each device is in
    TopUpMax,     \* TOP_UP_MAX_ATTEMPTS
    AlignMax,     \* ALIGN_MAX_ATTEMPTS
    MaxReports,   \* bound on the values devices take after their first
    MaxFlaps,     \* bound on the changes between online and offline
    MaxSwitches,  \* bound on the switches of the home
    MaxRefreshes, \* bound on the refreshes from outside a switch
    MaxPulls      \* bound on the reconnections

ASSUME DeviceAssumption ==
    /\ HomeOf \in [Device -> Home]
    /\ {TopUpMax, AlignMax, MaxReports, MaxFlaps, MaxSwitches, MaxRefreshes, MaxPulls} \subseteq Nat
    /\ AlignMax > 0

VARIABLES
    cloud,      \* per device what the cloud knows: online, and the last value
    channel,    \* the pushes on their way
    home,       \* the enabled home, in the key-value store
    scope,      \* one more than the switches begun
    aligned,    \* the scope that has been aligned, 0 for none
    cached,     \* per device: online in the device cache
    flag,       \* container: status/online
    leaf,       \* container: the value at prop, 0 for no leaf
    align,      \* the alignment task
    switch,     \* the switch under way, and those waiting for its lock
    refresh,    \* refresh_devices, one at a time
    settling,   \* devices whose top-up is being debounced
    noted,      \* _top_up_pending
    attempts,   \* _top_up_attempts
    task,       \* the reads of single devices under way
    quiet,      \* history: devices a refresh, not a push, found online
    unread,     \* history: devices whose property could not be read
    count       \* how often what is bounded happened

vars == <<cloud, channel, home, scope, aligned, cached, flag, leaf, align, switch,
          refresh, settling, noted, attempts, task, quiet, unread, count>>

world     == <<cloud, channel>>
container == <<flag, leaf>>
topUp     == <<settling, noted, attempts>>
history   == <<quiet, unread>>

Slot == {"debounced", "drain", "reconnect"}
Idle == [pc |-> "idle"]

InHome(d) == HomeOf[d] = home
HomeDevices == {d \in Device : InHome(d)}
ScopeIsAligned == aligned = scope

AlignAt(s, tries) ==
    [pc |-> "collect", scope |-> s, tries |-> tries, todo |-> HomeDevices,
     known |-> {}, asked |-> {}, value |-> [d \in Device |-> 0]]

Init ==
    /\ cloud \in [Device -> [online : BOOLEAN, value : {1}]]
    /\ channel = <<>>
    /\ home \in Home /\ scope = 1 /\ aligned = 0
    /\ cached = [d \in Device |-> cloud[d].online]
    /\ flag = [d \in Device |-> "absent"] /\ leaf = [d \in Device |-> 0]
    /\ align = AlignAt(1, 1)
    /\ switch = [pc |-> "idle", waiting |-> 0]
    /\ refresh = Idle
    /\ settling = {} /\ noted = {} /\ attempts = [d \in Device |-> 0]
    /\ task = [s \in Slot |-> Idle]
    /\ quiet = {} /\ unread = {}
    /\ count = [reports |-> 0, flaps |-> 0, refreshes |-> 0, pulls |-> 0, switches |-> 0]

-----------------------------------------------------------------------------
(* The devices and the cloud.  A push is lost while the connection is      *)
(* down; those that come keep their order.                                 *)

Pushed(push) == channel' = Append(channel, push) \/ UNCHANGED channel

DeviceReports(d) ==
    /\ cloud[d].online
    /\ count.reports < MaxReports /\ count' = [count EXCEPT !.reports = @ + 1]
    /\ cloud' = [cloud EXCEPT ![d].value = @ + 1]
    /\ Pushed([device |-> d, value |-> cloud[d].value + 1])
    /\ UNCHANGED <<home, scope, aligned, cached, container, align, switch, refresh, topUp, task, history>>

DeviceFlaps(d) ==
    /\ count.flaps < MaxFlaps /\ count' = [count EXCEPT !.flaps = @ + 1]
    /\ cloud' = [cloud EXCEPT ![d].online = ~@]
    /\ Pushed([device |-> d, online |-> ~cloud[d].online])
    /\ UNCHANGED <<home, scope, aligned, cached, container, align, switch, refresh, topUp, task, history>>

-----------------------------------------------------------------------------
(* Pushes.                                                                 *)

Flag(online) == IF online THEN "on" ELSE "off"

(* A write to the leaf of d counts as newer for the pulls that are out.    *)
Reported(d) ==
    [s \in Slot |-> IF task[s].pc # "idle" /\ task[s].device = d
                      THEN [task[s] EXCEPT !.newer = TRUE] ELSE task[s]]

(* Online and offline: the cache, the flag, and the debounced top-up.      *)
PushState ==
    /\ channel # <<>> /\ "online" \in DOMAIN Head(channel)
    /\ channel' = Tail(channel)
    /\ LET d == Head(channel).device
           on == Head(channel).online
       IN  /\ cached' = [cached EXCEPT ![d] = on]
           /\ flag' = IF InHome(d) THEN [flag EXCEPT ![d] = Flag(on)] ELSE flag
           /\ settling' = IF on THEN settling \cup {d} ELSE settling
           /\ quiet' = quiet \ {d}
    /\ UNCHANGED <<cloud, home, scope, aligned, leaf, align, switch, refresh, noted, attempts, task, unread, count>>

(* A property: dropped until the scope is aligned, and out of home.        *)
PushGate(d) == ScopeIsAligned /\ InHome(d)

PushProp ==
    /\ channel # <<>> /\ "value" \in DOMAIN Head(channel)
    /\ channel' = Tail(channel)
    /\ LET d == Head(channel).device IN
         IF PushGate(d)
           THEN /\ leaf' = [leaf EXCEPT ![d] = Head(channel).value]
                /\ task' = Reported(d)
           ELSE UNCHANGED <<leaf, task>>
    /\ UNCHANGED <<cloud, home, scope, aligned, cached, flag, align, switch, refresh, topUp, history, count>>

-----------------------------------------------------------------------------
(* The alignment task: a round per attempt, see align_iot_state.           *)

MovedOn == align.scope # scope

(* Another attempt, or none: the scope is over or the attempts are.        *)
RoundFails ==
    align' = IF MovedOn \/ align.tries >= AlignMax THEN Idle
             ELSE AlignAt(align.scope, align.tries + 1)

(* The cloud or the device list fails, or the scope moved on.              *)
AlignFails ==
    /\ align.pc \in {"collect", "flags", "read"}
    /\ RoundFails
    /\ UNCHANGED <<world, home, scope, aligned, cached, container, switch, refresh, topUp, task, history, count>>

(* _collect_params, one device: an offline one gets its flag only.  The    *)
(* specification of an online one may be unavailable.                      *)
Collect(d) ==
    /\ align.pc = "collect" /\ d \in align.todo
    /\ \E ok \in BOOLEAN :
         /\ align' = [align EXCEPT !.todo = @ \ {d},
                                   !.known = IF cached[d] THEN @ \cup {d} ELSE @,
                                   !.asked = IF cached[d] /\ ok THEN @ \cup {d} ELSE @]
         /\ unread' = IF cached[d] /\ ~ok THEN unread \cup {d} ELSE unread
    /\ UNCHANGED <<world, home, scope, aligned, cached, container, switch, refresh, topUp, task, quiet, count>>

Collected ==
    /\ align.pc = "collect" /\ align.todo = {}
    /\ align' = [align EXCEPT !.pc = "flags", !.todo = HomeDevices]
    /\ UNCHANGED <<world, home, scope, aligned, cached, container, switch, refresh, topUp, task, history, count>>

(* _write_online_flags, one device: the flag is read again from the cache. *)
(* Mutant: the flag is the one collected.                                  *)
OnlineNow_AsCollected(d) == d \in align.known

OnlineNow(d) == IF InHome(d) THEN cached[d] ELSE d \in align.known

WriteFlag(d) ==
    /\ align.pc = "flags" /\ d \in align.todo /\ ~MovedOn
    /\ align' = [align EXCEPT !.todo = @ \ {d}]
    /\ flag' = [flag EXCEPT ![d] = Flag(OnlineNow(d))]
    /\ UNCHANGED <<world, home, scope, aligned, cached, leaf, switch, refresh, topUp, task, history, count>>

(* The scope is aligned; the top-ups noted meanwhile are drained.          *)
MarkAligned ==
    /\ aligned' = IF MovedOn THEN aligned ELSE align.scope
    /\ align' = [pc |-> "drain", drain |-> noted]
    /\ noted' = {}

FlagsWritten ==
    /\ align.pc = "flags" /\ align.todo = {}
    /\ IF align.asked = {} THEN MarkAligned
       ELSE /\ align' = [align EXCEPT !.pc = "read"]
            /\ UNCHANGED <<aligned, noted>>
    /\ UNCHANGED <<world, home, scope, cached, container, switch, refresh, settling, attempts, task, history, count>>

(* _read_values: what the cloud has of each device, nothing for some.      *)
ReadAll ==
    /\ align.pc = "read"
    /\ \E failed \in SUBSET align.asked :
         /\ align' = [align EXCEPT !.pc = "write", !.todo = align.asked \ failed,
                                   !.value = [d \in Device |-> cloud[d].value]]
         /\ unread' = unread \cup failed
    /\ UNCHANGED <<world, home, scope, aligned, cached, container, switch, refresh, topUp, task, quiet, count>>

(* _write_device: replaces what is at prop.                                *)
WriteDevice(d) ==
    /\ align.pc = "write" /\ d \in align.todo
    /\ IF MovedOn THEN RoundFails /\ UNCHANGED <<leaf, task>>
       ELSE /\ align' = [align EXCEPT !.todo = @ \ {d}]
            /\ leaf' = [leaf EXCEPT ![d] = align.value[d]]
            /\ task' = Reported(d)
    /\ UNCHANGED <<world, home, scope, aligned, cached, flag, switch, refresh, topUp, history, count>>

RoundDone ==
    /\ align.pc = "write" /\ align.todo = {}
    /\ MarkAligned
    /\ UNCHANGED <<world, home, scope, cached, container, switch, refresh, settling, attempts, task, history, count>>

-----------------------------------------------------------------------------
(* Reads of one device: the debounced top-up, the drain's, the pull after  *)
(* a reconnection.                                                         *)

(* _top_up_props up to its first wait; an unaligned scope notes the need.  *)
(* Mutant: a top-up in an unaligned scope is dropped.                      *)
NoteNeed_Dropped(d) == UNCHANGED noted

NoteNeed(d) == noted' = noted \cup {d}

StartTopUp(slot, d) ==
    IF ~ScopeIsAligned THEN NoteNeed(d) /\ UNCHANGED task
    ELSE /\ IF InHome(d) /\ cached[d] /\ attempts[d] < TopUpMax
              THEN task' = [task EXCEPT ![slot] =
                              [pc |-> "spec", device |-> d, scope |-> scope, used |-> attempts[d],
                               value |-> 0, newer |-> TRUE]]
              ELSE UNCHANGED task
         /\ UNCHANGED noted

DebounceFires(d) ==
    /\ d \in settling /\ task["debounced"].pc = "idle"
    /\ settling' = settling \ {d}
    /\ StartTopUp("debounced", d)
    /\ UNCHANGED <<world, home, scope, aligned, cached, container, align, switch, refresh, attempts, history, count>>

DrainNext(d) ==
    /\ align.pc = "drain" /\ d \in align.drain /\ task["drain"].pc = "idle"
    /\ align' = [align EXCEPT !.drain = @ \ {d}]
    /\ StartTopUp("drain", d)
    /\ UNCHANGED <<world, home, scope, aligned, cached, container, switch, refresh, settling, attempts, history, count>>

DrainEnds ==
    /\ align.pc = "drain" /\ align.drain = {} /\ task["drain"].pc = "idle"
    /\ align' = Idle
    /\ UNCHANGED <<world, home, scope, aligned, cached, container, switch, refresh, topUp, task, history, count>>

(* read_missing_props: with the specification, what is missing is asked.   *)
AskMissing(s) ==
    /\ task[s].pc = "spec"
    /\ LET d == task[s].device IN
         \/ /\ leaf[d] = 0
            /\ task' = [task EXCEPT ![s].pc = "asked"]
            /\ UNCHANGED unread
         \/ /\ leaf[d] # 0
            /\ task' = [task EXCEPT ![s] = Idle]
            /\ UNCHANGED unread
         \/ /\ task' = [task EXCEPT ![s] = Idle]
            /\ unread' = unread \cup {d}
    /\ UNCHANGED <<world, home, scope, aligned, cached, container, align, switch, refresh, topUp, quiet, count>>

(* _pull_iot_props: for a leaf that is there and may be behind.  A report  *)
(* in the millisecond of the start counts as newer.                        *)
Reconnect(d) ==
    /\ task["reconnect"].pc = "idle" /\ InHome(d) /\ cached[d]
    /\ count.pulls < MaxPulls /\ count' = [count EXCEPT !.pulls = @ + 1]
    /\ \E tie \in BOOLEAN :
         task' = [task EXCEPT !["reconnect"] =
                    [pc |-> "asked", device |-> d, scope |-> scope, used |-> 0,
                     value |-> 0, newer |-> tie]]
    /\ UNCHANGED <<world, home, scope, aligned, cached, container, align, switch, refresh, topUp, history>>

(* The cloud answers with what it has now, or not.                         *)
CloudAnswers(s) ==
    /\ task[s].pc = "asked"
    /\ LET d == task[s].device IN
         \/ /\ task' = [task EXCEPT ![s].pc = "answered", ![s].value = cloud[d].value]
            /\ UNCHANGED unread
         \/ /\ task' = [task EXCEPT ![s].pc = "answered"]
            /\ unread' = unread \cup {d}

ReadOne(s) ==
    /\ CloudAnswers(s)
    /\ UNCHANGED <<world, home, scope, aligned, cached, container, align, switch, refresh, topUp, quiet, count>>

(* write_pulled_props: every gate is judged again at the write.            *)
(* Mutant: a pulled value replaces any other.                              *)
MayWrite_AnyTime(t) == t.value # 0 /\ ScopeIsAligned /\ InHome(t.device) /\ cached[t.device]

MayWrite(t) ==
    /\ t.value # 0
    /\ ScopeIsAligned /\ InHome(t.device) /\ cached[t.device]
    /\ leaf[t.device] = 0 \/ ~t.newer

WritePulled(s) ==
    /\ task[s].pc = "answered"
    /\ LET t == task[s] IN
         /\ attempts' = IF s # "reconnect" /\ scope = t.scope
                          THEN [attempts EXCEPT ![t.device] = t.used + 1] ELSE attempts
         /\ IF MayWrite(t)
              THEN /\ leaf' = [leaf EXCEPT ![t.device] = t.value]
                   /\ task' = [Reported(t.device) EXCEPT ![s] = Idle]
              ELSE /\ task' = [task EXCEPT ![s] = Idle]
                   /\ UNCHANGED leaf
    /\ UNCHANGED <<world, home, scope, aligned, cached, flag, align, switch, refresh, settling, noted, history, count>>

-----------------------------------------------------------------------------
(* refresh_devices, from a switch or from elsewhere (a reconnection, the   *)
(* debounced device events, a request), under its lock.                    *)

RefreshStarts(by) ==
    /\ refresh.pc = "idle"
    /\ refresh' = [pc |-> "asked", by |-> by, scope |-> scope, online |-> [d \in Device |-> FALSE]]

RefreshElsewhere ==
    /\ count.refreshes < MaxRefreshes /\ count' = [count EXCEPT !.refreshes = @ + 1]
    /\ RefreshStarts("other")
    /\ UNCHANGED <<world, home, scope, aligned, cached, container, align, switch, topUp, task, history>>

RefreshReads ==
    /\ refresh.pc = "asked"
    /\ refresh' = [refresh EXCEPT !.pc = "answered", !.online = [d \in Device |-> cloud[d].online]]
    /\ UNCHANGED <<world, home, scope, aligned, cached, container, align, switch, topUp, task, history, count>>

RebuildOver == IF refresh.by = "switch" THEN switch' = [switch EXCEPT !.pc = "rebuilt"] ELSE UNCHANGED switch

(* The cache is replaced; unless the scope moved on, the devices of other  *)
(* homes are deleted and the flags written.                                *)
RefreshApplies ==
    /\ refresh.pc = "answered"
    /\ cached' = refresh.online
    /\ quiet' = quiet \cup {d \in Device : ~cached[d] /\ refresh.online[d]}
    /\ IF refresh.scope # scope THEN UNCHANGED container
       ELSE /\ flag' = [d \in Device |-> IF InHome(d) THEN Flag(refresh.online[d]) ELSE "absent"]
            /\ leaf' = [d \in Device |-> IF InHome(d) THEN leaf[d] ELSE 0]
    /\ refresh' = Idle
    /\ RebuildOver
    /\ UNCHANGED <<world, home, scope, aligned, align, topUp, task, unread, count>>

(* Mutant: a failed refresh ends the switch with it.                       *)
RefreshFails_Silently ==
    /\ refresh.pc = "asked" /\ refresh' = Idle
    /\ UNCHANGED <<world, home, scope, aligned, cached, container, align, switch, topUp, task, history, count>>

RefreshFails ==
    /\ refresh.pc = "asked" /\ refresh' = Idle
    /\ RebuildOver
    /\ UNCHANGED <<world, home, scope, aligned, cached, container, align, topUp, task, history, count>>

-----------------------------------------------------------------------------
(* switch_home: the enabled home is written at once, the rest follows in   *)
(* the background, one switch at a time.                                   *)

SwitchHome(h) ==
    /\ h # home /\ home' = h
    /\ count.switches < MaxSwitches /\ count' = [count EXCEPT !.switches = @ + 1]
    /\ switch' = [switch EXCEPT !.waiting = @ + 1]
    /\ UNCHANGED <<world, scope, aligned, cached, container, align, refresh, topUp, task, history>>

(* begin_scope_switch, and the alignment is cancelled, with the top-up it  *)
(* may be draining.                                                        *)
SwitchBegins ==
    /\ switch.pc = "idle" /\ switch.waiting > 0
    /\ switch' = [pc |-> "begun", waiting |-> switch.waiting - 1]
    /\ scope' = scope + 1
    /\ attempts' = [d \in Device |-> 0] /\ noted' = {}
    /\ align' = Idle
    /\ task' = [task EXCEPT !["drain"] = Idle]
    /\ unread' = {}
    /\ UNCHANGED <<world, home, aligned, cached, container, refresh, settling, quiet, count>>

SwitchClears ==
    /\ switch.pc = "begun" /\ switch' = [switch EXCEPT !.pc = "cleared"]
    /\ flag' = [d \in Device |-> "absent"] /\ leaf' = [d \in Device |-> 0]
    /\ UNCHANGED <<world, home, scope, aligned, cached, align, refresh, topUp, task, history, count>>

SwitchRebuilds ==
    /\ switch.pc = "cleared" /\ switch' = [switch EXCEPT !.pc = "rebuilding"]
    /\ RefreshStarts("switch")
    /\ UNCHANGED <<world, home, scope, aligned, cached, container, align, topUp, task, history, count>>

SwitchRealigns ==
    /\ switch.pc = "rebuilt" /\ switch' = [switch EXCEPT !.pc = "idle"]
    /\ align' = AlignAt(scope, 1)
    /\ quiet' = {}
    /\ UNCHANGED <<world, home, scope, aligned, cached, container, refresh, topUp, task, unread, count>>

-----------------------------------------------------------------------------
AlignStep ==
    \/ AlignFails \/ Collected \/ FlagsWritten \/ ReadAll \/ RoundDone \/ DrainEnds
    \/ \E d \in Device : Collect(d) \/ WriteFlag(d) \/ WriteDevice(d) \/ DrainNext(d)

SwitchStep == SwitchBegins \/ SwitchClears \/ SwitchRebuilds \/ SwitchRealigns

RefreshStep == RefreshReads \/ RefreshApplies \/ RefreshFails

TaskStep(s) == AskMissing(s) \/ ReadOne(s) \/ WritePulled(s)

Next ==
    \/ \E d \in Device : DeviceReports(d) \/ DeviceFlaps(d)
    \/ PushState \/ PushProp
    \/ AlignStep \/ SwitchStep \/ RefreshStep
    \/ \E d \in Device : DebounceFires(d) \/ Reconnect(d)
    \/ \E s \in Slot : TaskStep(s)
    \/ RefreshElsewhere
    \/ \E h \in Home : SwitchHome(h)

Spec == Init /\ [][Next]_vars

(* Every request to the cloud is answered or fails, and tasks get to run.  *)
FairSpec ==
    Spec /\ WF_vars(AlignStep) /\ WF_vars(SwitchStep) /\ WF_vars(RefreshStep)

-----------------------------------------------------------------------------
TypeOK ==
    /\ cloud \in [Device -> [online : BOOLEAN, value : 1..(MaxReports + 1)]]
    /\ home \in Home /\ scope \in 1..(MaxSwitches + 1) /\ aligned \in 0..scope
    /\ cached \in [Device -> BOOLEAN]
    /\ flag \in [Device -> {"absent", "on", "off"}]
    /\ leaf \in [Device -> 0..(MaxReports + 1)]
    /\ align.pc \in {"idle", "collect", "flags", "read", "write", "drain"}
    /\ switch \in [pc : {"idle", "begun", "cleared", "rebuilding", "rebuilt"}, waiting : 0..MaxSwitches]
    /\ refresh.pc \in {"idle", "asked", "answered"}
    /\ settling \subseteq Device /\ noted \subseteq Device
    /\ attempts \in [Device -> 0..TopUpMax]
    /\ \A s \in Slot : task[s].pc \in {"idle", "spec", "asked", "answered"}
    /\ quiet \subseteq Device /\ unread \subseteq Device

Settled == switch.pc = "idle" /\ switch.waiting = 0

(* The container never holds a device of another home once a switch has    *)
(* cleared it, whatever reads of the old scope come back afterwards.       *)
OnlyThisHome ==
    switch.waiting = 0 /\ switch.pc # "begun" =>
        \A d \in Device : ~InHome(d) => flag[d] = "absent" /\ leaf[d] = 0

(* In an aligned scope the flags are those of the device cache, although   *)
(* pushes arrive while the alignment collects and refreshes overlap with   *)
(* it and with a switch.                                                   *)
FlagFollowsCache ==
    Settled /\ ScopeIsAligned => \A d \in HomeDevices : flag[d] = Flag(cached[d])

(* The container is that of this home and of the device cache.             *)
HomeInv == TypeOK /\ OnlyThisHome /\ FlagFollowsCache

(* A device that came online by a push and has no value is one somebody    *)
(* still cares for: its top-up is debounced, noted, waiting in the drain   *)
(* or under way in this scope -- or it was tried and could not be read, or *)
(* has had all its attempts, which going offline while being read uses up. *)
CaredFor(d) ==
    \/ d \in settling \/ d \in noted
    \/ align.pc = "drain" /\ d \in align.drain
    \/ \E s \in {"debounced", "drain"} :
          task[s].pc # "idle" /\ task[s].device = d /\ task[s].scope = scope

NobodyForgotten ==
    Settled /\ ScopeIsAligned =>
        \A d \in HomeDevices :
            cached[d] /\ leaf[d] = 0 => CaredFor(d) \/ d \in quiet \/ d \in unread \/ attempts[d] >= TopUpMax

(* No value read from the cloud replaces a newer one: only a push that was *)
(* on its way while a later value was pulled can set a leaf back.  And     *)
(* what the cloud remembers of an offline device is not taken for its      *)
(* state: once the scope is aligned only a push writes such a leaf, even   *)
(* when the device goes offline while it is being read.                    *)
ReadsAreFresh ==
    [][\A d \in Device :
         (/\ leaf'[d] # 0 /\ leaf'[d] # leaf[d]
          /\ leaf'[d] < leaf[d] \/ (ScopeIsAligned /\ ~cached[d]))
             => channel' # channel]_vars

(* A switch that has begun ends with the new scope aligned, unless all its *)
(* attempts fail or another switch comes.                                  *)
SwitchEndsAligned ==
    switch.pc # "idle" ~> (ScopeIsAligned \/ (switch.pc = "idle" /\ align.pc = "idle") \/ switch.waiting > 0)
=============================================================================
