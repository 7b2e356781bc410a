--------------------------- MODULE CircuitBreaker ---------------------------
(***************************************************************************)
(* The process-wide circuit breaker of the omni (multimodal model) calls:  *)
(* perception/engine/omni/circuit_breaker.py, with everybody who touches   *)
(* it:                                                                     *)
(*   - the model calls of the inference threads (omni_client.call_omni),   *)
(*   - the automatic probe the perception tick starts                      *)
(*     (processor.drive_omni_probe, _run_omni_probe),                      *)
(*   - the "retry now" request (admin/router.retry_omni_probe),            *)
(*   - the settings requests and the calls' fingerprint check, which reset *)
(*     the breaker when the configuration changes.                         *)
(*                                                                         *)
(* A critical section of the breaker's lock is atomic.  Tick, retry and    *)
(* settings requests run on the main event loop; the calls run on other    *)
(* threads, so a call's step may fall between any two of theirs.  Error    *)
(* codes, messages, the length of a backoff and the listeners are left out.*)
(***************************************************************************)
EXTENDS Integers, Sequences, FiniteSets

CONSTANTS
    Calls,       \* the model calls that may be in flight together
    Probers,     \* the probes that may be in flight together
    Threshold,   \* consecutive_threshold
    MinSamples,  \* window_min_samples
    MaxSamples   \* bound of the model: calls that fit in the time window

ASSUME ThresholdAssumption == Threshold \in Nat \ {0}
ASSUME SamplesAssumption == MinSamples \in Nat \ {0} /\ MaxSamples \in Nat \ {0}

VARIABLES
    state,      \* _state
    failures,   \* _consecutive_failures, counted up to Threshold
    samples,    \* _samples: the successes (TRUE) and failures in the window
    next,       \* _next_probe_at_monotonic: none, soon (backoff), slow, or due
    inFlight,   \* _probe_in_flight
    stale,      \* _probe_epoch # _reset_epoch
    cooling,    \* less than RETRY_COOLDOWN_SEC since _last_probe_at
    call,       \* where each call is
    prober,     \* where each probe is
    overtaken,  \* history: probes sent before the breaker last closed
    slipped,    \* history: a reset fell between a retry's check and its retry_now
    fresh       \* history: failures recorded since the breaker last closed

window   == <<failures, samples, fresh>>
circuit  == <<state, next, stale, overtaken>>
vars     == <<state, failures, samples, next, inFlight, stale, cooling, call,
              prober, overtaken, slipped, fresh>>

Open       == {"open_recoverable", "open_config"}
States     == Open \cup {"closed", "half_open"}
Categories == {"config", "recoverable"}

\* The fewest failures that can open the breaker: the run of failures, or more
\* than half of the smallest window.
Evidence ==
    IF Threshold <= MinSamples \div 2 + 1 THEN Threshold ELSE MinSamples \div 2 + 1

UpTo(n, bound) == IF n > bound THEN bound ELSE n

Failed(window_) == Cardinality({i \in DOMAIN window_ : ~window_[i]})

ShouldOpen(run, window_) ==
    \/ run >= Threshold
    \/ Len(window_) >= MinSamples /\ 2 * Failed(window_) > Len(window_)

Sending == {p \in Probers : prober[p] = "probing"}

\* The main loop is inside retry_omni_probe between its checks and retry_now;
\* nothing else of the main loop runs there.
Asking == \E p \in Probers : prober[p] = "asking"

-----------------------------------------------------------------------------

Init ==
    /\ state = "closed"
    /\ failures = 0
    /\ samples = <<>>
    /\ next = "none"
    /\ inFlight = FALSE
    /\ stale = FALSE
    /\ cooling = FALSE
    /\ call = [c \in Calls |-> "idle"]
    /\ prober = [p \in Probers |-> "idle"]
    /\ overtaken = {}
    /\ slipped = FALSE
    /\ fresh = 0

(***************************************************************************)
(* Transitions, made under the lock.                                       *)
(***************************************************************************)

\* Mutated form: closing forgets the run of failures but not the window.
Close_KeepsSamples ==
    /\ state' = "closed"
    /\ stale' = TRUE
    /\ failures' = 0
    /\ UNCHANGED samples
    /\ next' = "none"
    /\ overtaken' = Sending
    /\ fresh' = 0

\* _transition_to_closed_locked: what is in flight is void from now on.
Close ==
    /\ state' = "closed"
    /\ stale' = TRUE
    /\ failures' = 0
    /\ samples' = <<>>
    /\ next' = "none"
    /\ overtaken' = Sending
    /\ fresh' = 0

OpenConfig ==
    /\ state' = "open_config"
    /\ next' = "slow"
    /\ UNCHANGED <<stale, overtaken>>

OpenRecoverable ==
    /\ state' = "open_recoverable"
    /\ next' = "soon"
    /\ UNCHANGED <<stale, overtaken>>

\* _append_sample: the new sample, after what has left the window is dropped.
Sampled(ok) ==
    {Append(SubSeq(samples, k, Len(samples)), ok) : k \in
        {i \in 1..(Len(samples) + 1) : Len(samples) - i + 2 <= MaxSamples}}

(***************************************************************************)
(* The model calls.                                                        *)
(***************************************************************************)

\* before_call lets a call through only while the breaker is closed.
CallStarts(c) ==
    /\ call[c] = "idle"
    /\ state = "closed"
    /\ call' = [call EXCEPT ![c] = "flying"]
    /\ UNCHANGED <<circuit, window, inFlight, cooling, prober, slipped>>

CallEnds(c) ==
    /\ call[c] = "flying"
    /\ call' = [call EXCEPT ![c] = "idle"]
    /\ UNCHANGED <<inFlight, cooling, prober, slipped>>

\* record_success
CallSucceeds(c) ==
    /\ CallEnds(c)
    /\ IF state = "half_open"
       THEN Close
       ELSE /\ failures' = 0
            /\ samples' \in Sampled(TRUE)
            /\ UNCHANGED <<circuit, fresh>>

\* record_failure
CallFails(c, category) ==
    /\ CallEnds(c)
    /\ failures' = UpTo(failures + 1, Threshold)
    /\ samples' \in Sampled(FALSE)
    /\ fresh' = UpTo(fresh + 1, Evidence)
    /\ CASE ~ShouldOpen(failures', samples') -> UNCHANGED circuit
         [] OTHER ->
              IF category = "config"
              THEN IF state = "open_config" THEN UNCHANGED circuit ELSE OpenConfig
              ELSE IF state = "open_recoverable" THEN UNCHANGED circuit ELSE OpenRecoverable

\* A cancelled call records neither.
CallAbandoned(c) ==
    /\ CallEnds(c)
    /\ UNCHANGED <<circuit, window>>

(***************************************************************************)
(* The probe of the tick: try_arm_probe and create_task, then the task:    *)
(* mark_half_open and the request.                                         *)
(***************************************************************************)

TickArms(p) ==
    /\ ~Asking
    /\ prober[p] = "idle"
    /\ state \in Open
    /\ ~inFlight
    /\ next = "due"
    /\ inFlight' = TRUE
    /\ stale' = FALSE
    /\ prober' = [prober EXCEPT ![p] = "armed"]
    /\ UNCHANGED <<state, next, window, cooling, call, overtaken, slipped>>

MarkHalfOpen(p) ==
    /\ ~Asking
    /\ prober[p] = "armed"
    /\ prober' = [prober EXCEPT ![p] = "probing"]
    /\ overtaken' = overtaken \ {p}
    /\ IF state \in Open
       THEN state' = "half_open" /\ stale' = FALSE
       ELSE UNCHANGED <<state, stale>>
    /\ UNCHANGED <<next, window, inFlight, cooling, call, slipped>>

(***************************************************************************)
(* The probe of retry_omni_probe: its checks, then retry_now and the       *)
(* request.  A step of another thread may fall between the two.            *)
(***************************************************************************)

\* Mutated form: the retry looks at the state only.
MayRetry_StateOnly == state \in Open /\ ~cooling

MayRetry == state \in Open /\ ~inFlight /\ ~cooling

RetryAsks(p) ==
    /\ ~Asking
    /\ prober[p] = "idle"
    /\ MayRetry
    /\ prober' = [prober EXCEPT ![p] = "asking"]
    /\ UNCHANGED <<circuit, window, inFlight, cooling, call, slipped>>

RetryNow(p) ==
    /\ prober[p] = "asking"
    /\ prober' = [prober EXCEPT ![p] = "probing"]
    /\ overtaken' = overtaken \ {p}
    /\ IF state \in Open
       THEN /\ state' = "half_open"
            /\ next' = "due"
            /\ inFlight' = TRUE
            /\ stale' = FALSE
       ELSE UNCHANGED <<state, next, inFlight, stale>>
    /\ UNCHANGED <<window, cooling, call, slipped>>

(***************************************************************************)
(* The end of either probe: record_probe_result, then the finally block's  *)
(* clear_probe_in_flight.  A cancelled probe (runner.stop, a client that   *)
(* disconnects) and one that raises report a recoverable failure.          *)
(***************************************************************************)

Outcomes == {"ok"} \cup Categories

\* Mutated form: a result is applied whatever happened meanwhile.
Discarded_Never == FALSE

\* Only an armed probe is compared with the epoch.
Discarded == inFlight /\ stale

\* Mutated form: a cancelled probe clears its bit but leaves the state alone.
Verdict_CancelledKeepsState(outcome) ==
    CASE outcome = "ok" -> Close
      [] outcome = "config" -> OpenConfig /\ UNCHANGED window
      [] OTHER -> UNCHANGED <<circuit, window>>

Verdict(outcome) ==
    CASE outcome = "ok" -> Close
      [] outcome = "config" -> OpenConfig /\ UNCHANGED window
      [] OTHER -> /\ IF state = "open_config" THEN UNCHANGED circuit ELSE OpenRecoverable
                  /\ UNCHANGED window

\* Mutated form: a discarded result does not release the probe's place.
ProbeEnds_KeepsPlace(p, outcome) ==
    /\ ~Asking
    /\ prober[p] = "probing"
    /\ prober' = [prober EXCEPT ![p] = "idle"]
    /\ cooling' = TRUE
    /\ inFlight' = Discarded
    /\ IF Discarded THEN UNCHANGED <<circuit, window>> ELSE Verdict(outcome)
    /\ UNCHANGED <<call, slipped>>

ProbeEnds(p, outcome) ==
    /\ ~Asking
    /\ prober[p] = "probing"
    /\ prober' = [prober EXCEPT ![p] = "idle"]
    /\ cooling' = TRUE
    /\ inFlight' = FALSE
    /\ IF Discarded THEN UNCHANGED <<circuit, window>> ELSE Verdict(outcome)
    /\ UNCHANGED <<call, slipped>>

(***************************************************************************)
(* Resets and time.                                                        *)
(***************************************************************************)

\* A settings request (main loop) or a call that sees a new configuration
\* (another thread): only the second can fall inside a retry's check.
Reset ==
    /\ Close
    /\ slipped' = (slipped \/ Asking)
    /\ UNCHANGED <<inFlight, cooling, call, prober>>

ProbeFallsDue ==
    /\ next \in {"soon", "slow"}
    /\ next' = "due"
    /\ UNCHANGED <<state, stale, overtaken, window, inFlight, cooling, call, prober, slipped>>

CooldownEnds ==
    /\ cooling
    /\ cooling' = FALSE
    /\ UNCHANGED <<circuit, window, inFlight, call, prober, slipped>>

-----------------------------------------------------------------------------

CallStep(c) ==
    \/ CallStarts(c)
    \/ CallSucceeds(c)
    \/ \E category \in Categories : CallFails(c, category)
    \/ CallAbandoned(c)

ProbeStep(p) ==
    \/ MarkHalfOpen(p)
    \/ RetryNow(p)
    \/ \E outcome \in Outcomes : ProbeEnds(p, outcome)

Next ==
    \/ \E c \in Calls : CallStep(c)
    \/ \E p \in Probers : TickArms(p) \/ RetryAsks(p) \/ ProbeStep(p)
    \/ Reset
    \/ ProbeFallsDue
    \/ CooldownEnds

Spec == Init /\ [][Next]_vars

\* Backoffs run out, the tick keeps running, and a probe is answered, times
\* out or is cancelled.  Nothing is asked of users, calls or configurations.
Fairness ==
    /\ WF_vars(ProbeFallsDue)
    /\ WF_vars(\E p \in Probers : TickArms(p))
    /\ \A p \in Probers : WF_vars(ProbeStep(p))

FairSpec == Spec /\ Fairness

-----------------------------------------------------------------------------
(***************************************************************************)
(* Properties.                                                             *)
(***************************************************************************)

\* Type invariant; the window holds what falls into it.
TypeOK ==
    /\ state \in States
    /\ failures \in 0..Threshold
    /\ samples \in Seq(BOOLEAN) /\ Len(samples) <= MaxSamples
    /\ next \in {"none", "soon", "slow", "due"}
    /\ inFlight \in BOOLEAN /\ stale \in BOOLEAN /\ cooling \in BOOLEAN
    /\ call \in [Calls -> {"idle", "flying"}]
    /\ prober \in [Probers -> {"idle", "armed", "asking", "probing"}]
    /\ overtaken \in SUBSET Probers
    /\ slipped \in BOOLEAN
    /\ fresh \in Nat

\* In HALF_OPEN every call is refused and neither the tick nor a retry starts a
\* probe: only a probe already sent can lead out, so there must be one, and its
\* answer must count (processor.py 133-138).
HalfOpenIsProbed == state = "half_open" => Sending # {} /\ ~Discarded

\* An open breaker has the time of its next probe, an authorisation failure
\* never a short one: without it perception would stay off for ever
\* (circuit_breaker.py 119-122).
OpenIsScheduled ==
    /\ state \in Open => next # "none"
    /\ state = "open_config" => next \in {"slow", "due"}

\* A breaker that is not closed has a way back: a probe that is out and counts,
\* or the time of the next one.
ProbeInv == TypeOK /\ HalfOpenIsProbed /\ OpenIsScheduled

\* The tick and the retry button never have two probes out, whatever happened to
\* the breaker meanwhile; a reset that slips into a retry's check is set aside
\* (router.py 1463-1469, processor.py 265-266).
SingleProbe ==
    ~slipped => \A p, q \in Probers :
                    prober[p] \in {"armed", "probing"} /\ prober[q] \in {"armed", "probing"} => p = q

\* The late answer of a probe sent before the breaker closed (the user has just
\* repaired the configuration) changes nothing (circuit_breaker.py 145-150).
StaleProbeIsVoid ==
    [][\A p \in overtaken : ~slipped /\ prober[p] = "probing" /\ prober'[p] = "idle"
          => state' = state /\ next' = next]_vars

\* What failed before the breaker closed does not open it again: it takes the
\* full evidence anew.
OpensOnFreshEvidence ==
    [][~slipped /\ state = "closed" /\ state' \in Open => fresh' = Evidence]_vars

\* Whatever is lost, late, cancelled or reset, the breaker is never stuck: an
\* open one gets to probe or is closed, and every probe gets a verdict
\* (circuit_breaker.py 119-122, omni_probe_registry.py 32-34).
NeverStuck ==
    /\ []<>(state \in {"closed", "half_open"})
    /\ []<>(state # "half_open")

=============================================================================
