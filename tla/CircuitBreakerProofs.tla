----------------------- MODULE CircuitBreakerProofs -------------------------
(***************************************************************************)
(* Theorems about CircuitBreaker, for any number of calls and probes in    *)
(* flight and any thresholds.                                              *)
(*                                                                         *)
(* The inductive invariant is Inv: besides the types it says who holds the *)
(* probe's place (Owned), that a half-open breaker's probe is current      *)
(* (HalfOpenIsProbed), and that an overtaken probe is marked stale (Void). *)
(***************************************************************************)
EXTENDS CircuitBreaker, FiniteSetTheorems, TLAPS

Active(p) == prober[p] \in {"armed", "probing"}

\* The place is taken only by a probe that is out, a retry checks only an open
\* breaker, and only one main-loop request checks at a time.
Owned ==
    /\ inFlight => \E p \in Probers : Active(p)
    /\ \A p, q \in Probers : prober[p] = "asking" /\ prober[q] = "asking" => p = q

\* Without a slipped reset every probe that is out holds the place, and a retry
\* past its checks finds the breaker as it left it.
Held ==
    ~slipped => /\ \A p \in Probers : Active(p) => inFlight
                /\ Asking => state \in Open /\ ~inFlight

\* A probe sent before the breaker closed is stale; so is any probe of a closed
\* breaker.
Void ==
    ~slipped => /\ \A p \in overtaken : prober[p] = "probing" => stale
                /\ state = "closed" /\ inFlight => stale

Inv == TypeOK /\ HalfOpenIsProbed /\ OpenIsScheduled /\ SingleProbe /\ Owned /\ Held /\ Void

-----------------------------------------------------------------------------

\* What is appended to the window is still a window.
LEMMA SampledType ==
    ASSUME TypeOK, NEW ok \in BOOLEAN, NEW s \in Sampled(ok)
    PROVE  s \in Seq(BOOLEAN) /\ Len(s) <= MaxSamples
  <1>1. PICK k \in 1..(Len(samples) + 1) :
            /\ Len(samples) - k + 2 <= MaxSamples
            /\ s = Append(SubSeq(samples, k, Len(samples)), ok)
    BY DEF Sampled
  <1> DEFINE tail == SubSeq(samples, k, Len(samples))
  <1>2. samples \in Seq(BOOLEAN) /\ Len(samples) \in Nat
    BY DEF TypeOK
  <1>3. tail \in Seq(BOOLEAN) /\ Len(tail) = Len(samples) - k + 1
    BY <1>2
  <1>4. Append(tail, ok) \in Seq(BOOLEAN) /\ Len(Append(tail, ok)) = Len(tail) + 1
    BY <1>3
  <1> QED
    BY <1>1, <1>2, <1>3, <1>4, SamplesAssumption

\* A step of the code keeps the types.
LEMMA TypePreserved == TypeOK /\ [Next]_vars => TypeOK'
  <1> SUFFICES ASSUME TypeOK, [Next]_vars PROVE TypeOK'
    OBVIOUS
  <1> USE ThresholdAssumption, SamplesAssumption DEF TypeOK, States, Open
  <1>1. Evidence \in Nat
    BY DEF Evidence
  <1>2. ASSUME Close PROVE /\ state' \in States /\ failures' \in 0..Threshold
                           /\ samples' \in Seq(BOOLEAN) /\ Len(samples') <= MaxSamples
                           /\ next' \in {"none", "soon", "slow", "due"}
                           /\ stale' \in BOOLEAN /\ overtaken' \in SUBSET Probers
                           /\ fresh' \in Nat
    BY <1>2 DEF Close, Sending
  <1>3. ASSUME NEW c \in Calls, CallStarts(c) PROVE TypeOK'
    BY <1>3 DEF CallStarts, circuit, window
  <1>4. ASSUME NEW c \in Calls, CallSucceeds(c) PROVE TypeOK'
    <2>1. /\ call' \in [Calls -> {"idle", "flying"}] /\ inFlight' \in BOOLEAN
          /\ cooling' \in BOOLEAN /\ slipped' \in BOOLEAN
          /\ prober' \in [Probers -> {"idle", "armed", "asking", "probing"}]
      BY <1>4 DEF CallSucceeds, CallEnds
    <2>2. CASE state = "half_open"
      BY <1>2, <1>4, <2>1, <2>2 DEF CallSucceeds
    <2>3. CASE state # "half_open"
      <3>1. samples' \in Seq(BOOLEAN) /\ Len(samples') <= MaxSamples
        BY <1>4, <2>3, SampledType DEF CallSucceeds
      <3> QED
        BY <1>4, <2>1, <2>3, <3>1 DEF CallSucceeds, circuit
    <2> QED
      BY <2>2, <2>3
  <1>5. ASSUME NEW c \in Calls, NEW category \in Categories, CallFails(c, category)
        PROVE  TypeOK'
    <2>1. samples' \in Seq(BOOLEAN) /\ Len(samples') <= MaxSamples
      BY <1>5, SampledType DEF CallFails
    <2>2. failures' \in 0..Threshold /\ fresh' \in Nat
      BY <1>1, <1>5 DEF CallFails, UpTo
    <2>3. UNCHANGED circuit \/ OpenConfig \/ OpenRecoverable
      BY <1>5 DEF CallFails
    <2>4. /\ state' \in States /\ next' \in {"none", "soon", "slow", "due"}
          /\ stale' \in BOOLEAN /\ overtaken' \in SUBSET Probers
      BY <2>3 DEF circuit, OpenConfig, OpenRecoverable
    <2> QED
      BY <1>5, <2>1, <2>2, <2>4 DEF CallFails, CallEnds
  <1>6. ASSUME NEW c \in Calls, CallAbandoned(c) PROVE TypeOK'
    BY <1>6 DEF CallAbandoned, CallEnds, circuit, window
  <1>7. ASSUME NEW p \in Probers, TickArms(p) PROVE TypeOK'
    BY <1>7 DEF TickArms, window
  <1>8. ASSUME NEW p \in Probers, MarkHalfOpen(p) PROVE TypeOK'
    BY <1>8 DEF MarkHalfOpen, window
  <1>9. ASSUME NEW p \in Probers, RetryAsks(p) PROVE TypeOK'
    BY <1>9 DEF RetryAsks, circuit, window
  <1>10. ASSUME NEW p \in Probers, RetryNow(p) PROVE TypeOK'
    BY <1>10 DEF RetryNow, window
  <1>11. ASSUME NEW p \in Probers, NEW outcome \in Outcomes, ProbeEnds(p, outcome)
         PROVE  TypeOK'
    <2>1. (UNCHANGED <<circuit, window>>) \/ Close
             \/ (OpenConfig /\ UNCHANGED window) \/ (OpenRecoverable /\ UNCHANGED window)
      BY <1>11 DEF ProbeEnds, Verdict
    <2>2. /\ state' \in States /\ failures' \in 0..Threshold
          /\ samples' \in Seq(BOOLEAN) /\ Len(samples') <= MaxSamples
          /\ next' \in {"none", "soon", "slow", "due"}
          /\ stale' \in BOOLEAN /\ overtaken' \in SUBSET Probers /\ fresh' \in Nat
      BY <1>2, <2>1 DEF OpenConfig, OpenRecoverable, circuit, window
    <2> QED
      BY <1>11, <2>2 DEF ProbeEnds
  <1>12. ASSUME Reset PROVE TypeOK'
    BY <1>2, <1>12 DEF Reset, Asking
  <1>13. ASSUME ProbeFallsDue PROVE TypeOK'
    BY <1>13 DEF ProbeFallsDue, window
  <1>14. ASSUME CooldownEnds PROVE TypeOK'
    BY <1>14 DEF CooldownEnds, circuit, window
  <1>15. ASSUME UNCHANGED vars PROVE TypeOK'
    BY <1>15 DEF vars
  <1> QED
    BY <1>3, <1>4, <1>5, <1>6, <1>7, <1>8, <1>9, <1>10, <1>11, <1>12, <1>13, <1>14, <1>15
    DEF Next, CallStep, ProbeStep

\* What a call may do to the breaker: close a half-open one, open any but a
\* scheduled one, or nothing; never touch the probes.
LEMMA CallEffect ==
    ASSUME TypeOK, NEW c \in Calls, CallStep(c)
    PROVE  /\ UNCHANGED <<inFlight, prober, slipped>>
           /\ \/ UNCHANGED circuit
              \/ state = "half_open" /\ Close
              \/ OpenConfig
              \/ OpenRecoverable
  BY DEF CallStep, CallStarts, CallEnds, CallSucceeds, CallFails, CallAbandoned

\* The end of a probe: its place is free, and unless it was discarded there is
\* a verdict.
LEMMA ProbeEffect ==
    ASSUME NEW p \in Probers, NEW outcome \in Outcomes, ProbeEnds(p, outcome)
    PROVE  /\ ~Asking /\ prober[p] = "probing"
           /\ prober' = [prober EXCEPT ![p] = "idle"]
           /\ ~inFlight' /\ slipped' = slipped
           /\ \/ Discarded /\ UNCHANGED circuit
              \/ Close
              \/ OpenConfig
              \/ OpenRecoverable
              \/ state = "open_config" /\ UNCHANGED circuit
  BY DEF ProbeEnds, Verdict

-----------------------------------------------------------------------------

\* Every step keeps a half-open breaker's probe.
LEMMA HalfOpenPreserved == TypeOK /\ HalfOpenIsProbed /\ [Next]_vars => HalfOpenIsProbed'
  <1> SUFFICES ASSUME TypeOK, HalfOpenIsProbed, [Next]_vars PROVE HalfOpenIsProbed'
    OBVIOUS
  <1> USE DEF HalfOpenIsProbed, Sending, Discarded, Open
  <1>1. ASSUME NEW c \in Calls, CallStep(c) PROVE HalfOpenIsProbed'
    BY <1>1, CallEffect DEF circuit, Close, OpenConfig, OpenRecoverable
  <1>2. ASSUME NEW p \in Probers, TickArms(p) PROVE HalfOpenIsProbed'
    BY <1>2 DEF TickArms
  <1>3. ASSUME NEW p \in Probers, MarkHalfOpen(p) PROVE HalfOpenIsProbed'
    BY <1>3 DEF MarkHalfOpen, TypeOK
  <1>4. ASSUME NEW p \in Probers, RetryAsks(p) PROVE HalfOpenIsProbed'
    BY <1>4 DEF RetryAsks, MayRetry, circuit
  <1>5. ASSUME NEW p \in Probers, RetryNow(p) PROVE HalfOpenIsProbed'
    BY <1>5 DEF RetryNow, TypeOK
  <1>6. ASSUME NEW p \in Probers, NEW outcome \in Outcomes, ProbeEnds(p, outcome)
        PROVE  HalfOpenIsProbed'
    BY <1>6, ProbeEffect DEF circuit, Close, OpenConfig, OpenRecoverable
  <1>7. ASSUME Reset PROVE HalfOpenIsProbed'
    BY <1>7 DEF Reset, Close
  <1>8. ASSUME ProbeFallsDue PROVE HalfOpenIsProbed'
    BY <1>8 DEF ProbeFallsDue
  <1>9. ASSUME CooldownEnds PROVE HalfOpenIsProbed'
    BY <1>9 DEF CooldownEnds, circuit
  <1>10. ASSUME UNCHANGED vars PROVE HalfOpenIsProbed'
    BY <1>10 DEF vars
  <1> QED
    BY <1>1, <1>2, <1>3, <1>4, <1>5, <1>6, <1>7, <1>8, <1>9, <1>10 DEF Next, ProbeStep

\* Every step leaves an open breaker with the time of its next probe.
LEMMA SchedulePreserved == TypeOK /\ OpenIsScheduled /\ [Next]_vars => OpenIsScheduled'
  <1> SUFFICES ASSUME TypeOK, OpenIsScheduled, [Next]_vars PROVE OpenIsScheduled'
    OBVIOUS
  <1> USE DEF OpenIsScheduled, Open
  <1>1. ASSUME NEW c \in Calls, CallStep(c) PROVE OpenIsScheduled'
    BY <1>1, CallEffect DEF circuit, Close, OpenConfig, OpenRecoverable
  <1>2. ASSUME NEW p \in Probers, TickArms(p) PROVE OpenIsScheduled'
    BY <1>2 DEF TickArms
  <1>3. ASSUME NEW p \in Probers, MarkHalfOpen(p) PROVE OpenIsScheduled'
    BY <1>3 DEF MarkHalfOpen
  <1>4. ASSUME NEW p \in Probers, RetryAsks(p) PROVE OpenIsScheduled'
    BY <1>4 DEF RetryAsks, circuit
  <1>5. ASSUME NEW p \in Probers, RetryNow(p) PROVE OpenIsScheduled'
    BY <1>5 DEF RetryNow
  <1>6. ASSUME NEW p \in Probers, NEW outcome \in Outcomes, ProbeEnds(p, outcome)
        PROVE  OpenIsScheduled'
    BY <1>6, ProbeEffect DEF circuit, Close, OpenConfig, OpenRecoverable
  <1>7. ASSUME Reset PROVE OpenIsScheduled'
    BY <1>7 DEF Reset, Close
  <1>8. ASSUME ProbeFallsDue PROVE OpenIsScheduled'
    BY <1>8 DEF ProbeFallsDue
  <1>9. ASSUME CooldownEnds PROVE OpenIsScheduled'
    BY <1>9 DEF CooldownEnds, circuit
  <1>10. ASSUME UNCHANGED vars PROVE OpenIsScheduled'
    BY <1>10 DEF vars
  <1> QED
    BY <1>1, <1>2, <1>3, <1>4, <1>5, <1>6, <1>7, <1>8, <1>9, <1>10 DEF Next, ProbeStep

Places == SingleProbe /\ Owned /\ Held /\ Void

\* Every step keeps the account of the probe's place.
LEMMA PlacesPreserved == TypeOK /\ Places /\ [Next]_vars => Places'
  <1> SUFFICES ASSUME TypeOK, Places, [Next]_vars PROVE Places'
    OBVIOUS
  <1> USE DEF Places, SingleProbe, Owned, Held, Void, Active, Asking, Sending, Open
  <1>1. ASSUME NEW c \in Calls, CallStep(c) PROVE Places'
    <2>1. inFlight' = inFlight /\ prober' = prober /\ slipped' = slipped
      BY <1>1, CallEffect
    <2>2. CASE UNCHANGED circuit
      BY <2>1, <2>2 DEF circuit
    <2>3. CASE state = "half_open" /\ Close
      BY <2>1, <2>3 DEF Close
    <2>4. CASE OpenConfig \/ OpenRecoverable
      BY <2>1, <2>4 DEF OpenConfig, OpenRecoverable
    <2> QED
      BY <1>1, <2>2, <2>3, <2>4, CallEffect
  <1>2. ASSUME NEW p \in Probers, TickArms(p) PROVE Places'
    BY <1>2 DEF TickArms, TypeOK
  <1>3. ASSUME NEW p \in Probers, MarkHalfOpen(p) PROVE Places'
    BY <1>3 DEF MarkHalfOpen, TypeOK
  <1>4. ASSUME NEW p \in Probers, RetryAsks(p) PROVE Places'
    BY <1>4 DEF RetryAsks, MayRetry, circuit, TypeOK
  <1>5. ASSUME NEW p \in Probers, RetryNow(p) PROVE Places'
    BY <1>5 DEF RetryNow, TypeOK
  <1>6. ASSUME NEW p \in Probers, NEW outcome \in Outcomes, ProbeEnds(p, outcome)
        PROVE  Places'
    <2>1. /\ prober[p] = "probing" /\ prober' = [prober EXCEPT ![p] = "idle"]
          /\ ~inFlight' /\ slipped' = slipped
          /\ \A q \in Probers : prober[q] # "asking"
      BY <1>6, ProbeEffect
    <2>2. \A q \in Probers : prober'[q] = IF q = p THEN "idle" ELSE prober[q]
      BY <2>1 DEF TypeOK
    <2>3. Owned' /\ ~Asking'
      BY <2>1, <2>2
    <2>4. ~slipped => \A q \in Probers : ~Active(q)'
      BY <2>1, <2>2
    <2>5. overtaken' \in SUBSET Probers
      BY <1>6, ProbeEffect DEF circuit, Close, OpenConfig, OpenRecoverable, TypeOK
    <2> QED
      BY <2>1, <2>3, <2>4, <2>5
  <1>7. ASSUME Reset PROVE Places'
    BY <1>7 DEF Reset, Close
  <1>8. ASSUME ProbeFallsDue PROVE Places'
    BY <1>8 DEF ProbeFallsDue
  <1>9. ASSUME CooldownEnds PROVE Places'
    BY <1>9 DEF CooldownEnds, circuit
  <1>10. ASSUME UNCHANGED vars PROVE Places'
    BY <1>10 DEF vars
  <1> QED
    BY <1>1, <1>2, <1>3, <1>4, <1>5, <1>6, <1>7, <1>8, <1>9, <1>10 DEF Next, ProbeStep

-----------------------------------------------------------------------------

\* Inv holds in every state the breaker reaches.
THEOREM Invariance == Spec => []Inv
  <1>1. Init => Inv
    <2> SUFFICES ASSUME Init PROVE Inv
      OBVIOUS
    <2>1. TypeOK
      <3>1. samples \in Seq(BOOLEAN) /\ Len(samples) <= MaxSamples
        BY SamplesAssumption DEF Init
      <3>2. inFlight \in BOOLEAN /\ stale \in BOOLEAN /\ cooling \in BOOLEAN /\ slipped \in BOOLEAN
        BY DEF Init
      <3>3. /\ call \in [Calls -> {"idle", "flying"}]
            /\ prober \in [Probers -> {"idle", "armed", "asking", "probing"}]
        BY DEF Init
      <3> QED
        BY <3>1, <3>2, <3>3, ThresholdAssumption DEF Init, TypeOK, States
    <2>2. HalfOpenIsProbed /\ OpenIsScheduled
      BY DEF Init, HalfOpenIsProbed, OpenIsScheduled, Open
    <2>3. SingleProbe /\ Owned /\ Held /\ Void
      BY DEF Init, SingleProbe, Owned, Held, Void, Active, Asking
    <2> QED
      BY <2>1, <2>2, <2>3 DEF Inv
  <1>2. Inv /\ [Next]_vars => Inv'
    BY TypePreserved, HalfOpenPreserved, SchedulePreserved, PlacesPreserved DEF Inv, Places
  <1> QED
    BY <1>1, <1>2, PTL DEF Spec

\* A half-open breaker has a probe out whose answer counts, and an open one the
\* time of its next probe: no interleaving of calls, probes and resets strands it.
THEOREM WayBack == Spec => []ProbeInv
  BY Invariance, PTL DEF Inv, ProbeInv

\* Tick and retry never have two probes out together.
THEOREM OneProbe == Spec => []SingleProbe
  BY Invariance, PTL DEF Inv

\* The answer of a probe sent before the breaker closed changes nothing.
THEOREM StaleProbeVoid == Spec => StaleProbeIsVoid
  <1> DEFINE Step == \A p \in overtaken : ~slipped /\ prober[p] = "probing" /\ prober'[p] = "idle"
                        => state' = state /\ next' = next
  <1>1. Inv /\ [Next]_vars => [Step]_vars
    <2> SUFFICES ASSUME Inv, Next, NEW p \in overtaken,
                        ~slipped, prober[p] = "probing", prober'[p] = "idle"
                 PROVE  state' = state /\ next' = next
      OBVIOUS
    <2>1. p \in Probers
      BY DEF Inv, TypeOK
    <2>2. Discarded
      BY <2>1 DEF Inv, Held, Void, Active, Discarded
    <2>3. ASSUME NEW q \in Probers, NEW outcome \in Outcomes, ProbeEnds(q, outcome)
          PROVE  state' = state /\ next' = next
      BY <2>2, <2>3 DEF ProbeEnds, circuit
    <2>4. ASSUME NEW q \in Probers, TickArms(q) \/ RetryAsks(q) \/ MarkHalfOpen(q) \/ RetryNow(q)
          PROVE  prober'[p] = "probing"
      BY <2>1, <2>4 DEF Inv, TypeOK, TickArms, RetryAsks, MarkHalfOpen, RetryNow
    <2>5. ASSUME NEW c \in Calls, CallStep(c)
          PROVE  prober' = prober
      BY <2>5, CallEffect DEF Inv
    <2> QED
      BY <2>1, <2>3, <2>4, <2>5 DEF Next, ProbeStep, Reset, ProbeFallsDue, CooldownEnds
  <1> QED
    BY Invariance, <1>1, PTL DEF Spec, StaleProbeIsVoid

-----------------------------------------------------------------------------

\* Dropping the oldest samples and appending one adds at most one failure, and
\* none when the new sample is a success.
LEMMA SampledFailures ==
    ASSUME NEW old \in Seq(BOOLEAN), NEW k \in 1..(Len(old) + 1), NEW ok \in BOOLEAN
    PROVE  LET new == Append(SubSeq(old, k, Len(old)), ok)
           IN  /\ Failed(old) \in Nat /\ Failed(new) \in Nat
               /\ Failed(new) <= Failed(old) + (IF ok THEN 0 ELSE 1)
  <1> DEFINE n == Len(old) - k + 1
             new == Append(SubSeq(old, k, Len(old)), ok)
             A == {i \in DOMAIN old : ~old[i]}
             B == {i \in 1..n : ~old[i + k - 1]}
             C == {i \in DOMAIN new : ~new[i]}
  <1>1. Len(old) \in Nat /\ n \in Nat
    OBVIOUS
  <1>2. /\ SubSeq(old, k, Len(old)) \in Seq(BOOLEAN) /\ Len(SubSeq(old, k, Len(old))) = n
        /\ \A i \in 1..n : SubSeq(old, k, Len(old))[i] = old[i + k - 1]
    BY <1>1
  <1>3. /\ DOMAIN new = 1..(n + 1)
        /\ \A i \in 1..n : new[i] = old[i + k - 1]
        /\ new[n + 1] = ok
    BY <1>1, <1>2
  <1> HIDE DEF new
  <1>4. IsFiniteSet(A)
    <2>1. DOMAIN old = 1..Len(old) /\ A \subseteq 1..Len(old)
      OBVIOUS
    <2>2. IsFiniteSet(1..Len(old))
      BY <1>1, FS_Interval
    <2> QED
      BY <2>1, <2>2, FS_Subset
  <1>5. IsFiniteSet(B) /\ Cardinality(B) <= Cardinality(A)
    <2> DEFINE f == [i \in B |-> i + k - 1]
    <2>1. f \in [B -> A]
      BY <1>1
    <2>2. \A i, j \in B : f[i] = f[j] => i = j
      BY <1>1
    <2>3. f \in Injection(B, A)
      BY <2>1, <2>2 DEF Injection, IsInjective
    <2> QED
      BY <1>4, <2>3, FS_Injection
  <1>6. C = IF ok THEN B ELSE B \cup {n + 1}
    <2>1. \A i \in 1..n : i \in C <=> i \in B
      BY <1>1, <1>3
    <2>2. n + 1 \in C <=> ~ok
      BY <1>1, <1>3
    <2>3. C \subseteq 1..(n + 1) /\ B \subseteq 1..n
      BY <1>1, <1>3
    <2>4. \A i \in 1..(n + 1) : i \in 1..n \/ i = n + 1
      BY <1>1
    <2> HIDE DEF B, C, n
    <2>5. CASE ok
      <3>1. \A i \in C : i \in B
        BY <2>1, <2>2, <2>3, <2>4, <2>5
      <3>2. \A i \in B : i \in C
        BY <2>1, <2>3
      <3> QED
        BY <2>5, <3>1, <3>2
    <2>6. CASE ~ok
      BY <1>1, <2>1, <2>2, <2>3, <2>4, <2>6
    <2> QED
      BY <2>5, <2>6
  <1>7. IsFiniteSet(C) /\ Cardinality(C) <= Cardinality(B) + (IF ok THEN 0 ELSE 1)
    <2>1. IsFiniteSet(B \cup {n + 1}) /\ Cardinality(B \cup {n + 1}) <= Cardinality(B) + 1
      <3>1. n + 1 \notin B
        BY <1>1
      <3>2. Cardinality(B \cup {n + 1}) = Cardinality(B) + 1 /\ IsFiniteSet(B \cup {n + 1})
        <4> HIDE DEF B
        <4> QED
          BY <1>5, <3>1, FS_AddElement
      <3> QED
        BY <1>5, <3>2, FS_CardinalityType
    <2>2. Cardinality(B) \in Nat
      BY <1>5, FS_CardinalityType
    <2> HIDE DEF B, C
    <2> QED
      BY <1>5, <1>6, <2>1, <2>2
  <1>8. Failed(old) = Cardinality(A) /\ Failed(new) = Cardinality(C)
    BY DEF Failed
  <1>9. Cardinality(A) \in Nat /\ Cardinality(B) \in Nat /\ Cardinality(C) \in Nat
    BY <1>4, <1>5, <1>7, FS_CardinalityType
  <1> HIDE DEF A, B, C
  <1>10. Failed(old) \in Nat /\ Failed(new) \in Nat
         /\ Failed(new) <= Failed(old) + (IF ok THEN 0 ELSE 1)
    BY <1>5, <1>7, <1>8, <1>9
  <1> QED
    BY <1>10 DEF new

\* The failures of this closed period are all the evidence there is: neither
\* the run of failures nor the window knows one from before.
Accounted ==
    /\ fresh <= Evidence
    /\ fresh < Evidence => failures <= fresh /\ Failed(samples) <= fresh

\* Less evidence than it takes does not open the breaker.
LEMMA TooLittle ==
    ASSUME NEW n \in Nat, n < Evidence, NEW run \in Nat, run <= n,
           NEW win \in Seq(BOOLEAN), Failed(win) \in Nat, Failed(win) <= n
    PROVE  ~ShouldOpen(run, win)
  <1>1. n < Threshold /\ n <= MinSamples \div 2
    BY ThresholdAssumption, SamplesAssumption DEF Evidence
  <1>2. 2 * Failed(win) <= MinSamples
    BY <1>1, SamplesAssumption
  <1> QED
    BY <1>1, <1>2, ThresholdAssumption, SamplesAssumption DEF ShouldOpen

LEMMA EvidenceType == Evidence \in Nat \ {0}
  BY ThresholdAssumption, SamplesAssumption DEF Evidence

LEMMA FailedOfNone == Failed(<<>>) = 0
  BY FS_EmptySet DEF Failed

\* A call that fails and finds the account in order leaves it in order, and
\* opens a closed breaker only with the full evidence.
LEMMA FailureCounts ==
    ASSUME TypeOK, Accounted, NEW c \in Calls, NEW category \in Categories, CallFails(c, category)
    PROVE  Accounted' /\ (~UNCHANGED circuit => fresh' = Evidence)
  <1>1. PICK k \in 1..(Len(samples) + 1) : samples' = Append(SubSeq(samples, k, Len(samples)), FALSE)
    BY DEF CallFails, Sampled
  <1>2. samples \in Seq(BOOLEAN) /\ samples' \in Seq(BOOLEAN)
    BY <1>1 DEF TypeOK
  <1>3. /\ Failed(samples) \in Nat /\ Failed(samples') \in Nat
        /\ Failed(samples') <= Failed(samples) + 1
    BY <1>1, <1>2, SampledFailures
  <1>4. /\ failures' = UpTo(failures + 1, Threshold)
        /\ fresh' = UpTo(fresh + 1, Evidence)
        /\ ~ShouldOpen(failures', samples') => UNCHANGED circuit
    BY DEF CallFails
  <1>5. failures \in Nat /\ fresh \in Nat /\ failures' \in Nat /\ failures' <= failures + 1
    BY <1>4, ThresholdAssumption DEF TypeOK, UpTo
  <1>6. fresh' \in Nat /\ fresh' <= Evidence
    BY <1>4, <1>5, EvidenceType DEF UpTo
  <1>7. fresh' < Evidence => /\ fresh' = fresh + 1 /\ fresh < Evidence
                             /\ failures' <= fresh' /\ Failed(samples') <= fresh'
    BY <1>3, <1>4, <1>5, <1>6, EvidenceType DEF Accounted, UpTo
  <1>8. fresh' < Evidence => ~ShouldOpen(failures', samples')
    BY <1>2, <1>3, <1>5, <1>6, <1>7, TooLittle
  <1>9. Evidence' = Evidence /\ Failed(samples)' = Failed(samples')
    BY DEF Evidence, Failed
  <1> QED
    BY <1>4, <1>6, <1>7, <1>8, <1>9, EvidenceType DEF Accounted

LEMMA AccountedPreserved == TypeOK /\ Accounted /\ [Next]_vars => Accounted'
  <1> SUFFICES ASSUME TypeOK, Accounted, [Next]_vars PROVE Accounted'
    OBVIOUS
  <1>1. ASSUME UNCHANGED window PROVE Accounted'
    BY <1>1 DEF window, Accounted, Evidence, Failed
  <1>2. ASSUME Close PROVE Accounted'
    <2>1. fresh' = 0 /\ failures' = 0 /\ samples' = <<>>
      BY <1>2 DEF Close
    <2> QED
      BY <2>1, EvidenceType, FailedOfNone DEF Accounted, Evidence, Failed
  <1>3. ASSUME NEW c \in Calls, CallSucceeds(c), ~Close PROVE Accounted'
    <2>1. failures' = 0 /\ fresh' = fresh
      BY <1>3 DEF CallSucceeds
    <2>2. PICK k \in 1..(Len(samples) + 1) : samples' = Append(SubSeq(samples, k, Len(samples)), TRUE)
      BY <1>3 DEF CallSucceeds, Sampled
    <2>3. /\ Failed(samples) \in Nat /\ Failed(samples') \in Nat
          /\ Failed(samples') <= Failed(samples)
      <3>1. samples \in Seq(BOOLEAN)
        BY DEF TypeOK
      <3>2. /\ Failed(samples) \in Nat /\ Failed(samples') \in Nat
            /\ Failed(samples') <= Failed(samples) + (IF TRUE THEN 0 ELSE 1)
        BY <2>2, <3>1, SampledFailures
      <3> QED
        BY <3>2
    <2>4. fresh \in Nat
      BY DEF TypeOK
    <2>5. Evidence' = Evidence /\ Failed(samples)' = Failed(samples')
      BY DEF Evidence, Failed
    <2> QED
      BY <2>1, <2>3, <2>4, <2>5, EvidenceType DEF Accounted
  <1>4. ASSUME NEW c \in Calls, CallStep(c) PROVE Accounted'
    BY <1>1, <1>2, <1>3, <1>4, FailureCounts DEF CallStep, CallStarts, CallAbandoned
  <1>5. ASSUME NEW p \in Probers, NEW outcome \in Outcomes, ProbeEnds(p, outcome) PROVE Accounted'
    BY <1>1, <1>2, <1>5 DEF ProbeEnds, Verdict
  <1>6. ASSUME NEW p \in Probers, TickArms(p) \/ RetryAsks(p) \/ MarkHalfOpen(p) \/ RetryNow(p)
        PROVE  Accounted'
    BY <1>1, <1>6 DEF TickArms, RetryAsks, MarkHalfOpen, RetryNow
  <1>7. ASSUME Reset \/ ProbeFallsDue \/ CooldownEnds PROVE Accounted'
    BY <1>1, <1>2, <1>7 DEF Reset, ProbeFallsDue, CooldownEnds
  <1>8. ASSUME UNCHANGED vars PROVE Accounted'
    BY <1>1, <1>8 DEF vars, window
  <1> QED
    BY <1>4, <1>5, <1>6, <1>7, <1>8 DEF Next, ProbeStep

\* What failed before the breaker closed does not open it again: whatever calls,
\* probes and resets do in between, it takes the full evidence anew.
THEOREM OpenedAnew == Spec => OpensOnFreshEvidence
  <1> DEFINE Step == ~slipped /\ state = "closed" /\ state' \in Open => fresh' = Evidence
  <1>1. Init => Accounted
    BY EvidenceType, FailedOfNone DEF Init, Accounted
  <1>2. Inv /\ Accounted /\ [Next]_vars => Accounted'
    BY AccountedPreserved DEF Inv
  <1>3. Inv /\ Accounted /\ [Next]_vars => [Step]_vars
    <2> SUFFICES ASSUME Inv, Accounted, Next, ~slipped, state = "closed", state' \in Open
                 PROVE  fresh' = Evidence
      OBVIOUS
    <2>1. state' # state /\ ~Close
      BY DEF Open, Close
    <2>2. ASSUME NEW p \in Probers, NEW outcome \in Outcomes, ProbeEnds(p, outcome)
          PROVE  FALSE
      <3>1. Discarded
        BY <2>2 DEF ProbeEnds, Inv, Held, Void, Active, Discarded
      <3> QED
        BY <2>1, <2>2, <3>1 DEF ProbeEnds, circuit
    <2>3. ASSUME NEW c \in Calls, CallStep(c) PROVE fresh' = Evidence
      BY <2>1, <2>3, FailureCounts DEF CallStep, CallStarts, CallSucceeds, CallAbandoned, circuit, Inv
    <2>4. ASSUME NEW p \in Probers, TickArms(p) \/ RetryAsks(p) \/ MarkHalfOpen(p) \/ RetryNow(p)
          PROVE  FALSE
      BY <2>1, <2>4 DEF TickArms, RetryAsks, MarkHalfOpen, RetryNow, circuit, Open
    <2> QED
      BY <2>1, <2>2, <2>3, <2>4 DEF Next, ProbeStep, Reset, ProbeFallsDue, CooldownEnds, circuit
  <1> QED
    BY Invariance, <1>1, <1>2, <1>3, PTL DEF Spec, OpensOnFreshEvidence
=============================================================================
