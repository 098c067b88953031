------------------------ MODULE WebhookBreakerProofs ------------------------
(***************************************************************************)
(* Proofs about WebhookBreaker for any number of deliveries, any threshold *)
(* and any cooldown longer than a delivery.                                *)
(***************************************************************************)
EXTENDS WebhookBreaker, TLAPS

\* A delivery under way while the breaker is open began before it opened.
OlderThanOutage ==
  \A d \in Deliveries : state = "open" /\ Out(d) => openFor <= delivery[d].age

\* While the breaker is half-open only its probe is under way, and the gate is
\* shut behind it.
OnlyTheProbe ==
  \A d \in Deliveries : state = "half_open" /\ Out(d) => Probe(d) /\ probeInFlight

\* The inductive invariant.  OneProbe alone is not inductive: that no old probe
\* is left when a new one is admitted follows from its age.
BreakerInv == TypeOK /\ OlderThanOutage /\ OnlyTheProbe /\ OneProbe

\* What the type invariant says of one delivery.
LEMMA DeliveryFacts ==
  ASSUME TypeOK, NEW d \in Deliveries
  PROVE  /\ delivery[d].kind \in {"none", "normal", "probe"}
         /\ delivery[d].age \in 0..MaxDelivery /\ delivery[d].sick \in BOOLEAN
  BY DEF TypeOK

\* Nothing is under way any more when the cooldown of an open breaker is over.
LEMMA CooldownOutlivesDeliveries ==
  ASSUME BreakerInv, state = "open", openFor >= RecoveryAfter, NEW d \in Deliveries
  PROVE  ~Out(d)
<1>1. openFor \in Nat /\ delivery[d].age \in 0..MaxDelivery
  BY DeliveryFacts DEF BreakerInv, TypeOK
<1>2. QED
  BY <1>1, BreakerAssumption DEF BreakerInv, OlderThanOutage

\* Whoever is admitted as the probe is alone.
LEMMA ProbeIsAlone ==
  ASSUME BreakerInv, Current = "half_open", ~probeInFlight, NEW d \in Deliveries
  PROVE  ~Out(d)
<1>1. CASE state = "half_open"
  BY <1>1 DEF BreakerInv, OnlyTheProbe
<1>2. CASE state = "open" /\ openFor >= RecoveryAfter
  BY <1>2, CooldownOutlivesDeliveries
<1>3. QED
  BY <1>1, <1>2 DEF Current

LEMMA InitInv == Init => BreakerInv
<1> SUFFICES ASSUME Init PROVE BreakerInv
  OBVIOUS
<1>1. ~probeInFlight /\ probeInFlight \in BOOLEAN /\ healthy \in BOOLEAN /\ abandoned \in BOOLEAN
  BY Zenon DEF Init
<1>2. state = "closed" /\ consecutiveFailures = 0 /\ openFor = 0
  BY DEF Init
<1>3. delivery \in [Deliveries -> [kind: {"none", "normal", "probe"},
                                   age: 0..MaxDelivery, sick: BOOLEAN]]
  BY BreakerAssumption DEF Init, NoDelivery
<1>4. TypeOK
  BY <1>1, <1>2, <1>3, BreakerAssumption DEF TypeOK
<1>5. \A d \in Deliveries : ~Probe(d)
  BY DEF Init, Probe, NoDelivery
<1>6. QED
  BY <1>2, <1>4, <1>5 DEF BreakerInv, OlderThanOutage, OnlyTheProbe, OneProbe

\* Starting a delivery.
LEMMA StartsFacts ==
  ASSUME TypeOK, NEW d \in Deliveries, NEW k \in {"normal", "probe"}, Starts(d, k)
  PROVE  /\ delivery' \in [Deliveries -> [kind: {"none", "normal", "probe"},
                                          age: 0..MaxDelivery, sick: BOOLEAN]]
         /\ delivery'[d].kind = k
         /\ \A e \in Deliveries : e # d => delivery'[e] = delivery[e]
  BY BreakerAssumption DEF TypeOK, Starts

LEMMA AcquireClosedInv ==
  ASSUME BreakerInv, NEW d \in Deliveries, AcquireClosed(d)
  PROVE  BreakerInv'
<1>1. state = "closed" /\ TypeOK /\ Starts(d, "normal") /\ UNCHANGED <<breaker, healthy>>
  BY DEF AcquireClosed, Current, BreakerInv
<1>2. TypeOK'
  BY <1>1, StartsFacts DEF TypeOK, breaker
<1>3. OneProbe'
  BY <1>1, StartsFacts DEF BreakerInv, OneProbe, Probe
<1>4. QED
  BY <1>1, <1>2, <1>3 DEF BreakerInv, OlderThanOutage, OnlyTheProbe, breaker

LEMMA AcquireProbeInv ==
  ASSUME BreakerInv, NEW d \in Deliveries, AcquireProbe(d)
  PROVE  BreakerInv'
<1>1. /\ TypeOK /\ Starts(d, "probe") /\ Current = "half_open" /\ ~probeInFlight
      /\ state' = "half_open" /\ probeInFlight' = TRUE
      /\ UNCHANGED <<consecutiveFailures, openFor, healthy, abandoned>>
  BY DEF AcquireProbe, BreakerInv
<1>2. openFor = RecoveryAfter
  BY <1>1, BreakerAssumption DEF Current, TypeOK
<1>3. TypeOK'
  BY <1>1, <1>2, StartsFacts DEF TypeOK
<1>4. \A e \in Deliveries : e # d => ~Out(e)'
  BY <1>1, StartsFacts, ProbeIsAlone DEF Out
<1>5. Probe(d)'
  BY <1>1, StartsFacts DEF Probe
<1>6. \A e \in Deliveries : Probe(e)' => Out(e)'
  BY DEF Probe, Out
<1>7. OneProbe'
  BY <1>4, <1>6 DEF OneProbe
<1>8. QED
  BY <1>1, <1>3, <1>4, <1>5, <1>7 DEF BreakerInv, OlderThanOutage, OnlyTheProbe

LEMMA AcquireInvalidInv ==
  ASSUME BreakerInv, AcquireInvalid
  PROVE  BreakerInv'
<1>1. openFor = RecoveryAfter /\ TypeOK
  BY BreakerAssumption DEF AcquireInvalid, Current, BreakerInv, TypeOK
<1>2. \A e \in Deliveries : ~Out(e)
  BY ProbeIsAlone DEF AcquireInvalid
<1>3. QED
  BY <1>1, <1>2 DEF AcquireInvalid, BreakerInv, TypeOK, OlderThanOutage, OnlyTheProbe,
                    OneProbe, Out, Probe

\* A refusal changes nothing: an open breaker whose cooldown is over admits.
LEMMA AcquireRefusedInv ==
  ASSUME BreakerInv, NEW d \in Deliveries, AcquireRefused(d)
  PROVE  UNCHANGED vars
  BY DEF AcquireRefused, Current, BreakerInv, TypeOK, vars

\* Ending a delivery.
LEMMA EndsFacts ==
  ASSUME TypeOK, NEW d \in Deliveries, Ends(d)
  PROVE  /\ delivery' \in [Deliveries -> [kind: {"none", "normal", "probe"},
                                          age: 0..MaxDelivery, sick: BOOLEAN]]
         /\ ~Out(d)' /\ ~Probe(d)'
         /\ \A e \in Deliveries : e # d => delivery'[e] = delivery[e]
         /\ \A e \in Deliveries : Out(e)' => Out(e) /\ delivery'[e] = delivery[e]
         /\ \A e \in Deliveries : Probe(e)' => Probe(e)
  BY BreakerAssumption DEF TypeOK, Ends, NoDelivery, Out, Probe

\* A transition to "closed" leaves a consistent record, whatever is under way.
LEMMA CloseFacts ==
  ASSUME Close, healthy' \in BOOLEAN,
         delivery' \in [Deliveries -> [kind: {"none", "normal", "probe"},
                                       age: 0..MaxDelivery, sick: BOOLEAN]]
  PROVE  TypeOK' /\ OlderThanOutage' /\ OnlyTheProbe'
<1>1. ~probeInFlight' /\ probeInFlight' \in BOOLEAN /\ abandoned' \in BOOLEAN
  BY Zenon DEF Close
<1>2. state' = "closed" /\ consecutiveFailures' = 0 /\ openFor' = 0
  BY DEF Close
<1>3. TypeOK'
  BY <1>1, <1>2, BreakerAssumption DEF TypeOK
<1>4. QED
  BY <1>2, <1>3 DEF OlderThanOutage, OnlyTheProbe

LEMMA RecordSuccessInv ==
  ASSUME BreakerInv, NEW d \in Deliveries, RecordSuccess(d)
  PROVE  BreakerInv'
<1>1. TypeOK /\ Ends(d) /\ UNCHANGED healthy
  BY DEF BreakerInv, RecordSuccess
<1>2. OneProbe'
  BY <1>1, EndsFacts DEF BreakerInv, OneProbe
<1>3. CASE state = "half_open"
  <2>1. Close
    BY <1>3 DEF RecordSuccess
  <2>2. healthy' \in BOOLEAN
    BY <1>1 DEF TypeOK
  <2>3. QED
    BY <1>1, <1>2, <2>1, <2>2, EndsFacts, CloseFacts DEF BreakerInv
<1>4. CASE state # "half_open"
  <2>1. consecutiveFailures' = 0 /\ UNCHANGED <<state, openFor, probeInFlight, abandoned>>
    BY <1>4 DEF RecordSuccess
  <2>2. TypeOK'
    BY <1>1, <1>4, <2>1, EndsFacts, BreakerAssumption DEF TypeOK
  <2>3. OlderThanOutage' /\ OnlyTheProbe'
    BY <1>1, <1>4, <2>1, EndsFacts DEF BreakerInv, OlderThanOutage, OnlyTheProbe
  <2>4. QED
    BY <1>2, <2>2, <2>3 DEF BreakerInv
<1>5. QED
  BY <1>3, <1>4

LEMMA RecordFailureInv ==
  ASSUME BreakerInv, NEW d \in Deliveries, RecordFailure(d)
  PROVE  BreakerInv'
<1>1. TypeOK /\ Out(d) /\ Ends(d) /\ UNCHANGED healthy
  BY DEF BreakerInv, RecordFailure
<1>2. consecutiveFailures' \in 0..FailureThreshold
  BY <1>1, BreakerAssumption DEF TypeOK, RecordFailure
<1>3. OneProbe'
  BY <1>1, EndsFacts DEF BreakerInv, OneProbe
<1>4. CASE Open /\ probeInFlight' = FALSE
  <2>1. ~probeInFlight' /\ probeInFlight' \in BOOLEAN
    BY <1>4, Zenon
  <2>2. state' = "open" /\ openFor' = 0 /\ UNCHANGED abandoned
    BY <1>4 DEF Open
  <2>3. TypeOK'
    BY <1>1, <1>2, <2>1, <2>2, EndsFacts, BreakerAssumption DEF TypeOK
  <2>4. \A e \in Deliveries : Out(e)' => delivery'[e].age \in Nat
    BY <1>1, EndsFacts, DeliveryFacts
  <2>5. OlderThanOutage' /\ OnlyTheProbe'
    BY <2>4, <2>2 DEF OlderThanOutage, OnlyTheProbe
  <2>6. QED
    BY <1>3, <2>3, <2>5 DEF BreakerInv
<1>5. CASE /\ UNCHANGED <<state, openFor, probeInFlight, abandoned>>
           /\ state = "open" \/ (state = "closed" /\ consecutiveFailures' < FailureThreshold)
  <2>1. TypeOK'
    BY <1>1, <1>2, <1>5, EndsFacts DEF TypeOK
  <2>2. OlderThanOutage' /\ OnlyTheProbe'
    BY <1>1, <1>5, EndsFacts DEF BreakerInv, OlderThanOutage, OnlyTheProbe
  <2>3. QED
    BY <1>3, <2>1, <2>2 DEF BreakerInv
<1>6. QED
  BY <1>1, <1>4, <1>5 DEF RecordFailure, TypeOK

LEMMA ResetInv ==
  ASSUME BreakerInv, Reset
  PROVE  BreakerInv'
<1>1. Close /\ UNCHANGED <<delivery, healthy>>
  BY DEF Reset
<1>2. TypeOK' /\ OlderThanOutage' /\ OnlyTheProbe'
  BY <1>1, CloseFacts DEF BreakerInv, TypeOK
<1>3. OneProbe'
  BY <1>1 DEF BreakerInv, OneProbe, Probe
<1>4. QED
  BY <1>2, <1>3 DEF BreakerInv

LEMMA GoDownInv ==
  ASSUME BreakerInv, GoDown
  PROVE  BreakerInv'
<1>1. /\ TypeOK /\ UNCHANGED breaker
      /\ \A d \in Deliveries : delivery'[d].kind = delivery[d].kind
                                 /\ delivery'[d].age = delivery[d].age
  BY DEF GoDown, BreakerInv, TypeOK
<1>2. healthy' \in BOOLEAN
  BY Zenon DEF GoDown
<1>3. delivery' \in [Deliveries -> [kind: {"none", "normal", "probe"},
                                    age: 0..MaxDelivery, sick: BOOLEAN]]
  BY <1>1 DEF GoDown, TypeOK
<1>4. TypeOK'
  BY <1>1, <1>2, <1>3 DEF TypeOK, breaker
<1>5. QED
  BY <1>1, <1>4 DEF BreakerInv, OlderThanOutage, OnlyTheProbe, OneProbe, Out, Probe, breaker

LEMMA TickInv ==
  ASSUME BreakerInv, Tick
  PROVE  BreakerInv'
<1>1. /\ TypeOK /\ UNCHANGED <<state, consecutiveFailures, probeInFlight, healthy, abandoned>>
      /\ \A d \in Deliveries : /\ delivery'[d].kind = delivery[d].kind
                               /\ Out(d) => delivery'[d].age = delivery[d].age + 1
  BY DEF Tick, BreakerInv, TypeOK
<1>2. delivery' \in [Deliveries -> [kind: {"none", "normal", "probe"},
                                    age: 0..MaxDelivery, sick: BOOLEAN]]
  BY <1>1, BreakerAssumption DEF Tick, TypeOK
<1>3. openFor' \in 0..RecoveryAfter /\ openFor' <= openFor + 1
      /\ (state = "half_open" => openFor' = RecoveryAfter)
  BY <1>1, BreakerAssumption DEF Tick, TypeOK
<1>4. TypeOK'
  BY <1>1, <1>2, <1>3 DEF TypeOK
<1>5. OlderThanOutage'
  <2> SUFFICES ASSUME NEW d \in Deliveries, state' = "open", Out(d)'
               PROVE  openFor' <= delivery'[d].age
    BY DEF OlderThanOutage
  <2>1. state = "open" /\ Out(d)
    BY <1>1 DEF Out
  <2>2. openFor <= delivery[d].age /\ openFor \in Nat /\ delivery[d].age \in Nat
    BY <1>1, <2>1, DeliveryFacts DEF BreakerInv, OlderThanOutage, TypeOK
  <2>3. QED
    BY <1>1, <1>3, <2>1, <2>2
<1>6. OnlyTheProbe' /\ OneProbe'
  BY <1>1 DEF BreakerInv, OnlyTheProbe, OneProbe, Out, Probe
<1>7. QED
  BY <1>4, <1>5, <1>6 DEF BreakerInv

\* Nothing the invariant speaks of changes.
LEMMA StutterInv ==
  ASSUME BreakerInv, UNCHANGED <<breaker, delivery>>, healthy' \in BOOLEAN
  PROVE  BreakerInv'
  BY DEF breaker, BreakerInv, TypeOK, OlderThanOutage, OnlyTheProbe, OneProbe, Out, Probe

\* Every step preserves the invariant.
LEMMA StepInv == BreakerInv /\ [Next]_vars => BreakerInv'
<1> SUFFICES ASSUME BreakerInv, [Next]_vars PROVE BreakerInv'
  OBVIOUS
<1>1. ASSUME NEW d \in Deliveries, Admit(d) PROVE BreakerInv'
  BY <1>1, AcquireClosedInv, AcquireProbeInv DEF Admit
<1>2. ASSUME NEW d \in Deliveries, Report(d) PROVE BreakerInv'
  BY <1>2, RecordSuccessInv, RecordFailureInv DEF Report
<1>3. CASE UNCHANGED vars
  <2>1. UNCHANGED <<breaker, delivery>> /\ healthy' \in BOOLEAN
    BY <1>3 DEF vars, breaker, BreakerInv, TypeOK
  <2>2. QED
    BY <2>1, StutterInv
<1>4. ASSUME NEW d \in Deliveries, AcquireRefused(d) PROVE BreakerInv'
  BY <1>3, <1>4, AcquireRefusedInv
<1>5. CASE ComeUp
  BY <1>5, StutterInv DEF ComeUp
<1>6. QED
  BY <1>1, <1>2, <1>3, <1>4, <1>5, AcquireInvalidInv, ResetInv, GoDownInv, TickInv DEF Next

-----------------------------------------------------------------------------
\* The breaker's record is consistent and its probe is alone, for every number
\* of deliveries and every interleaving of their answers with resets.
THEOREM BreakerInvariant == Spec => []BreakerInv
  BY InitInv, StepInv, PTL DEF Spec

\* acquirePermission() admits "one request, not a flood".
THEOREM BreakerOneProbe == Spec => []OneProbe
  BY BreakerInvariant, PTL DEF BreakerInv

\* recordSuccess() of a late delivery never closes a half-open breaker.
THEOREM BreakerClosedByEvidence == Spec => ClosedByEvidence
<1> DEFINE Evidence ==
      \/ delivery' = delivery
      \/ \E d \in Deliveries : Probe(d) /\ delivery'[d] = NoDelivery
<1>1. BreakerInv /\ [Next]_vars => [state = "half_open" /\ state' = "closed" => Evidence]_vars
  <2> SUFFICES ASSUME BreakerInv, Next, state = "half_open", state' = "closed"
               PROVE  Evidence
    OBVIOUS
  <2>1. ASSUME NEW d \in Deliveries, RecordSuccess(d) PROVE Evidence
    <3>1. Probe(d)
      BY <2>1 DEF RecordSuccess, BreakerInv, OnlyTheProbe
    <3>2. delivery'[d] = NoDelivery
      BY <2>1 DEF RecordSuccess, Ends, BreakerInv, TypeOK
    <3>3. QED
      BY <3>1, <3>2
  <2>2. ASSUME NEW d \in Deliveries, RecordFailure(d) PROVE FALSE
    BY <2>2 DEF RecordFailure, Open
  <2>3. ASSUME NEW d \in Deliveries, Admit(d) PROVE FALSE
    BY <2>3 DEF Admit, AcquireClosed, AcquireProbe, Current, breaker
  <2>4. QED
    BY <2>1, <2>2, <2>3
    DEF Next, Report, AcquireRefused, AcquireInvalid, Reset, GoDown, ComeUp, Tick, breaker
<1>2. QED
  BY BreakerInvariant, <1>1, PTL DEF Spec, ClosedByEvidence

\* The record keeps its shape: the count of failures stays within the threshold
\* and no delivery outlives its timeout.
THEOREM BreakerTypes == Spec => []TypeOK
  BY BreakerInvariant, PTL DEF BreakerInv
=============================================================================
