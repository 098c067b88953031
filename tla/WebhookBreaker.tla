--------------------------- MODULE WebhookBreaker ---------------------------
(***************************************************************************)
(* The circuit breaker of one webhook destination                          *)
(* (src/src/services/webhookCircuitBreaker.ts) and the deliveries that ask *)
(* it for permission and report to it (src/src/services/webhook.ts).       *)
(*                                                                         *)
(* Time is kept as ages: how long the breaker has been open, how long each *)
(* delivery has been under way.  The retries of a delivery happen while it *)
(* is under way; the breaker hears only of the end.                        *)
(***************************************************************************)
EXTENDS Integers, FiniteSets

CONSTANTS
  Deliveries,        \* deliveries that can be under way at once
  FailureThreshold,  \* consecutive failures that open the breaker
  RecoveryAfter,     \* recoveryAfterMs
  MaxDelivery        \* the longest a delivery takes, retries included

\* 24 hours to recover by default, against some minutes of retries.
ASSUME BreakerAssumption ==
  /\ FailureThreshold \in Nat \ {0}
  /\ RecoveryAfter \in Nat
  /\ MaxDelivery \in Nat
  /\ MaxDelivery < RecoveryAfter

VARIABLES
  state,                \* entry.state
  consecutiveFailures,  \* counted up to the threshold, all that is compared
  openFor,              \* now() - entry.openedAt, up to RecoveryAfter
  probeInFlight,        \* entry.probeInFlight
  delivery,             \* the deliveries under way
  healthy,              \* whether the destination answers
  abandoned             \* history: a probe was admitted and never reported

vars == <<state, consecutiveFailures, openFor, probeInFlight, delivery, healthy, abandoned>>
breaker == <<state, consecutiveFailures, openFor, probeInFlight, abandoned>>

\* `sick` says that the destination was down at some time of the delivery.
NoDelivery == [kind |-> "none", age |-> 0, sick |-> FALSE]
Out(d) == delivery[d].kind # "none"
Probe(d) == delivery[d].kind = "probe"

Init ==
  /\ state = "closed"
  /\ consecutiveFailures = 0
  /\ openFor = 0
  /\ probeInFlight = FALSE
  /\ delivery = [d \in Deliveries |-> NoDelivery]
  /\ healthy = TRUE
  /\ abandoned = FALSE

\* Faulty variant: the cooldown ends one instant early.
CurrentEarly ==
  IF state = "open" /\ openFor + 1 >= RecoveryAfter THEN "half_open" ELSE state

\* maybeHalfOpen(): the state acquirePermission() decides on.
Current ==
  IF state = "open" /\ openFor >= RecoveryAfter THEN "half_open" ELSE state

Starts(d, kind) ==
  delivery' = [delivery EXCEPT ![d] = [kind |-> kind, age |-> 0, sick |-> ~healthy]]

\* acquirePermission() in a closed breaker.
AcquireClosed(d) ==
  /\ ~Out(d)
  /\ Current = "closed"
  /\ Starts(d, "normal")
  /\ UNCHANGED <<breaker, healthy>>

\* Faulty variant: everybody is admitted to a half-open breaker.
AcquireProbeAnyway(d) ==
  /\ ~Out(d)
  /\ Current = "half_open"
  /\ state' = "half_open"
  /\ probeInFlight' = TRUE
  /\ Starts(d, "probe")
  /\ UNCHANGED <<consecutiveFailures, openFor, healthy, abandoned>>

\* acquirePermission() after the cooldown: one delivery is the probe.
AcquireProbe(d) ==
  /\ ~Out(d)
  /\ Current = "half_open"
  /\ ~probeInFlight
  /\ state' = "half_open"
  /\ probeInFlight' = TRUE
  /\ Starts(d, "probe")
  /\ UNCHANGED <<consecutiveFailures, openFor, healthy, abandoned>>

\* The permission is refused and the delivery skipped.
AcquireRefused(d) ==
  /\ ~Out(d)
  /\ Current = "open" \/ (Current = "half_open" /\ probeInFlight)
  /\ state' = Current
  /\ UNCHANGED <<consecutiveFailures, openFor, probeInFlight, delivery, healthy, abandoned>>

\* The payload is found invalid after the probe was admitted: the delivery
\* returns without reporting anything.
AcquireInvalid ==
  /\ Current = "half_open"
  /\ ~probeInFlight
  /\ state' = "half_open"
  /\ probeInFlight' = TRUE
  /\ abandoned' = TRUE
  /\ UNCHANGED <<consecutiveFailures, openFor, delivery, healthy>>

\* transition() to "closed" and to "open".
Close ==
  /\ state' = "closed"
  /\ consecutiveFailures' = 0
  /\ openFor' = 0
  /\ probeInFlight' = FALSE
  /\ abandoned' = FALSE
Open ==
  /\ state' = "open"
  /\ openFor' = 0
  /\ UNCHANGED abandoned

Ends(d) == delivery' = [delivery EXCEPT ![d] = NoDelivery]

\* A delivery lands: recordSuccess().
RecordSuccess(d) ==
  /\ Out(d)
  /\ Ends(d)
  /\ \/ state = "half_open" /\ Close
     \/ /\ state # "half_open"
        /\ consecutiveFailures' = 0
        /\ UNCHANGED <<state, openFor, probeInFlight, abandoned>>
  /\ UNCHANGED healthy

\* Faulty variant: a failed probe keeps the gate.
RecordFailureKeepsGate(d) ==
  LET failures == IF consecutiveFailures < FailureThreshold
                  THEN consecutiveFailures + 1 ELSE consecutiveFailures IN
  /\ Out(d) /\ delivery[d].sick
  /\ Ends(d)
  /\ consecutiveFailures' = failures
  /\ IF state = "half_open" \/ (state = "closed" /\ failures >= FailureThreshold)
     THEN Open ELSE UNCHANGED <<state, openFor, abandoned>>
  /\ UNCHANGED <<probeInFlight, healthy>>

\* The retries are used up: recordFailure().  Its last branch moves an open
\* breaker to "open", which transition() ignores.
RecordFailure(d) ==
  LET failures == IF consecutiveFailures < FailureThreshold
                  THEN consecutiveFailures + 1 ELSE consecutiveFailures IN
  /\ Out(d) /\ delivery[d].sick
  /\ Ends(d)
  /\ consecutiveFailures' = failures
  /\ \/ state = "half_open" /\ probeInFlight' = FALSE /\ Open
     \/ /\ state = "closed" /\ failures >= FailureThreshold
        /\ Open /\ UNCHANGED probeInFlight
     \/ /\ state = "open" \/ (state = "closed" /\ failures < FailureThreshold)
        /\ UNCHANGED <<state, openFor, probeInFlight, abandoned>>
  /\ UNCHANGED healthy

\* An operator's reset(), whatever is under way.
Reset == Close /\ UNCHANGED <<delivery, healthy>>

\* The destination fails and comes back.
GoDown ==
  /\ healthy
  /\ healthy' = FALSE
  /\ delivery' = [d \in Deliveries |->
                    [delivery[d] EXCEPT !.sick = delivery[d].kind # "none"]]
  /\ UNCHANGED breaker
ComeUp ==
  /\ ~healthy
  /\ healthy' = TRUE
  /\ UNCHANGED <<breaker, delivery>>

\* Time passes; no delivery outlives its retries.
Tick ==
  /\ \A d \in Deliveries : Out(d) => delivery[d].age < MaxDelivery
  /\ delivery' = [d \in Deliveries |->
                    [delivery[d] EXCEPT !.age = IF Out(d) THEN @ + 1 ELSE @]]
  /\ openFor' = IF state # "closed" /\ openFor < RecoveryAfter THEN openFor + 1 ELSE openFor
  /\ UNCHANGED <<state, consecutiveFailures, probeInFlight, healthy, abandoned>>

Admit(d) == AcquireClosed(d) \/ AcquireProbe(d)
Report(d) == RecordSuccess(d) \/ RecordFailure(d)

Next ==
  \/ \E d \in Deliveries : Admit(d) \/ AcquireRefused(d) \/ Report(d)
  \/ AcquireInvalid \/ Reset \/ GoDown \/ ComeUp \/ Tick

\* Transactions keep producing events, and every delivery that started ends.
Fairness ==
  /\ WF_vars(Tick)
  /\ WF_vars(\E d \in Deliveries : Admit(d))
  /\ \A d \in Deliveries : WF_vars(Report(d))

Spec == Init /\ [][Next]_vars /\ Fairness

-----------------------------------------------------------------------------
\* The record's fields fit its state: a closed breaker has an open gate and a
\* count below the threshold, an open one has no probe.
TypeOK ==
  /\ state \in {"closed", "open", "half_open"}
  /\ consecutiveFailures \in 0..FailureThreshold
  /\ openFor \in 0..RecoveryAfter
  /\ probeInFlight \in BOOLEAN /\ healthy \in BOOLEAN /\ abandoned \in BOOLEAN
  /\ delivery \in [Deliveries -> [kind: {"none", "normal", "probe"},
                                  age: 0..MaxDelivery, sick: BOOLEAN]]
  /\ state = "closed" => ~probeInFlight /\ consecutiveFailures < FailureThreshold
  /\ state = "open" => ~probeInFlight
  /\ state = "half_open" => openFor = RecoveryAfter

\* "One request, not a flood": whatever was under way when the breaker opened,
\* was reset or reopened, at most one probe is ever under way.
OneProbe ==
  \A d, e \in Deliveries : Probe(d) /\ Probe(e) => d = e

\* A half-open breaker is closed by its probe or by an operator, never by the
\* late answer of a delivery that was under way before it opened.
ClosedByEvidence ==
  [][state = "half_open" /\ state' = "closed" =>
       \/ delivery' = delivery
       \/ \E d \in Deliveries : Probe(d) /\ delivery'[d] = NoDelivery]_vars

\* "a breaker that trips stays tripped forever" is what the half-open state is
\* there to prevent: a destination that is back for good gets its webhooks
\* again, unless the probe was admitted for a payload that is never sent.
Recovers == <>[]healthy => <>[](state = "closed" \/ abandoned)
=============================================================================
