--------------------------- MODULE CircuitBreaker ---------------------------
(***************************************************************************)
(* CircuitBreakerInstance (TypeScript SDK, policy/circuit-breaker.ts): the *)
(* breaker is a value, its methods are operators from a breaker to the     *)
(* breaker they leave.  The clock is the boolean elapsed: has              *)
(* openDurationMs passed since openedAt?                                   *)
(***************************************************************************)
EXTENDS Naturals, Sequences, FiniteSets

CONSTANTS
    FailureThreshold,    \* failures in the window that trip the breaker
    SlidingWindowSize,   \* outcomes the window keeps
    HalfOpenMaxCalls     \* probes admitted, and successes that close it

\* The schema's `minimum: 1' on the three numbers.
ASSUME BreakerAssumption ==
    /\ FailureThreshold \in Nat \ {0}
    /\ SlidingWindowSize \in Nat \ {0}
    /\ HalfOpenMaxCalls \in Nat \ {0}

Outcomes == {"success", "failure"}

Breakers == [status : {"CLOSED", "OPEN", "HALF_OPEN"}, elapsed : BOOLEAN,
             window : Seq(Outcomes), inFlight : Nat, successes : Nat]

\* A new breaker, and what reset() makes of any.
ResetBreaker == [status |-> "CLOSED", elapsed |-> FALSE, window |-> <<>>,
                 inFlight |-> 0, successes |-> 0]

TripOpen == [ResetBreaker EXCEPT !.status = "OPEN"]

\* Faulty variant: the timer is never evaluated.
NoTimer(b) == b

\* Run by execute and by getStatus before they look at the status.
EvaluateTimer(b) ==
    IF b.status = "OPEN" /\ b.elapsed
    THEN [b EXCEPT !.status = "HALF_OPEN", !.elapsed = FALSE,
                   !.inFlight = 0, !.successes = 0]
    ELSE b

\* The window after an outcome; the oldest are shifted out.
PushOutcome(w, outcome) ==
    LET pushed == Append(w, outcome)
    IN  IF Len(pushed) > SlidingWindowSize
        THEN SubSeq(pushed, Len(pushed) - SlidingWindowSize + 1, Len(pushed))
        ELSE pushed

Failures(w) == Cardinality({i \in DOMAIN w : w[i] = "failure"})

\* Math.max(0, halfOpenInFlight - 1)
Less(n) == IF n = 0 THEN 0 ELSE n - 1

\* Faulty variant: one probe too many (<= for <).
AdmitsOneMore(b) ==
    \/ b.status = "CLOSED"
    \/ b.status = "HALF_OPEN" /\ b.inFlight <= HalfOpenMaxCalls

\* execute's admission: OPEN, or HALF_OPEN with all probes taken, throws
\* CircuitOpenError.
Admits(b) ==
    \/ b.status = "CLOSED"
    \/ b.status = "HALF_OPEN" /\ b.inFlight < HalfOpenMaxCalls

Admitted(b) ==
    IF b.status = "HALF_OPEN" THEN [b EXCEPT !.inFlight = b.inFlight + 1]
    ELSE b

OnSuccess(b) ==
    IF b.status = "HALF_OPEN"
    THEN IF b.successes + 1 >= HalfOpenMaxCalls
         THEN ResetBreaker
         ELSE [b EXCEPT !.inFlight = Less(b.inFlight),
                        !.successes = b.successes + 1]
    ELSE [b EXCEPT !.window = PushOutcome(b.window, "success")]

\* Faulty variant: the threshold has to be exceeded (> for >=).
OnFailureAbove(b) ==
    LET w == PushOutcome(b.window, "failure")
    IN  IF b.status = "HALF_OPEN" \/ Failures(w) > FailureThreshold
        THEN TripOpen
        ELSE [b EXCEPT !.window = w]

OnFailure(b) ==
    LET w == PushOutcome(b.window, "failure")
    IN  IF b.status = "HALF_OPEN" \/ Failures(w) >= FailureThreshold
        THEN TripOpen
        ELSE [b EXCEPT !.window = w]

\* Faulty variant: a ValidationError does not give its probe back.
KeepsProbe(b) == b

\* A ValidationError (of the context) is no failure: it only frees a probe.
OnValidationError(b) ==
    IF b.status = "HALF_OPEN" THEN [b EXCEPT !.inFlight = Less(b.inFlight)]
    ELSE b
=============================================================================
