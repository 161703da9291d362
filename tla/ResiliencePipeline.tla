------------------------- MODULE ResiliencePipeline -------------------------
(***************************************************************************)
(* The decorated pipeline of a transition (TypeScript SDK, policy/):       *)
(* FallbackCompensate around CircuitBreaker around RetryBackoff around the *)
(* user's function, executed concurrently by several calls that share one  *)
(* breaker (the breaker's key).  A call is admitted once, retries inside   *)
(* the breaker, and gives the breaker one verdict.                         *)
(***************************************************************************)
EXTENDS CircuitBreaker

CONSTANTS
    Callers,        \* concurrent executions of pipelines with this key
    MaxAttempts     \* retry.maxAttempts, any integer a policy may give

ASSUME PipelineAssumption == MaxAttempts \in Nat /\ IsFiniteSet(Callers)

VARIABLES
    cb,       \* the shared breaker
    call,     \* the state of each caller's execution
    late      \* in this HALF_OPEN period, verdicts other than failures of
              \* calls that were admitted before it

vars == <<cb, call, late>>

Attempts == IF MaxAttempts = 0 THEN 1 ELSE MaxAttempts

\* probe: the call was admitted in the current HALF_OPEN period.
CallStates == [at : {"out", "running", "sleeping"}, attempt : 0..Attempts,
               probe : BOOLEAN]

Out == [at |-> "out", attempt |-> 0, probe |-> FALSE]

Init == /\ cb = ResetBreaker
        /\ call = [c \in Callers |-> Out]
        /\ late = 0

\* The breaker becomes b and caller c's execution becomes s; verdict: c gave
\* one that is no failure.  Probes and late verdicts end with their period.
Become(b, c, s, verdict) ==
    LET same == b.status = "HALF_OPEN" /\ cb.status = "HALF_OPEN"
    IN  /\ cb' = b
        /\ call' = [d \in Callers |->
                        IF d = c THEN s
                        ELSE [call[d] EXCEPT !.probe = same /\ call[d].probe]]
        /\ late' = IF ~same THEN 0
                   ELSE IF verdict /\ ~call[c].probe THEN late + 1 ELSE late

\* breaker.execute admits the call and the first attempt starts.
Admit(c) ==
    LET b == EvaluateTimer(cb)
    IN  /\ call[c].at = "out"
        /\ Admits(b)
        /\ Become(Admitted(b), c,
                  [at |-> "running", attempt |-> 1,
                   probe |-> b.status = "HALF_OPEN"], FALSE)

\* CircuitOpenError: the function is not called; the fallback takes over.
Reject(c) ==
    LET b == EvaluateTimer(cb)
    IN  /\ call[c].at = "out"
        /\ ~Admits(b)
        /\ Become(b, c, Out, FALSE)

\* The function returns and its context is valid.
Succeed(c) ==
    /\ call[c].at = "running"
    /\ Become(OnSuccess(cb), c, Out, TRUE)

\* Faulty variant: one attempt too many (<= for <).
BackoffOnceMore(c) ==
    /\ call[c].at = "running"
    /\ call[c].attempt <= Attempts
    /\ call' = [call EXCEPT ![c].at = "sleeping"]
    /\ UNCHANGED <<cb, late>>

\* A retryable error with attempts left: sleep for the backoff delay.
Backoff(c) ==
    /\ call[c].at = "running"
    /\ call[c].attempt < Attempts
    /\ call' = [call EXCEPT ![c].at = "sleeping"]
    /\ UNCHANGED <<cb, late>>

\* The next attempt starts; the breaker is not asked again.
Retry(c) ==
    /\ call[c].at = "sleeping"
    /\ call' = [call EXCEPT ![c].at = "running",
                            ![c].attempt = call[c].attempt + 1]
    /\ UNCHANGED <<cb, late>>

\* The error is final: attempts are exhausted or retryIf refuses it.
Fail(c) ==
    /\ call[c].at = "running"
    /\ Become(OnFailure(cb), c, Out, FALSE)

\* A ValidationError is final at once and is no failure of the breaker.
Invalid(c) ==
    /\ call[c].at = "running"
    /\ Become(OnValidationError(cb), c, Out, TRUE)

\* getEffectiveConfig reads the status, which may move it.
GetStatus ==
    /\ EvaluateTimer(cb) # cb
    /\ cb' = EvaluateTimer(cb)
    /\ UNCHANGED <<call, late>>

\* CircuitBreakerManager.reset
Reset ==
    /\ cb' = ResetBreaker
    /\ call' = [d \in Callers |-> [call[d] EXCEPT !.probe = FALSE]]
    /\ late' = 0

\* openDurationMs elapses.
Elapse ==
    /\ cb.status = "OPEN" /\ ~cb.elapsed
    /\ cb' = [cb EXCEPT !.elapsed = TRUE]
    /\ UNCHANGED <<call, late>>

Next ==
    \/ \E c \in Callers :
           \/ Admit(c) \/ Reject(c) \/ Succeed(c) \/ Backoff(c) \/ Retry(c)
           \/ Fail(c) \/ Invalid(c)
    \/ GetStatus \/ Reset \/ Elapse

Spec == Init /\ [][Next]_vars

\* Time passes, callers keep coming and functions return in some way.
Fairness ==
    /\ WF_vars(Elapse)
    /\ \A c \in Callers :
           /\ WF_vars(Admit(c) \/ Reject(c))
           /\ WF_vars(Retry(c))
           /\ WF_vars(Succeed(c) \/ Fail(c) \/ Invalid(c) \/ Backoff(c))

FairSpec == Spec /\ Fairness

-----------------------------------------------------------------------------
(* Properties. *)

TypeOK ==
    /\ cb \in Breakers
    /\ call \in [Callers -> CallStates]
    /\ late \in Nat

Executing == {c \in Callers : call[c].at # "out"}
Probes == {c \in Callers : call[c].probe}

\* The breaker cannot shut itself for good: a HALF_OPEN breaker that counts
\* probes in flight has executions in flight that will give a verdict, though
\* trips, resets and late verdicts move the counter behind the probes' back.
NoLockout == cb.status = "HALF_OPEN" => cb.inFlight <= Cardinality(Executing)

\* Failures never pile up unnoticed: verdicts of calls admitted before a trip
\* arrive in every status, and still the window never holds the threshold.
WindowBelowThreshold ==
    /\ Failures(cb.window) < FailureThreshold
    /\ Len(cb.window) <= SlidingWindowSize

\* At most halfOpenMaxCalls probes run at a time, plus one for every late
\* verdict: a call admitted before the period frees a probe it never took.
ProbesBounded == Cardinality(Probes) <= HalfOpenMaxCalls + late

\* An open breaker lets a probe through in the end.
OpenIsTemporary == cb.status = "OPEN" ~> cb.status # "OPEN"
=============================================================================
