--------------------------- MODULE PipelineProofs ---------------------------
(***************************************************************************)
(* Proofs that ResiliencePipeline keeps its invariants for every number of *)
(* callers and attempts and every policy of the breaker.                   *)
(*                                                                         *)
(* The argument is one of accounts.  The breaker's counter of probes in    *)
(* flight is not the number of probes, because verdicts of calls admitted  *)
(* earlier lower it; but it never exceeds the number of executions, and it *)
(* falls short of the number of probes by at most the late verdicts.       *)
(***************************************************************************)
EXTENDS ResiliencePipeline, FiniteSetTheorems, TLAPS

-----------------------------------------------------------------------------
(* The window. *)

\* Dropping the first of n + 1 elements.
LEMMA Shifted ==
    ASSUME NEW S, NEW s \in Seq(S), NEW n \in Nat \ {0}, Len(s) = n + 1
    PROVE  /\ SubSeq(s, 2, n + 1) \in Seq(S)
           /\ Len(SubSeq(s, 2, n + 1)) = n
           /\ \A i \in 1..n : SubSeq(s, 2, n + 1)[i] = s[i + 1]
<1>1. SubSeq(s, 2, n + 1) \in Seq(S) /\ Len(SubSeq(s, 2, n + 1)) = n
  OBVIOUS
<1>2. \A i \in 1..n : SubSeq(s, 2, n + 1)[i] = s[i + 1]
  OBVIOUS
<1> QED
  BY <1>1, <1>2

LEMMA PushTyped ==
    ASSUME NEW w \in Seq(Outcomes), Len(w) <= SlidingWindowSize, NEW ok \in Outcomes
    PROVE  /\ PushOutcome(w, ok) \in Seq(Outcomes)
           /\ Len(PushOutcome(w, ok)) <= SlidingWindowSize
<1> DEFINE pushed == Append(w, ok)
<1>1. pushed \in Seq(Outcomes) /\ Len(pushed) = Len(w) + 1 /\ Len(w) \in Nat
  OBVIOUS
<1>2. SlidingWindowSize \in Nat \ {0}
  BY BreakerAssumption
<1>3. CASE Len(pushed) <= SlidingWindowSize
  BY <1>1, <1>2, <1>3 DEF PushOutcome
<1>4. CASE Len(pushed) > SlidingWindowSize
  <2>1. Len(pushed) = SlidingWindowSize + 1
    BY <1>1, <1>2, <1>4
  <2>2. PushOutcome(w, ok) = SubSeq(pushed, 2, SlidingWindowSize + 1)
    BY <1>2, <1>4, <2>1 DEF PushOutcome
  <2> HIDE DEF pushed
  <2> QED
    BY <1>1, <1>2, <2>1, <2>2, Shifted
<1> QED
  BY <1>1, <1>2, <1>3, <1>4

LEMMA FailuresFinite ==
    ASSUME NEW w \in Seq(Outcomes)
    PROVE  IsFiniteSet({i \in DOMAIN w : w[i] = "failure"}) /\ Failures(w) \in Nat
<1>1. IsFiniteSet(1..Len(w))
  BY FS_Interval
<1>2. {i \in DOMAIN w : w[i] = "failure"} \in SUBSET (1..Len(w))
  OBVIOUS
<1> QED
  BY <1>1, <1>2, FS_Subset, FS_CardinalityType DEF Failures

\* A success pushes failures out and none in.
LEMMA SuccessAddsNoFailure ==
    ASSUME NEW w \in Seq(Outcomes), Len(w) <= SlidingWindowSize
    PROVE  Failures(PushOutcome(w, "success")) <= Failures(w)
<1> DEFINE pushed == Append(w, "success")
           after == PushOutcome(w, "success")
           S == {i \in DOMAIN after : after[i] = "failure"}
           T == {i \in DOMAIN w : w[i] = "failure"}
<1>1. /\ pushed \in Seq(Outcomes) /\ Len(pushed) = Len(w) + 1 /\ Len(w) \in Nat
      /\ \A i \in 1..Len(w) : pushed[i] = w[i]
      /\ pushed[Len(w) + 1] = "success"
  BY DEF Outcomes
<1>2. SlidingWindowSize \in Nat \ {0}
  BY BreakerAssumption
<1>3. IsFiniteSet(T)
  BY FailuresFinite
<1>4. CASE Len(pushed) <= SlidingWindowSize
  <2>1. after = pushed
    BY <1>1, <1>2, <1>4 DEF PushOutcome
  <2>2. S \in SUBSET T
    BY <1>1, <2>1
  <2> QED
    BY <1>3, <2>2, FS_Subset DEF Failures
<1>5. CASE Len(pushed) > SlidingWindowSize
  <2>1. Len(w) = SlidingWindowSize
    BY <1>1, <1>2, <1>5
  <2>2. after = SubSeq(pushed, 2, SlidingWindowSize + 1)
    BY <1>1, <1>2, <1>5, <2>1 DEF PushOutcome
  <2>4. /\ after \in Seq(Outcomes) /\ Len(after) = SlidingWindowSize
        /\ \A i \in 1..SlidingWindowSize : after[i] = pushed[i + 1]
    <3> HIDE DEF pushed
    <3>1. Len(pushed) = SlidingWindowSize + 1
      BY <1>1, <2>1
    <3>2. /\ SubSeq(pushed, 2, SlidingWindowSize + 1) \in Seq(Outcomes)
          /\ Len(SubSeq(pushed, 2, SlidingWindowSize + 1)) = SlidingWindowSize
          /\ \A i \in 1..SlidingWindowSize :
                 SubSeq(pushed, 2, SlidingWindowSize + 1)[i] = pushed[i + 1]
      BY <1>1, <1>2, <3>1, Shifted
    <3> QED
      BY <2>2, <3>2
  <2> HIDE DEF pushed, after
  <2>5. \A i \in S : i + 1 \in T
    <3> SUFFICES ASSUME NEW i \in S PROVE i + 1 \in T
      OBVIOUS
    <3>1. i \in 1..SlidingWindowSize /\ pushed[i + 1] = "failure"
      BY <1>2, <2>4
    <3>2. i # SlidingWindowSize
      BY <1>1, <2>1, <3>1
    <3> QED
      BY <1>1, <1>2, <2>1, <3>1, <3>2
  <2> DEFINE f == [i \in S |-> i + 1]
  <2>6. S \subseteq Nat
    BY <1>2, <2>4
  <2>7. f \in Injection(S, T)
    BY <2>5, <2>6 DEF Injection, IsInjective
  <2>8. Failures(w) = Cardinality(T) /\ Failures(after) = Cardinality(S)
    BY DEF Failures
  <2> HIDE DEF S, T, f
  <2>9. Cardinality(S) <= Cardinality(T)
    BY <1>3, <2>7, FS_Injection
  <2> QED
    BY <2>8, <2>9 DEF after
<1> QED
  BY <1>1, <1>2, <1>4, <1>5

-----------------------------------------------------------------------------
(* The breaker. *)

BreakerOK(b) ==
    /\ b \in Breakers
    /\ Failures(b.window) < FailureThreshold
    /\ Len(b.window) <= SlidingWindowSize
    /\ b.status = "HALF_OPEN" => b.inFlight <= HalfOpenMaxCalls

LEMMA EmptyBreakers == BreakerOK(ResetBreaker) /\ BreakerOK(TripOpen)
<1>1. Failures(<<>>) = 0
  <2>1. {i \in DOMAIN <<>> : (<<>>)[i] = "failure"} = {}
    OBVIOUS
  <2> QED
    BY <2>1, FS_EmptySet DEF Failures
<1>2. <<>> \in Seq(Outcomes) /\ Len(<<>>) = 0
  OBVIOUS
<1>3. BreakerOK(ResetBreaker)
  BY <1>1, <1>2, BreakerAssumption DEF BreakerOK, Breakers, ResetBreaker
<1>4. TripOpen \in Breakers /\ TripOpen.window = <<>> /\ TripOpen.status = "OPEN"
  BY <1>2 DEF Breakers, ResetBreaker, TripOpen
<1>5. BreakerOK(TripOpen)
  BY <1>1, <1>2, <1>4, BreakerAssumption DEF BreakerOK
<1> QED
  BY <1>3, <1>5

\* What a method may change without care.
LEMMA InOrder ==
    ASSUME NEW b \in Breakers, NEW c \in Breakers,
           BreakerOK(b), c.window = b.window,
           c.status = "HALF_OPEN" => c.inFlight <= HalfOpenMaxCalls
    PROVE  BreakerOK(c)
  BY DEF BreakerOK

\* Every method of the breaker keeps it in order.
LEMMA MethodsOK ==
    ASSUME NEW b, BreakerOK(b)
    PROVE  /\ BreakerOK(EvaluateTimer(b))
           /\ Admits(b) => BreakerOK(Admitted(b))
           /\ BreakerOK(OnSuccess(b))
           /\ BreakerOK(OnFailure(b))
           /\ BreakerOK(OnValidationError(b))
<1>0. /\ b \in Breakers /\ b.window \in Seq(Outcomes)
      /\ b.inFlight \in Nat /\ b.successes \in Nat
      /\ Len(b.window) <= SlidingWindowSize
      /\ Failures(b.window) < FailureThreshold
      /\ Failures(b.window) \in Nat
      /\ HalfOpenMaxCalls \in Nat \ {0} /\ FailureThreshold \in Nat
  BY FailuresFinite, BreakerAssumption DEF BreakerOK, Breakers
<1>1. BreakerOK(EvaluateTimer(b))
  <2>1. CASE b.status = "OPEN" /\ b.elapsed
    <3>1. EvaluateTimer(b) = [b EXCEPT !.status = "HALF_OPEN", !.elapsed = FALSE,
                                       !.inFlight = 0, !.successes = 0]
      BY <2>1, Zenon DEF EvaluateTimer
    <3> DEFINE c == [b EXCEPT !.status = "HALF_OPEN", !.elapsed = FALSE,
                              !.inFlight = 0, !.successes = 0]
    <3>2. c \in Breakers /\ c.window = b.window /\ c.inFlight = 0
      BY <1>0 DEF Breakers
    <3> HIDE DEF c
    <3>3. BreakerOK(c)
      BY <1>0, <3>2, InOrder
    <3> QED
      BY <3>1, <3>3 DEF c
  <2>2. CASE ~(b.status = "OPEN" /\ b.elapsed)
    BY <2>2, Zenon DEF EvaluateTimer
  <2> QED
    BY <2>1, <2>2
<1>2. Admits(b) => BreakerOK(Admitted(b))
  BY <1>0 DEF BreakerOK, Breakers, Admits, Admitted
<1>3. BreakerOK(OnSuccess(b))
  <2>1. CASE b.status = "HALF_OPEN"
    <3> DEFINE n == Less(b.inFlight)
               k == b.successes + 1
               c == [b EXCEPT !.inFlight = n, !.successes = k]
    <3>1. n \in Nat /\ n <= b.inFlight /\ k \in Nat
      BY <1>0 DEF Less
    <3>2. OnSuccess(b) \in {ResetBreaker, c}
      BY <2>1 DEF OnSuccess
    <3> HIDE DEF n, k
    <3>3. c \in Breakers /\ c.window = b.window /\ c.inFlight = n
      BY <1>0, <3>1 DEF Breakers
    <3> HIDE DEF c
    <3>4. b.inFlight <= HalfOpenMaxCalls
      BY <2>1 DEF BreakerOK
    <3>5. BreakerOK(c)
      BY <1>0, <3>1, <3>3, <3>4, InOrder
    <3> QED
      BY <3>2, <3>5, EmptyBreakers
  <2>2. CASE b.status # "HALF_OPEN"
    <3> DEFINE w == PushOutcome(b.window, "success")
    <3>1. w \in Seq(Outcomes) /\ Len(w) <= SlidingWindowSize
      BY <1>0, PushTyped DEF Outcomes
    <3>2. Failures(w) <= Failures(b.window) /\ Failures(w) \in Nat
      BY <1>0, <3>1, SuccessAddsNoFailure, FailuresFinite
    <3>3. OnSuccess(b) = [b EXCEPT !.window = w]
      BY <2>2 DEF OnSuccess
    <3>4. Failures(w) < FailureThreshold
      BY <1>0, <3>2
    <3> HIDE DEF w
    <3> QED
      BY <1>0, <2>2, <3>1, <3>3, <3>4 DEF BreakerOK, Breakers
  <2> QED
    BY <2>1, <2>2
<1>4. BreakerOK(OnFailure(b))
  <2> DEFINE w == PushOutcome(b.window, "failure")
  <2>1. w \in Seq(Outcomes) /\ Len(w) <= SlidingWindowSize /\ Failures(w) \in Nat
    BY <1>0, PushTyped, FailuresFinite DEF Outcomes
  <2>2. OnFailure(b) = IF b.status = "HALF_OPEN" \/ Failures(w) >= FailureThreshold
                       THEN TripOpen ELSE [b EXCEPT !.window = w]
    BY DEF OnFailure
  <2> HIDE DEF w
  <2>3. CASE b.status = "HALF_OPEN" \/ Failures(w) >= FailureThreshold
    BY <2>2, <2>3, EmptyBreakers
  <2>4. CASE ~(b.status = "HALF_OPEN" \/ Failures(w) >= FailureThreshold)
    <3>1. OnFailure(b) = [b EXCEPT !.window = w]
      BY <2>2, <2>4
    <3>2. Failures(w) < FailureThreshold
      BY <1>0, <2>1, <2>4
    <3> QED
      BY <1>0, <2>1, <2>4, <3>1, <3>2 DEF BreakerOK, Breakers
  <2> QED
    BY <2>3, <2>4
<1>5. BreakerOK(OnValidationError(b))
  BY <1>0 DEF BreakerOK, Breakers, OnValidationError, Less
<1> QED
  BY <1>1, <1>2, <1>3, <1>4, <1>5

-----------------------------------------------------------------------------
(* The accounts. *)

Accounts ==
    /\ \A c \in Callers :
           /\ call[c].probe => call[c].at # "out" /\ cb.status = "HALF_OPEN"
           /\ call[c].at = "sleeping" => call[c].attempt < Attempts
    /\ cb.status = "HALF_OPEN" =>
           /\ cb.inFlight <= Cardinality(Executing)
           /\ Cardinality(Probes) <= cb.inFlight + late

IInv == TypeOK /\ BreakerOK(cb) /\ Accounts

LEMMA SetsFinite ==
    /\ IsFiniteSet(Executing) /\ Cardinality(Executing) \in Nat
    /\ IsFiniteSet(Probes) /\ Cardinality(Probes) \in Nat
<1>1. Executing \in SUBSET Callers /\ Probes \in SUBSET Callers
  BY DEF Executing, Probes
<1> QED
  BY <1>1, PipelineAssumption, FS_Subset, FS_CardinalityType

\* What Become does to the callers.
LEMMA BecomeSets ==
    ASSUME TypeOK, NEW b, NEW c \in Callers, NEW s \in CallStates, NEW verdict,
           Become(b, c, s, verdict)
    PROVE  LET same == b.status = "HALF_OPEN" /\ cb.status = "HALF_OPEN" IN
           /\ call' \in [Callers -> CallStates]
           /\ call'[c] = s
           /\ \A d \in Callers \ {c} :
                  /\ call'[d].at = call[d].at
                  /\ call'[d].attempt = call[d].attempt
                  /\ call'[d].probe <=> same /\ call[d].probe
           /\ Executing' = IF s.at = "out" THEN Executing \ {c}
                           ELSE Executing \cup {c}
           /\ Probes' = (IF same THEN Probes \ {c} ELSE {})
                            \cup (IF s.probe THEN {c} ELSE {})
<1> DEFINE same == b.status = "HALF_OPEN" /\ cb.status = "HALF_OPEN"
<1>1. call' = [d \in Callers |->
                  IF d = c THEN s
                  ELSE [call[d] EXCEPT !.probe = same /\ call[d].probe]]
  BY DEF Become
<1>2. ASSUME NEW d \in Callers, NEW p \in BOOLEAN
      PROVE  /\ [call[d] EXCEPT !.probe = p] \in CallStates
             /\ [call[d] EXCEPT !.probe = p].at = call[d].at
             /\ [call[d] EXCEPT !.probe = p].attempt = call[d].attempt
             /\ [call[d] EXCEPT !.probe = p].probe = p
  BY <1>2 DEF TypeOK, CallStates
<1>3. \A d \in Callers : (same /\ call[d].probe) \in BOOLEAN
  OBVIOUS
<1> HIDE DEF same
<1>4. \A d \in Callers \ {c} :
          /\ call'[d] \in CallStates
          /\ call'[d].at = call[d].at
          /\ call'[d].attempt = call[d].attempt
          /\ call'[d].probe <=> same /\ call[d].probe
  <2> SUFFICES ASSUME NEW d \in Callers \ {c}
               PROVE  /\ call'[d] \in CallStates
                      /\ call'[d].at = call[d].at
                      /\ call'[d].attempt = call[d].attempt
                      /\ call'[d].probe <=> same /\ call[d].probe
    OBVIOUS
  <2> DEFINE p == same /\ call[d].probe
  <2>1. call'[d] = [call[d] EXCEPT !.probe = p]
    BY <1>1, Zenon
  <2>2. p \in BOOLEAN
    OBVIOUS
  <2>3. call'[d].probe = p
    BY <1>2, <2>1, <2>2, Zenon
  <2> QED
    BY <1>2, <2>1, <2>2, <2>3, Zenon
<1>5. call'[c] = s
  BY <1>1
<1>6. call' \in [Callers -> CallStates]
  <2>1. \A d \in Callers : call'[d] \in CallStates
    BY <1>4, <1>5
  <2> QED
    BY <1>1, <2>1
<1>7. Executing' = IF s.at = "out" THEN Executing \ {c} ELSE Executing \cup {c}
  BY <1>4, <1>5, SMT DEF Executing
<1>8. Probes' = (IF same THEN Probes \ {c} ELSE {})
                    \cup (IF s.probe THEN {c} ELSE {})
  BY <1>4, <1>5 DEF Probes
<1> QED
  BY <1>4, <1>5, <1>6, <1>7, <1>8, Zenon DEF same

\* What is left to show of a step that ends with Become: the new accounts.
LEMMA BecomeKeeps ==
    ASSUME IInv, NEW b, BreakerOK(b), NEW c \in Callers, NEW s \in CallStates,
           NEW verdict \in BOOLEAN, Become(b, c, s, verdict),
           s.probe => s.at # "out" /\ b.status = "HALF_OPEN",
           s.at = "sleeping" => s.attempt < Attempts,
           b.status = "HALF_OPEN" =>
               /\ b.inFlight <= Cardinality(Executing')
               /\ Cardinality(Probes') <= b.inFlight + late'
    PROVE  IInv'
<1>0. TypeOK /\ Accounts
  BY DEF IInv
<1>1. cb' = b
  BY DEF Become
<1>2. late' \in Nat
  BY <1>0, SMT DEF Become, TypeOK
<1>3. TypeOK'
  BY <1>0, <1>1, <1>2, BecomeSets DEF TypeOK, BreakerOK
<1>4. ASSUME NEW d \in Callers
      PROVE  /\ call'[d].probe => call'[d].at # "out" /\ cb'.status = "HALF_OPEN"
             /\ call'[d].at = "sleeping" => call'[d].attempt < Attempts
  <2>1. CASE d = c
    BY <1>0, <1>1, <2>1, BecomeSets
  <2>2. CASE d # c
    BY <1>0, <1>1, <2>2, BecomeSets DEF Accounts
  <2> QED
    BY <2>1, <2>2
<1>5. Accounts'
  BY <1>1, <1>4 DEF Accounts
<1> QED
  BY <1>1, <1>3, <1>5 DEF IInv, BreakerOK

\* The timer leaves the breaker alone, or starts a period with every probe free.
LEMMA TimerEffect ==
    ASSUME cb \in Breakers
    PROVE  \/ EvaluateTimer(cb) = cb
           \/ /\ cb.status = "OPEN"
              /\ EvaluateTimer(cb) \in Breakers
              /\ EvaluateTimer(cb).status = "HALF_OPEN"
              /\ EvaluateTimer(cb).inFlight = 0
<1>1. CASE cb.status = "OPEN" /\ cb.elapsed
  <2>1. EvaluateTimer(cb) = [cb EXCEPT !.status = "HALF_OPEN", !.elapsed = FALSE,
                                       !.inFlight = 0, !.successes = 0]
    BY <1>1, Zenon DEF EvaluateTimer
  <2> DEFINE b == [cb EXCEPT !.status = "HALF_OPEN", !.elapsed = FALSE,
                             !.inFlight = 0, !.successes = 0]
  <2>2. b \in Breakers /\ b.status = "HALF_OPEN" /\ b.inFlight = 0
    BY DEF Breakers
  <2>3. cb.status = "OPEN" /\ EvaluateTimer(cb) = b
    BY <1>1, <2>1, Zenon
  <2> HIDE DEF b
  <2> QED
    BY <2>2, <2>3
<1>2. CASE ~(cb.status = "OPEN" /\ cb.elapsed)
  BY <1>2, Zenon DEF EvaluateTimer
<1> QED
  BY <1>1, <1>2

LEMMA AdmitKeeps ==
    ASSUME IInv, NEW c \in Callers, Admit(c)
    PROVE  IInv'
<1> DEFINE b == EvaluateTimer(cb)
           s == [at |-> "running", attempt |-> 1, probe |-> b.status = "HALF_OPEN"]
<1>0. /\ TypeOK /\ BreakerOK(cb) /\ Accounts
      /\ call[c].at = "out" /\ Admits(b) /\ Become(Admitted(b), c, s, FALSE)
  BY DEF IInv, Admit
<1>1. BreakerOK(b)
  BY <1>0, MethodsOK
<1>2. BreakerOK(Admitted(b))
  BY <1>0, <1>1, MethodsOK
<1>3. s \in CallStates /\ s.at = "running" /\ (s.probe <=> b.status = "HALF_OPEN")
  <2> DEFINE p == b.status = "HALF_OPEN"
  <2>1. p \in BOOLEAN /\ 1 \in 0..Attempts
    BY PipelineAssumption DEF Attempts
  <2> HIDE DEF p
  <2>2. /\ [at |-> "running", attempt |-> 1, probe |-> p] \in CallStates
        /\ [at |-> "running", attempt |-> 1, probe |-> p].at = "running"
        /\ [at |-> "running", attempt |-> 1, probe |-> p].probe = p
    BY <2>1 DEF CallStates
  <2> QED
    BY <2>2, Zenon DEF p
<1>4. b = cb \/ (cb.status # "HALF_OPEN" /\ b.status = "HALF_OPEN" /\ b.inFlight = 0)
  BY <1>0, TimerEffect DEF TypeOK
<1>5. /\ Admitted(b).status = b.status
      /\ b.status = "HALF_OPEN" => Admitted(b).inFlight = b.inFlight + 1
      /\ b.inFlight \in Nat
  BY <1>1 DEF Admitted, BreakerOK, Breakers
<1> HIDE DEF b, s
<1>6. ASSUME b.status = "HALF_OPEN"
      PROVE  /\ Admitted(b).inFlight <= Cardinality(Executing')
             /\ Cardinality(Probes') <= Admitted(b).inFlight + late'
  <2> DEFINE same == cb.status = "HALF_OPEN"
  <2>1. /\ Executing' = Executing \cup {c}
        /\ Probes' = (IF same THEN Probes \ {c} ELSE {}) \cup {c}
    BY <1>0, <1>3, <1>5, <1>6, BecomeSets
  <2>2. c \notin Executing /\ c \notin Probes
    BY <1>0 DEF Executing, Probes, Accounts
  <2>3. Cardinality(Executing') = Cardinality(Executing) + 1
    BY <2>1, <2>2, SetsFinite, FS_AddElement
  <2>4. late' = IF same THEN late ELSE 0
    BY <1>0, <1>5, <1>6, SMT DEF Become
  <2>5. late \in Nat
    BY <1>0 DEF TypeOK
  <2>6. CASE same
    <3>1. b = cb
      BY <1>4, <2>6
    <3>2. Probes' = Probes \cup {c}
      BY <2>1, <2>2, <2>6
    <3>3. Cardinality(Probes') = Cardinality(Probes) + 1
      BY <2>2, <3>2, SetsFinite, FS_AddElement
    <3> QED
      BY <1>0, <1>5, <1>6, <2>3, <2>4, <2>5, <2>6, <3>1, <3>3, SetsFinite DEF Accounts
  <2>7. CASE ~same
    <3>1. b.inFlight = 0
      BY <1>4, <1>6, <2>7
    <3>2. Probes' = {c}
      BY <2>1, <2>7
    <3>3. Cardinality(Probes') = 1
      BY <3>2, FS_Singleton
    <3> QED
      BY <1>5, <1>6, <2>3, <2>4, <2>7, <3>1, <3>3, SetsFinite
  <2> QED
    BY <2>6, <2>7
<1> QED
  BY <1>0, <1>2, <1>3, <1>5, <1>6, BecomeKeeps

\* An execution ends: its verdict lowers the counter by one at most, and is
\* counted as late unless it is a probe's.
LEMMA LeavingKeeps ==
    ASSUME IInv, NEW c \in Callers, call[c].at = "running", NEW b, BreakerOK(b),
           NEW verdict \in BOOLEAN, Become(b, c, Out, verdict),
           b.status = "HALF_OPEN" =>
               cb.status = "HALF_OPEN" /\ verdict /\ b.inFlight = Less(cb.inFlight)
    PROVE  IInv'
<1>0. /\ TypeOK /\ Accounts /\ late \in Nat /\ cb.inFlight \in Nat
  BY DEF IInv, TypeOK, Breakers
<1>1. Out \in CallStates /\ Out.at = "out" /\ Out.probe = FALSE
  BY PipelineAssumption DEF Out, CallStates, Attempts
<1>2. ASSUME b.status = "HALF_OPEN"
      PROVE  /\ b.inFlight <= Cardinality(Executing')
             /\ Cardinality(Probes') <= b.inFlight + late'
  <2>1. /\ Executing' = Executing \ {c}
        /\ Probes' = Probes \ {c}
    <3>1. cb.status = "HALF_OPEN"
      BY <1>2
    <3> DEFINE s == Out
    <3>2. /\ s \in CallStates /\ s.at = "out" /\ s.probe = FALSE
          /\ Become(b, c, s, verdict)
      BY <1>1
    <3> HIDE DEF s
    <3>3. Executing' = Executing \ {c}
      BY <1>0, <3>2, BecomeSets
    <3>4. Probes' = Probes \ {c}
      <4> DEFINE rest == IF b.status = "HALF_OPEN" /\ cb.status = "HALF_OPEN"
                         THEN Probes \ {c} ELSE {}
                 own == IF s.probe THEN {c} ELSE {}
      <4>1. Probes' = rest \cup own
        BY <1>0, <3>2, BecomeSets, Zenon
      <4>2. own = {}
        BY <3>2, Zenon
      <4>3. rest = Probes \ {c}
        BY <1>2, <3>1, Zenon
      <4> HIDE DEF rest, own
      <4> QED
        BY <4>1, <4>2, <4>3
    <3> QED
      BY <3>3, <3>4
  <2>2. c \in Executing
    BY DEF Executing
  <2>3. Cardinality(Executing') = Cardinality(Executing) - 1
    BY <2>1, <2>2, SetsFinite, FS_RemoveElement
  <2>4. Cardinality(Executing) >= 1
    BY <2>2, SetsFinite, FS_EmptySet
  <2>5. /\ cb.inFlight <= Cardinality(Executing)
        /\ Cardinality(Probes) <= cb.inFlight + late
    BY <1>0, <1>2 DEF Accounts
  <2>6. CASE call[c].probe
    <3>1. c \in Probes
      BY <2>6 DEF Probes
    <3>2. Cardinality(Probes') = Cardinality(Probes) - 1
      BY <2>1, <3>1, SetsFinite, FS_RemoveElement
    <3>3. late' = late
      BY <1>2, <2>6, Zenon DEF Become
    <3> QED
      BY <1>0, <1>2, <2>3, <2>4, <2>5, <3>2, <3>3, SetsFinite DEF Less
  <2>7. CASE ~call[c].probe
    <3>1. Probes' = Probes
      BY <2>1, <2>7 DEF Probes
    <3>2. late' = late + 1
      BY <1>2, <2>7, Zenon DEF Become
    <3> QED
      BY <1>0, <1>2, <2>3, <2>4, <2>5, <3>1, <3>2, SetsFinite DEF Less
  <2> QED
    BY <2>6, <2>7
<1> QED
  BY <1>1, <1>2, BecomeKeeps

\* A rejected call changes nothing: a breaker whose timer has just fired admits.
LEMMA RejectKeeps ==
    ASSUME IInv, NEW c \in Callers, Reject(c)
    PROVE  IInv'
<1>0. /\ TypeOK /\ BreakerOK(cb) /\ Accounts /\ cb \in Breakers
      /\ call[c].at = "out" /\ ~Admits(EvaluateTimer(cb))
      /\ Become(EvaluateTimer(cb), c, Out, FALSE)
  BY DEF IInv, TypeOK, Reject
<1>1. EvaluateTimer(cb) = cb
  BY <1>0, TimerEffect, BreakerAssumption DEF Admits
<1>2. Out \in CallStates /\ Out.at = "out" /\ Out.probe = FALSE
  BY PipelineAssumption DEF Out, CallStates, Attempts
<1>3. c \notin Executing /\ c \notin Probes
  BY <1>0 DEF Executing, Probes, Accounts
<1>4. ASSUME cb.status = "HALF_OPEN"
      PROVE  /\ cb.inFlight <= Cardinality(Executing')
             /\ Cardinality(Probes') <= cb.inFlight + late'
  <2>1. Executing' = Executing /\ Probes' \subseteq Probes
    <3> DEFINE s == Out
    <3>1. s \in CallStates /\ s.at = "out" /\ s.probe = FALSE /\ Become(cb, c, s, FALSE)
      BY <1>0, <1>1, <1>2
    <3> HIDE DEF s
    <3>2. Executing' = Executing \ {c}
      BY <1>0, <3>1, BecomeSets
    <3>3. \A d \in Callers \ {c} : call'[d].probe => call[d].probe
      BY <1>0, <3>1, BecomeSets
    <3>4. call'[c].probe = FALSE
      BY <1>0, <3>1, BecomeSets
    <3> QED
      BY <1>3, <3>2, <3>3, <3>4 DEF Probes
  <2>2. late' = late
    BY <1>0, <1>1, <1>4, Zenon DEF Become
  <2>3. Cardinality(Probes') <= Cardinality(Probes) /\ Cardinality(Probes') \in Nat
    BY <2>1, SetsFinite, FS_Subset, FS_CardinalityType
  <2> QED
    BY <1>0, <1>4, <2>1, <2>2, <2>3, SetsFinite DEF Accounts, TypeOK, Breakers
<1> QED
  BY <1>0, <1>1, <1>2, <1>4, BecomeKeeps

LEMMA SucceedKeeps ==
    ASSUME IInv, NEW c \in Callers, Succeed(c)
    PROVE  IInv'
<1>0. /\ BreakerOK(cb) /\ cb \in Breakers /\ call[c].at = "running"
      /\ Become(OnSuccess(cb), c, Out, TRUE)
  BY DEF IInv, TypeOK, Succeed
<1>1. BreakerOK(OnSuccess(cb))
  BY <1>0, MethodsOK
<1>2. OnSuccess(cb).status = "HALF_OPEN" =>
          cb.status = "HALF_OPEN" /\ OnSuccess(cb).inFlight = Less(cb.inFlight)
  BY <1>0 DEF OnSuccess, ResetBreaker, Breakers
<1> QED
  BY <1>0, <1>1, <1>2, LeavingKeeps

LEMMA InvalidKeeps ==
    ASSUME IInv, NEW c \in Callers, Invalid(c)
    PROVE  IInv'
<1>0. /\ BreakerOK(cb) /\ cb \in Breakers /\ call[c].at = "running"
      /\ Become(OnValidationError(cb), c, Out, TRUE)
  BY DEF IInv, TypeOK, Invalid
<1>1. BreakerOK(OnValidationError(cb))
  BY <1>0, MethodsOK
<1>2. OnValidationError(cb).status = "HALF_OPEN" =>
          /\ cb.status = "HALF_OPEN"
          /\ OnValidationError(cb).inFlight = Less(cb.inFlight)
  BY <1>0 DEF OnValidationError, Breakers
<1> QED
  BY <1>0, <1>1, <1>2, LeavingKeeps

LEMMA FailKeeps ==
    ASSUME IInv, NEW c \in Callers, Fail(c)
    PROVE  IInv'
<1>0. /\ BreakerOK(cb) /\ cb \in Breakers /\ call[c].at = "running"
      /\ Become(OnFailure(cb), c, Out, FALSE)
  BY DEF IInv, TypeOK, Fail
<1>1. BreakerOK(OnFailure(cb))
  BY <1>0, MethodsOK
<1>2. OnFailure(cb).status # "HALF_OPEN"
  <2>1. TripOpen.status = "OPEN"
    BY DEF TripOpen, ResetBreaker
  <2> DEFINE w == PushOutcome(cb.window, "failure")
             n == Failures(w)
  <2>2. OnFailure(cb) = IF cb.status = "HALF_OPEN" \/ n >= FailureThreshold
                        THEN TripOpen ELSE [cb EXCEPT !.window = w]
    BY DEF OnFailure
  <2> HIDE DEF w, n
  <2> QED
    BY <1>0, <2>1, <2>2 DEF Breakers
<1> QED
  BY <1>0, <1>1, <1>2, LeavingKeeps

\* Between its attempts an execution stays what it is to the breaker.
LEMMA AttemptKeeps ==
    ASSUME IInv, NEW c \in Callers, Backoff(c) \/ Retry(c)
    PROVE  IInv'
<1>0. /\ TypeOK /\ BreakerOK(cb) /\ Accounts /\ UNCHANGED <<cb, late>>
      /\ call[c].at # "out" /\ call[c] \in CallStates
      /\ call[c].attempt < Attempts
      /\ Attempts \in Nat
  BY PipelineAssumption DEF IInv, TypeOK, Backoff, Retry, Accounts, Attempts
<1>1. /\ call' \in [Callers -> CallStates]
      /\ \A d \in Callers :
             /\ call'[d].at = "out" <=> call[d].at = "out"
             /\ call'[d].probe = call[d].probe
             /\ call'[d].at = "sleeping" => call'[d].attempt < Attempts
  <2>1. CASE Backoff(c)
    BY <1>0, <2>1 DEF TypeOK, CallStates, Accounts, Backoff
  <2>2. CASE Retry(c)
    BY <1>0, <2>2 DEF TypeOK, CallStates, Accounts, Retry
  <2> QED
    BY <2>1, <2>2
<1>2. Executing' = Executing
  BY <1>1 DEF Executing
<1>3. Probes' = Probes
  BY <1>1, Zenon DEF Probes
<1>4. Accounts'
  BY <1>0, <1>1, <1>2, <1>3 DEF Accounts
<1> QED
  BY <1>0, <1>1, <1>4 DEF IInv, TypeOK, BreakerOK

\* The breaker moves outside a HALF_OPEN period, or leaves it with its probes.
LEMMA GetStatusKeeps ==
    ASSUME IInv, GetStatus
    PROVE  IInv'
<1>0. /\ TypeOK /\ BreakerOK(cb) /\ Accounts /\ cb \in Breakers
      /\ EvaluateTimer(cb) # cb /\ cb' = EvaluateTimer(cb) /\ UNCHANGED <<call, late>>
  BY DEF IInv, TypeOK, GetStatus
<1>1. /\ cb.status = "OPEN" /\ cb' \in Breakers
      /\ cb'.status = "HALF_OPEN" /\ cb'.inFlight = 0
  BY <1>0, TimerEffect
<1>2. BreakerOK(cb')
  BY <1>0, MethodsOK
<1>3. Executing' = Executing /\ Probes' = Probes
  BY <1>0 DEF Executing, Probes
<1>4. Probes = {}
  BY <1>0, <1>1 DEF Probes, Accounts
<1>5. Cardinality(Probes') = 0
  BY <1>3, <1>4, FS_EmptySet
<1>6. Accounts'
  BY <1>0, <1>1, <1>3, <1>5, SetsFinite DEF Accounts, TypeOK
<1> QED
  BY <1>0, <1>1, <1>2, <1>6 DEF IInv, TypeOK, BreakerOK

LEMMA ResetKeeps ==
    ASSUME IInv, Reset
    PROVE  IInv'
<1>0. /\ TypeOK /\ Accounts /\ cb' = ResetBreaker /\ late' = 0
      /\ call' = [d \in Callers |-> [call[d] EXCEPT !.probe = FALSE]]
  BY DEF IInv, Reset
<1>1. BreakerOK(cb') /\ cb' \in Breakers /\ cb'.status = "CLOSED"
  BY <1>0, EmptyBreakers DEF BreakerOK, ResetBreaker
<1>2. /\ call' \in [Callers -> CallStates]
      /\ \A d \in Callers : /\ call'[d].probe = FALSE
                            /\ call'[d].at = call[d].at
                            /\ call'[d].attempt = call[d].attempt
  BY <1>0 DEF TypeOK, CallStates
<1>3. Accounts'
  BY <1>0, <1>1, <1>2 DEF Accounts
<1> QED
  BY <1>0, <1>1, <1>2, <1>3 DEF IInv, TypeOK, BreakerOK

LEMMA ElapseKeeps ==
    ASSUME IInv, Elapse
    PROVE  IInv'
<1>0. /\ TypeOK /\ BreakerOK(cb) /\ Accounts /\ cb \in Breakers
      /\ cb.status = "OPEN" /\ cb' = [cb EXCEPT !.elapsed = TRUE]
      /\ UNCHANGED <<call, late>>
  BY DEF IInv, TypeOK, Elapse
<1>1. /\ cb' \in Breakers /\ cb'.status = "OPEN" /\ cb'.window = cb.window
  BY <1>0 DEF Breakers
<1>2. BreakerOK(cb')
  BY <1>0, <1>1 DEF BreakerOK
<1>3. Accounts'
  BY <1>0, <1>1 DEF Accounts
<1> QED
  BY <1>0, <1>1, <1>2, <1>3 DEF IInv, TypeOK, BreakerOK

-----------------------------------------------------------------------------
(* The theorems. *)

\* Whatever calls share a breaker, whenever their verdicts come (execute,
\* onSuccess, onFailure), the accounts of circuit-breaker.ts balance.
THEOREM PipelineInductive == Spec => []IInv
<1>1. Init => IInv
  <2> SUFFICES ASSUME Init PROVE IInv
    OBVIOUS
  <2>1. BreakerOK(cb) /\ cb.status = "CLOSED"
    BY EmptyBreakers DEF Init, ResetBreaker
  <2>2. Out \in CallStates /\ Out.at = "out" /\ Out.probe = FALSE
    BY PipelineAssumption DEF Out, CallStates, Attempts
  <2>3. TypeOK
    BY <2>1, <2>2 DEF Init, TypeOK, BreakerOK
  <2>4. Accounts
    BY <2>1, <2>2 DEF Init, Accounts
  <2> QED
    BY <2>1, <2>3, <2>4 DEF IInv
<1>2. IInv /\ [Next]_vars => IInv'
  <2> SUFFICES ASSUME IInv, [Next]_vars PROVE IInv'
    OBVIOUS
  <2>1. ASSUME NEW c \in Callers, Admit(c) PROVE IInv'
    BY <2>1, AdmitKeeps
  <2>2. ASSUME NEW c \in Callers, Reject(c) PROVE IInv'
    BY <2>2, RejectKeeps
  <2>3. ASSUME NEW c \in Callers, Succeed(c) PROVE IInv'
    BY <2>3, SucceedKeeps
  <2>4. ASSUME NEW c \in Callers, Backoff(c) PROVE IInv'
    BY <2>4, AttemptKeeps
  <2>5. ASSUME NEW c \in Callers, Retry(c) PROVE IInv'
    BY <2>5, AttemptKeeps
  <2>6. ASSUME NEW c \in Callers, Fail(c) PROVE IInv'
    BY <2>6, FailKeeps
  <2>7. ASSUME NEW c \in Callers, Invalid(c) PROVE IInv'
    BY <2>7, InvalidKeeps
  <2>8. CASE GetStatus
    BY <2>8, GetStatusKeeps
  <2>9. CASE Reset
    BY <2>9, ResetKeeps
  <2>10. CASE Elapse
    BY <2>10, ElapseKeeps
  <2>11. CASE UNCHANGED vars
    BY <2>11 DEF vars, IInv, TypeOK, BreakerOK, Accounts, Executing, Probes
  <2> QED
    BY <2>1, <2>2, <2>3, <2>4, <2>5, <2>6, <2>7, <2>8, <2>9, <2>10, <2>11
    DEF Next
<1> QED
  BY <1>1, <1>2, PTL DEF Spec

\* The breaker's state (status, window, halfOpenInFlight) and the executions
\* of withRetry keep their types; no attempt exceeds maxAttempts.
THEOREM PipelineTypeCorrect == Spec => []TypeOK
<1>1. IInv => TypeOK
  BY DEF IInv
<1> QED
  BY <1>1, PipelineInductive, PTL

\* execute refuses probes in HALF_OPEN only while executions are under way
\* that will give their verdict: the breaker cannot lock everyone out.
THEOREM NeverLockedOut == Spec => []NoLockout
<1>1. IInv => NoLockout
  BY DEF IInv, Accounts, NoLockout
<1> QED
  BY <1>1, PipelineInductive, PTL

\* Verdicts pushed by late calls in any status (pushOutcome) never leave
\* failureThreshold failures in the window of a breaker that did not trip.
THEOREM WindowStaysBelow == Spec => []WindowBelowThreshold
<1>1. IInv => WindowBelowThreshold
  BY DEF IInv, BreakerOK, WindowBelowThreshold
<1> QED
  BY <1>1, PipelineInductive, PTL

\* The probes running at a time exceed halfOpenMaxCalls by no more than the
\* verdicts of earlier calls that freed a slot they never held (execute's
\* check of halfOpenInFlight).
THEOREM ProbesStayBounded == Spec => []ProbesBounded
<1>1. IInv => ProbesBounded
  <2> SUFFICES ASSUME IInv PROVE ProbesBounded
    OBVIOUS
  <2>1. TypeOK /\ BreakerOK(cb) /\ Accounts /\ late \in Nat /\ cb.inFlight \in Nat
    BY DEF IInv, TypeOK, Breakers
  <2>2. CASE cb.status = "HALF_OPEN"
    BY <2>1, <2>2, SetsFinite, BreakerAssumption DEF Accounts, BreakerOK, ProbesBounded
  <2>3. CASE cb.status # "HALF_OPEN"
    <3>1. Probes = {}
      BY <2>1, <2>3 DEF Probes, Accounts
    <3>2. Cardinality(Probes) = 0
      BY <3>1, FS_EmptySet
    <3> QED
      BY <2>1, <3>2, BreakerAssumption DEF ProbesBounded
  <2> QED
    BY <2>2, <2>3
<1> QED
  BY <1>1, PipelineInductive, PTL
=============================================================================
