------------------------ MODULE TransactionLifecycle ------------------------
(***************************************************************************)
(* What a durable transaction promises, with no processes, no versions and *)
(* no messages to the store: its status graph, and what each change of     *)
(* status may do to the state, to the context and to the compensation      *)
(* entries that are still owed.  SagaActor implements this specification.  *)
(***************************************************************************)
EXTENDS Integers

CONSTANTS States, InitialState, FinalStates, ErrorState, Accepting, Calls

VARIABLES
    live,      \* the transaction is in the store
    state,     \* its state value
    status,    \* its status
    ctx,       \* the calls its context shows
    pushed,    \* compensation entries pushed so far
    owed       \* entries pushed and not compensated

vars == <<live, state, status, ctx, pushed, owed>>

SettledIn(s) == IF s = ErrorState THEN "FAILED"
                ELSE IF s \in FinalStates THEN "COMPLETED" ELSE "IDLE"

Init == /\ live = FALSE /\ state = InitialState /\ status = "IDLE"
        /\ ctx = {} /\ pushed = 0 /\ owed = {}

Create == /\ ~live /\ live' = TRUE
          /\ status' = SettledIn(InitialState)
          /\ UNCHANGED <<state, ctx, pushed, owed>>

\* Only a state that accepts an event begins a step.
Begin == /\ live /\ state \in Accepting
         /\ status' = "IN_FLIGHT"
         /\ UNCHANGED <<live, state, ctx, pushed, owed>>

\* Entries are pushed together with the outcome of the step, or ahead of it
\* when a later branch of the step failed; they are pushed only by a step.
Push == /\ pushed' \in Nat /\ pushed' >= pushed
        /\ owed' = owed \cup (pushed + 1)..pushed'

Record == /\ live /\ status = "IN_FLIGHT" /\ Push
          /\ UNCHANGED <<live, state, status, ctx>>

\* A step in flight settles in some state; the context loses nothing.
Finish == /\ live /\ status = "IN_FLIGHT" /\ Push
          /\ state' \in States /\ status' = SettledIn(state')
          /\ ctx' \in SUBSET Calls /\ ctx \subseteq ctx'
          /\ UNCHANGED live

BeginUndo == /\ live /\ status' = "COMPENSATING"
             /\ UNCHANGED <<live, state, ctx, pushed, owed>>

\* Entries are compensated one at a time.
Undo == /\ live
        /\ \E i \in owed : owed' = owed \ {i}
        /\ UNCHANGED <<live, state, status, ctx, pushed>>

\* A compensation ends only when nothing is owed any more.
EndUndo == /\ live /\ status = "COMPENSATING" /\ owed = {}
           /\ status' = "COMPENSATED" /\ state' \in States
           /\ ctx' \in SUBSET Calls
           /\ UNCHANGED <<live, pushed, owed>>

MarkFailed == /\ live /\ status' = "FAILED" /\ state' = ErrorState
              /\ UNCHANGED <<live, ctx, pushed, owed>>

Unlock == /\ live /\ status' = "IDLE"
          /\ UNCHANGED <<live, state, ctx, pushed, owed>>

Remove == /\ live' = FALSE /\ state' = InitialState /\ status' = "IDLE"
          /\ ctx' = {} /\ pushed' = 0 /\ owed' = {}

Next == \/ Create \/ Begin \/ Record \/ Finish \/ BeginUndo \/ Undo
        \/ EndUndo \/ MarkFailed \/ Unlock \/ Remove

Spec == Init /\ [][Next]_vars
=============================================================================
