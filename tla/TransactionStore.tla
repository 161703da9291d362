-------------------------- MODULE TransactionStore --------------------------
(***************************************************************************)
(* The durable record of ONE transaction, as the StateStore interface of   *)
(* the TypeScript SDK keeps it (store/store.ts, store/sqlite-store.ts):    *)
(* the row of dfsm_transactions and the rows of dfsm_compensation_stack    *)
(* that belong to it.  Every operation of the store is atomic (SQLite runs *)
(* it inside BEGIN IMMEDIATE ... COMMIT) and each is one operator here.    *)
(*                                                                         *)
(* Data is abstracted.  A "call" stands for one event with its input; the  *)
(* context is the set of calls whose effect it shows; updatedAt is the     *)
(* boolean stale: has stuckThresholdMs elapsed since the last update?      *)
(***************************************************************************)
EXTENDS Integers, Sequences

CONSTANTS
    States,        \* the machine's state values
    InitialState,  \* resolveInitialState(machine)
    FinalStates,   \* the values whose active leaves are all `type: final'
    ErrorState,    \* the top-level "error" state
    MaxCalls       \* bound: transition calls made on the transaction

ASSUME StoreAssumption ==
    /\ InitialState \in States
    /\ FinalStates \subseteq States
    /\ ErrorState \in States
    /\ MaxCalls \in Nat

VARIABLES
    row,           \* the row of dfsm_transactions
    stack          \* its compensation entries; the index is stepSeq

storeVars == <<row, stack>>

Unsettled == {"IN_FLIGHT", "COMPENSATING"}
Terminal == {"COMPLETED", "FAILED", "COMPENSATED"}
Statuses == {"IDLE"} \cup Unsettled \cup Terminal

Calls == 1..MaxCalls
NoStep == 0

Rows == [version : Nat, state : States, status : Statuses,
         step : Calls \cup {NoStep}, ctx : SUBSET Calls, stale : BOOLEAN]

Entries == [call : Calls, done : BOOLEAN]

\* No row has this transaction id: versions of stored rows start at 1.
NoRow == [version |-> 0, state |-> InitialState, status |-> "IDLE",
          step |-> NoStep, ctx |-> {}, stale |-> FALSE]

Exists == row.version > 0

StoreInit == row = NoRow /\ stack = <<>>

-----------------------------------------------------------------------------
(* The operations. *)

\* The status of a transaction that settles in state s: "error" is FAILED
\* even when it is overridden with recovery transitions.
SettledStatus(s) ==
    IF s = ErrorState THEN "FAILED"
    ELSE IF s \in FinalStates THEN "COMPLETED" ELSE "IDLE"

\* INSERT of version 1; a second INSERT of the id violates the primary key.
CreateTransaction ==
    /\ ~Exists
    /\ row' = [NoRow EXCEPT !.version = 1,
                            !.status = SettledStatus(InitialState)]
    /\ stack' = <<>>

\* Faulty variant: the UPDATE forgets `AND version = ?'.
AnyVersion(v) == Exists

\* WHERE transaction_id = ? AND version = ?: the row still has version v.
VersionMatches(v) == row.version = v

\* The entries a step's n finished branches append, at MAX(step_seq) + 1 on.
NewEntries(c, n) == [i \in 1..n |-> [call |-> c, done |-> FALSE]]

\* One compare-and-set on the version, writing the row and appending the
\* entries together.  If the version does not match nothing is written and
\* StaleTransactionVersionError is thrown.
UpdateTransaction(v, newRow, appended) ==
    /\ VersionMatches(v)
    /\ row' = [newRow EXCEPT !.version = row.version + 1, !.stale = FALSE]
    /\ stack' = stack \o appended

\* The stepSeq of the entries whose compensated_at is NULL.
UncompensatedStack == {i \in DOMAIN stack : ~stack[i].done}

\* UPDATE ... SET compensated_at WHERE transaction_id = ? AND step_seq = ?:
\* no version is compared, updated_at is not touched, and an entry that is
\* gone is no error.
MarkCompensationExecuted(i) ==
    /\ stack' = IF i \in DOMAIN stack
                THEN [stack EXCEPT ![i].done = TRUE] ELSE stack
    /\ UNCHANGED row

\* DELETE by id, cascading to the compensation stack: no version is compared.
DeleteTransactions ==
    /\ row' = NoRow
    /\ stack' = <<>>

\* stuckThresholdMs elapses with no update of an unsettled row.  Time passes
\* whether or not the process that last updated the row is still alive.
Elapse ==
    /\ Exists
    /\ row.status \in Unsettled
    /\ ~row.stale
    /\ row' = [row EXCEPT !.stale = TRUE]
    /\ UNCHANGED stack

=============================================================================
