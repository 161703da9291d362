----------------------------- MODULE SagaActor ------------------------------
(***************************************************************************)
(* The transition engine, the recovery sweep and the administrative        *)
(* cleanup of DfsmActor (TypeScript SDK, runtime/actor.ts), running        *)
(* concurrently on one transaction.                                        *)
(*                                                                         *)
(* A process is one asynchronous call chain: a caller of transition, a     *)
(* sweep, or a forceCleanUp.  Processes may live in different actors, in   *)
(* different operating-system processes, or in the same event loop; they   *)
(* interleave at every await, so every store operation and every handler   *)
(* is an action of its own.                                                *)
(***************************************************************************)
EXTENDS TransactionStore

CONSTANTS
    Workers,          \* processes that call transition
    Sweepers,         \* processes that run executeRecoverySweep
    Admins,           \* processes that call forceCleanUp
    Accepting,        \* states from which some event matches an edge
    RecoveryActions,  \* the modes recoveryConfig gives to stuck states
    Retention,        \* is schedulerConfig.retentionMs configured?
    MaxBranches,      \* bound: edges one event matches (parallel regions)
    MaxSweeps,        \* bound: items taken by sweeps
    MaxCleanUps,      \* bound: items taken by forceCleanUp
    MaxCrashes,       \* bound: crashes of a process
    MaxThrows         \* bound: exceptions of compensate handlers

Procs == Workers \cup Sweepers \cup Admins

ASSUME ActorAssumption ==
    /\ Accepting \subseteq States
    /\ RecoveryActions \subseteq
           {"STOP", "DELETE", "MARK_FAIL", "COMPENSATE", "CONTINUE"}
    /\ Retention \in BOOLEAN
    /\ MaxBranches \in Nat \ {0}
    /\ MaxSweeps \in Nat /\ MaxCleanUps \in Nat
    /\ MaxCrashes \in Nat /\ MaxThrows \in Nat
    /\ Sweepers \cap Admins = {} /\ Workers \cap Admins = {}
    /\ Workers \cap Sweepers = {}

VARIABLES
    pc,        \* where each process stands
    loc,       \* its local variables
    started,   \* startTransaction has been called for this id
    calls,     \* transition calls made so far
    sweeps,    \* items taken by sweeps so far
    cleanups,  \* items taken by forceCleanUp so far
    crashes,   \* crashes so far
    throws,    \* exceptions of compensate handlers so far
    outcomes   \* per call, how many settling commits it has made

budget == <<started, calls, sweeps, cleanups, crashes, throws>>
vars == <<row, stack, pc, loc, started, calls, sweeps, cleanups, crashes,
          throws, outcomes>>

Labels == {"idle",
    \* executeTransitionOnSnapshot
    "before", "run", "commit", "persist", "compensating", "fallback",
    \* unwindCompensationStack
    "readStack", "unwind", "mark",
    \* executeRecoverySweep and forceCleanUp
    "delete", "markFail", "forceUnlock", "reread", "unlock"}

Locals == [
    job  : {"none", "transition", "cleanup"},
    ver  : Nat,                     \* currentVersion, item.version, ver
    call : Calls \cup {NoStep},     \* the event and input being executed
    busy : BOOLEAN,                 \* the snapshot's status is IN_FLIGHT
    ctx  : SUBSET Calls,            \* workingContext
    left : 0..MaxBranches,          \* matches still to execute
    pend : 0..MaxBranches,          \* pendingCompensations.length
    todo : SUBSET Nat,              \* entries of the stack still to unwind
    comp : BOOLEAN]                 \* compensation was requested

NoLocals == [job |-> "none", ver |-> 0, call |-> NoStep, busy |-> FALSE,
             ctx |-> {}, left |-> 0, pend |-> 0, todo |-> {}, comp |-> FALSE]

Init ==
    /\ StoreInit
    /\ pc = [p \in Procs |-> "idle"]
    /\ loc = [p \in Procs |-> NoLocals]
    /\ started = FALSE
    /\ calls = 0 /\ sweeps = 0 /\ cleanups = 0 /\ crashes = 0 /\ throws = 0
    /\ outcomes = [c \in Calls |-> 0]

-----------------------------------------------------------------------------
(* Control of a process. *)

Goto(p, label, l) ==
    /\ pc' = [pc EXCEPT ![p] = label]
    /\ loc' = [loc EXCEPT ![p] = l]

Return(p) == Goto(p, "idle", NoLocals)

\* store.updateTransaction(id, currentVersion, patch, entries); on success
\* the process continues at label with the version the update returned.
Update(p, newRow, appended, label, l) ==
    /\ UpdateTransaction(loc[p].ver, newRow, appended)
    /\ Goto(p, label, [l EXCEPT !.ver = row.version + 1])

\* The same, as the last store operation of the call.
UpdateAndReturn(p, newRow, appended) ==
    /\ UpdateTransaction(loc[p].ver, newRow, appended)
    /\ Return(p)

\* The labels at which the next thing a process does is a versioned update.
Updating(p) ==
    \/ pc[p] \in {"commit", "persist", "compensating", "fallback",
                  "markFail", "forceUnlock", "unlock"}
    \/ pc[p] = "before" /\ ~loc[p].busy

\* The update throws StaleTransactionVersionError: the transaction was
\* updated or deleted since this process read it.  The call rejects (a sweep
\* or a cleanup records the error and goes on to its next item).
StaleVersion(p) ==
    /\ Updating(p)
    /\ ~VersionMatches(loc[p].ver)
    /\ Return(p)
    /\ UNCHANGED <<row, stack, budget, outcomes>>

-----------------------------------------------------------------------------
(* startTransaction and transition. *)

\* startTransaction creates the row; ids are random UUIDs, so an id is
\* started once.
StartTransaction(p) ==
    /\ p \in Workers /\ pc[p] = "idle"
    /\ ~started
    /\ started' = TRUE
    /\ CreateTransaction
    /\ UNCHANGED <<pc, loc, calls, sweeps, cleanups, crashes, throws,
                   outcomes>>

\* Faulty variant: a COMPENSATING snapshot is taken for a leased one.
OnSnapshotBusy(r, c, n) ==
    [job |-> "transition", ver |-> r.version, call |-> c,
     busy |-> r.status \in Unsettled, ctx |-> r.ctx, left |-> n,
     pend |-> 0, todo |-> {}, comp |-> FALSE]

\* What executeTransitionOnSnapshot keeps of the snapshot it is given (the
\* row r) for call c, whose event matches n edges of the snapshot's state.
OnSnapshot(r, c, n) ==
    [job |-> "transition", ver |-> r.version, call |-> c,
     busy |-> r.status = "IN_FLIGHT", ctx |-> r.ctx, left |-> n,
     pend |-> 0, todo |-> {}, comp |-> FALSE]

\* The numbers of edges an event may match in state s.
Matches(s) == IF s \in Accepting THEN 1..MaxBranches ELSE {0}

\* transition: getTransaction, then resolveTransitionsForEvent and
\* validateInput.  Its early exits (no row, no match, invalid input) change
\* nothing and are the behaviours in which the call is not made.
Transition(p) ==
    /\ p \in Workers /\ pc[p] = "idle"
    /\ calls < MaxCalls
    /\ Exists
    /\ calls' = calls + 1
    /\ \E n \in Matches(row.state) \ {0} :
           Goto(p, "before", OnSnapshot(row, calls + 1, n))
    /\ UNCHANGED <<row, stack, started, sweeps, cleanups, crashes, throws,
                   outcomes>>

\* After the beforeTransition hooks: mark the row IN_FLIGHT with the active
\* step.
AcquireLease(p) ==
    /\ pc[p] = "before"
    /\ ~loc[p].busy
    /\ Update(p, [row EXCEPT !.status = "IN_FLIGHT", !.step = loc[p].call],
              <<>>, "run", loc[p])
    /\ UNCHANGED <<budget, outcomes>>

\* A snapshot that is already IN_FLIGHT is not leased again: the handler runs
\* under the version, and beside the active step, of whoever leased it.
JoinLease(p) ==
    /\ pc[p] = "before"
    /\ loc[p].busy
    /\ Goto(p, "run", [loc[p] EXCEPT !.busy = FALSE])
    /\ UNCHANGED <<row, stack, budget, outcomes>>

\* Faulty variant: the loop does not advance to the next match.
BranchSucceedsAgain(p) ==
    /\ pc[p] = "run"
    /\ \E k \in {0, 1} :
           Goto(p, IF loc[p].left = 1 THEN "commit" ELSE "run",
                [loc[p] EXCEPT !.ctx = loc[p].ctx \cup {loc[p].call},
                               !.pend = loc[p].pend + k])
    /\ UNCHANGED <<row, stack, budget, outcomes>>

\* The pipeline of the next matched edge succeeds.  Its context shows the
\* call; an edge with a compensate handler adds a pending entry.
BranchSucceeds(p) ==
    /\ pc[p] = "run"
    /\ \E k \in {0, 1} :
           Goto(p, IF loc[p].left = 1 THEN "commit" ELSE "run",
                [loc[p] EXCEPT !.left = loc[p].left - 1,
                               !.ctx = loc[p].ctx \cup {loc[p].call},
                               !.pend = loc[p].pend + k])
    /\ UNCHANGED <<row, stack, budget, outcomes>>

AfterPersist(l) == IF l.comp THEN "compensating" ELSE "fallback"

\* The pipeline fails for good (retries exhausted, breaker open, invalid
\* context); onFail.compensate says whether to unwind.
BranchFails(p) ==
    /\ pc[p] = "run"
    /\ \E compensate \in BOOLEAN :
           LET l == [loc[p] EXCEPT !.comp = compensate]
           IN  Goto(p, IF l.pend > 0 THEN "persist" ELSE AfterPersist(l), l)
    /\ UNCHANGED <<row, stack, budget, outcomes>>

\* Failure branch: first make the entries of the finished branches durable.
PersistPending(p) ==
    /\ pc[p] = "persist"
    /\ Update(p, row, NewEntries(loc[p].call, loc[p].pend),
              AfterPersist(loc[p]), [loc[p] EXCEPT !.pend = 0])
    /\ UNCHANGED <<budget, outcomes>>

\* Status COMPENSATING; activeStep is left as it is.
BeginCompensation(p) ==
    /\ pc[p] = "compensating"
    /\ Update(p, [row EXCEPT !.status = "COMPENSATING"], <<>>,
              "readStack", loc[p])
    /\ UNCHANGED <<budget, outcomes>>

\* Faulty variant: the settling update does not clear activeStep.
SettleWithStep(p, state, status) ==
    [row EXCEPT !.state = state, !.status = status, !.ctx = loc[p].ctx]

Settle(p, state, status) ==
    [row EXCEPT !.state = state, !.status = status, !.step = NoStep,
                !.ctx = loc[p].ctx]

CountOutcome(p) ==
    outcomes' = IF loc[p].job = "transition"
                THEN [outcomes EXCEPT ![loc[p].call] = @ + 1] ELSE outcomes

\* The update that ends a failed step (or a cleanup that compensates).
SettleFailure(p) ==
    /\ pc[p] = "fallback"
    /\ \E s \in IF loc[p].job = "transition" THEN States ELSE {ErrorState} :
           UpdateAndReturn(p,
               Settle(p, s, IF loc[p].comp THEN "COMPENSATED"
                            ELSE SettledStatus(s)), <<>>)
    /\ CountOutcome(p)
    /\ UNCHANGED budget

\* The update that ends a successful step, after the onDone cascade: target
\* state, context, settled status and compensation entries in one write.
Commit(p) ==
    /\ pc[p] = "commit"
    /\ \E s \in States :
           UpdateAndReturn(p, Settle(p, s, SettledStatus(s)),
                           NewEntries(loc[p].call, loc[p].pend))
    /\ CountOutcome(p)
    /\ UNCHANGED budget

-----------------------------------------------------------------------------
(* unwindCompensationStack: the stack is read once, then each entry's       *)
(* handler runs and the entry is marked, in descending stepSeq.             *)

\* Faulty variant: the unwind ends after one entry.
AfterOneMark(todo) == "fallback"

AfterMark(todo) == IF todo = {} THEN "fallback" ELSE "unwind"

ReadStack(p) ==
    /\ pc[p] = "readStack"
    /\ Goto(p, AfterMark(UncompensatedStack),
            [loc[p] EXCEPT !.todo = UncompensatedStack])
    /\ UNCHANGED <<row, stack, budget, outcomes>>

\* The entry the loop is at: the largest stepSeq not yet handled.
IsNext(p, i) == i \in loc[p].todo /\ \A j \in loc[p].todo : j <= i

\* The compensate handler runs; the context it returns replaces the working
\* one, which may stop showing any of the calls.
RunCompensator(p) ==
    /\ pc[p] = "unwind"
    /\ \E i \in loc[p].todo, undone \in SUBSET loc[p].ctx :
           /\ IsNext(p, i)
           /\ Goto(p, "mark", [loc[p] EXCEPT !.ctx = loc[p].ctx \ undone])
    /\ UNCHANGED <<row, stack, budget, outcomes>>

MarkExecuted(p) ==
    /\ pc[p] = "mark"
    /\ \E i \in loc[p].todo :
           /\ IsNext(p, i)
           /\ MarkCompensationExecuted(i)
           /\ Goto(p, AfterMark(loc[p].todo \ {i}),
                   [loc[p] EXCEPT !.todo = loc[p].todo \ {i}])
    /\ UNCHANGED <<budget, outcomes>>

-----------------------------------------------------------------------------
(* executeRecoverySweep and forceCleanUp, one item at a time.               *)

\* An item as queryTransactions returned it.
Item == [NoLocals EXCEPT !.job = "cleanup", !.ver = row.version,
                         !.ctx = row.ctx]

CompensateItem == [Item EXCEPT !.comp = TRUE]

\* Faulty variant: the sweep queries IN_FLIGHT rows only.
SweepTakeInFlight(p) ==
    /\ p \in Sweepers /\ pc[p] = "idle"
    /\ sweeps < MaxSweeps
    /\ Exists
    /\ row.status = "IN_FLIGHT"
    /\ row.stale
    /\ sweeps' = sweeps + 1
    /\ \/ "MARK_FAIL" \in RecoveryActions /\ Goto(p, "markFail", Item)
       \/ "CONTINUE" \in RecoveryActions /\ Goto(p, "reread", Item)
    /\ UNCHANGED <<row, stack, started, calls, cleanups, crashes, throws,
                   outcomes>>

\* The sweep finds the row stuck and resolves the mode of its state; STOP
\* leaves the row alone.
SweepTake(p) ==
    /\ p \in Sweepers /\ pc[p] = "idle"
    /\ sweeps < MaxSweeps
    /\ Exists
    /\ row.status \in Unsettled
    /\ row.stale
    /\ sweeps' = sweeps + 1
    /\ \/ "DELETE" \in RecoveryActions /\ Goto(p, "delete", NoLocals)
       \/ "MARK_FAIL" \in RecoveryActions /\ Goto(p, "markFail", Item)
       \/ "COMPENSATE" \in RecoveryActions
             /\ Goto(p, "compensating", CompensateItem)
       \/ "CONTINUE" \in RecoveryActions /\ Goto(p, "reread", Item)
    /\ UNCHANGED <<row, stack, started, calls, cleanups, crashes, throws,
                   outcomes>>

\* Retention: a terminal row older than the cutoff is listed for deletion.
RetentionTake(p) ==
    /\ p \in Sweepers /\ pc[p] = "idle"
    /\ Retention
    /\ sweeps < MaxSweeps
    /\ Exists
    /\ row.status \in Terminal
    /\ sweeps' = sweeps + 1
    /\ Goto(p, "delete", NoLocals)
    /\ UNCHANGED <<row, stack, started, calls, cleanups, crashes, throws,
                   outcomes>>

\* forceCleanUp selects the row, whatever its status (includeInFlight).
CleanUpTake(p) ==
    /\ p \in Admins /\ pc[p] = "idle"
    /\ cleanups < MaxCleanUps
    /\ Exists
    /\ cleanups' = cleanups + 1
    /\ \/ Goto(p, "delete", NoLocals)
       \/ Goto(p, "markFail", Item)
       \/ Goto(p, "forceUnlock", Item)
       \/ Goto(p, "compensating", CompensateItem)
    /\ UNCHANGED <<row, stack, started, calls, sweeps, crashes, throws,
                   outcomes>>

Delete(p) ==
    /\ pc[p] = "delete"
    /\ DeleteTransactions
    /\ Return(p)
    /\ UNCHANGED <<budget, outcomes>>

\* Faulty variant: MARK_FAIL leaves the state value where it was.
MarkFailInPlace(p) ==
    /\ pc[p] = "markFail"
    /\ UpdateAndReturn(p, [row EXCEPT !.status = "FAILED",
                                      !.step = NoStep], <<>>)
    /\ UNCHANGED <<budget, outcomes>>

MarkFail(p) ==
    /\ pc[p] = "markFail"
    /\ UpdateAndReturn(p, [row EXCEPT !.state = ErrorState,
                               !.status = "FAILED", !.step = NoStep], <<>>)
    /\ UNCHANGED <<budget, outcomes>>

\* Faulty variant: FORCE_UNLOCK does not clear activeStep.
ForceUnlockWithStep(p) ==
    /\ pc[p] = "forceUnlock"
    /\ UpdateAndReturn(p, [row EXCEPT !.status = "IDLE"], <<>>)
    /\ UNCHANGED <<budget, outcomes>>

ForceUnlock(p) ==
    /\ pc[p] = "forceUnlock"
    /\ UpdateAndReturn(p, [row EXCEPT !.status = "IDLE", !.step = NoStep],
                       <<>>)
    /\ UNCHANGED <<budget, outcomes>>

\* CONTINUE reads the full snapshot again; the row may be gone or settled.
ContinueReread(p) ==
    /\ pc[p] = "reread"
    /\ \/ /\ Exists
          /\ \E n \in Matches(row.state) :
                 Goto(p, "unlock", [Item EXCEPT !.call = row.step, !.left = n])
       \/ ~Exists /\ Return(p)
    /\ UNCHANGED <<row, stack, budget, outcomes>>

\* CONTINUE restores IDLE, and replays the active step on the snapshot if
\* there is one (nothing matches from a state that accepts no event).
ContinueUnlock(p) ==
    /\ pc[p] = "unlock"
    /\ LET l == loc[p]
           idle == [row EXCEPT !.status = "IDLE", !.step = NoStep]
       IN  IF l.call # NoStep /\ l.left > 0
           THEN Update(p, idle, <<>>, "before",
                       [l EXCEPT !.job = "transition"])
           ELSE UpdateAndReturn(p, idle, <<>>)
    /\ UNCHANGED <<budget, outcomes>>

-----------------------------------------------------------------------------
(* Faults. *)

\* The process crashes: nothing the call holds in memory survives.
Crash(p) ==
    /\ pc[p] # "idle"
    /\ crashes < MaxCrashes
    /\ crashes' = crashes + 1
    /\ Return(p)
    /\ UNCHANGED <<row, stack, started, calls, sweeps, cleanups, throws,
                   outcomes>>

\* A compensate handler throws: the exception leaves the unwind, the pipeline
\* and the call (a sweep or a cleanup records it), and the row stays
\* COMPENSATING.
CompensatorThrows(p) ==
    /\ pc[p] = "unwind"
    /\ throws < MaxThrows
    /\ throws' = throws + 1
    /\ Return(p)
    /\ UNCHANGED <<row, stack, started, calls, sweeps, cleanups, crashes,
                   outcomes>>

TimePasses == Elapse /\ UNCHANGED <<pc, loc, budget, outcomes>>

\* A step of a call that is under way.
Step(p) ==
    \/ StaleVersion(p)
    \/ AcquireLease(p) \/ JoinLease(p)
    \/ BranchSucceeds(p) \/ BranchFails(p) \/ Commit(p)
    \/ PersistPending(p) \/ BeginCompensation(p) \/ SettleFailure(p)
    \/ ReadStack(p) \/ RunCompensator(p) \/ MarkExecuted(p)
    \/ Delete(p) \/ MarkFail(p) \/ ForceUnlock(p)
    \/ ContinueReread(p) \/ ContinueUnlock(p)

Next ==
    \/ \E p \in Procs :
           \/ StartTransaction(p) \/ Transition(p)
           \/ SweepTake(p) \/ RetentionTake(p) \/ CleanUpTake(p)
           \/ Step(p) \/ Crash(p) \/ CompensatorThrows(p)
    \/ TimePasses

Spec == Init /\ [][Next]_vars

\* Calls that are under way go on, time passes, and each sweeper's scheduler
\* keeps taking stuck rows.
Fairness ==
    /\ \A p \in Procs : WF_vars(Step(p))
    /\ \A p \in Sweepers : WF_vars(SweepTake(p))
    /\ WF_vars(TimePasses)

FairSpec == Spec /\ Fairness

-----------------------------------------------------------------------------
(* Properties. *)

TypeOK ==
    /\ row \in Rows
    /\ stack \in Seq(Entries)
    /\ pc \in [Procs -> Labels]
    /\ loc \in [Procs -> Locals]
    /\ started \in BOOLEAN
    /\ calls \in 0..MaxCalls
    /\ sweeps \in 0..MaxSweeps
    /\ cleanups \in 0..MaxCleanUps
    /\ crashes \in 0..MaxCrashes
    /\ throws \in 0..MaxThrows
    /\ outcomes \in [Calls -> Nat]

\* A transaction reported COMPENSATED has had every entry of its stack
\* compensated, however many workers, sweeps and cleanups ran and crashed on
\* the way (the unwind reads the stack once, updates nothing else of it and
\* ends in an update that only the version it began with allows).
CompensatedMeansUnwound ==
    row.status = "COMPENSATED" => UncompensatedStack = {}

\* A crash never leaves a row the sweep cannot continue: an IN_FLIGHT row
\* names the step to replay, and a settled row names none, so no finished
\* step is replayed.
RecoverableStep ==
    /\ row.status = "IN_FLIGHT" => row.step # NoStep
    /\ row.status \notin Unsettled => row.step = NoStep

\* Although the handlers of a call may run many times (concurrent workers,
\* CONTINUE replays), the outcome of a call is committed at most once.
AtMostOneOutcome == \A c \in Calls : outcomes[c] <= 1

\* A process that executes a step under the row's version does so under a
\* durable IN_FLIGHT mark, and one that unwinds under it does so under a
\* durable COMPENSATING mark: if it crashes there, the sweep sees the row.
WorkIsVisible ==
    \A p \in Procs : VersionMatches(loc[p].ver) =>
        /\ pc[p] \in {"run", "commit", "persist"} => row.status = "IN_FLIGHT"
        /\ pc[p] \in {"readStack", "unwind", "mark"} =>
               row.status = "COMPENSATING"

\* No update of the row drops a call from the context, except the end of a
\* compensation: the context a process writes was derived from the one it
\* replaces, though it was read several awaits earlier.
NoLostUpdate ==
    [][ \/ row.ctx \subseteq row'.ctx
        \/ row'.status = "COMPENSATED"
        \/ row'.version = 0 ]_vars

\* The processes, with their versions and retries, implement the atomic
\* lifecycle of TransactionLifecycle: a step settles only out of IN_FLIGHT,
\* a compensation ends only with nothing owed, entries are pushed only by
\* steps, and a step begins only in a state that accepts the event.
Lifecycle == INSTANCE TransactionLifecycle WITH
    live <- Exists, state <- row.state, status <- row.status,
    ctx <- row.ctx, pushed <- Len(stack), owed <- UncompensatedStack

ImplementsLifecycle == Lifecycle!Spec

\* A row that is IN_FLIGHT or COMPENSATING does not stay so: once no more
\* calls, crashes and exceptions come, the live worker or a sweep settles or deletes it.
EventuallySettled ==
    (Exists /\ row.status \in Unsettled) ~>
        ~(Exists /\ row.status \in Unsettled)

-----------------------------------------------------------------------------
(* What the repository's documents say and the code does not do; a run      *)
(* violates it.                                                             *)

\* "Terminal outcome durable" (sdks/typescript/README.md:334): without an
\* administrator, a terminal transaction in a state that accepts no event
\* keeps its status until it is deleted.
TerminalOutcomeDurable ==
    [][ (Exists /\ row.status \in Terminal /\ row.state \notin Accepting)
            => row'.status = row.status \/ row'.version = 0 ]_vars
=============================================================================
