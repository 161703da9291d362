# DFSM: a TLA+ model of the durable transaction runtime

DFSM runs state machines whose instances ("transactions") are durable: every
step of a machine is recorded in a store, a failed step can be rolled back
through a stack of compensations, and a sweep recovers what a crashed process
left behind.  The repository has the same runtime in several languages; the
TypeScript SDK (`sdks/typescript/src`) is the reference and the one modelled
here.

This directory holds the TLA+ modules, the TLC configurations that check them
on small instances, and TLAPS proofs for every size.  `PROJECT.json` maps each
definition to the source lines it stands for.

## Inventory

| Part | State it keeps | Operations | Correct when |
| --- | --- | --- | --- |
| State store (`store/store.ts`, `sqlite-store.ts`) | the row (version, state, context, status, activeStep, updatedAt) and the compensation stack of each transaction | `createTransaction`, `updateTransaction` (compare-and-set on the version), `getUncompensatedStack`, `markCompensationExecuted`, `queryTransactions`, `deleteTransactions` | an update happens against the version it was computed from, entries are appended with it |
| PostgreSQL and MongoDB drivers (`postgres-store.ts`, `mongodb-store.ts`) | the same on a server; a connection pool | the same, in several round trips | they implement the atomic store |
| Transition engine (`runtime/actor.ts`) | per call: snapshot, version, working context, pending compensations | `startTransaction`, `transition`, `unwindCompensationStack` | each call settles at most once, no committed context is lost, COMPENSATED means everything is undone |
| Recovery sweep (`runtime/actor.ts`) | none of its own | `executeRecoverySweep` with STOP, DELETE, MARK_FAIL, COMPENSATE, CONTINUE and retention | stuck rows are settled, live and settled ones are left alone |
| Actor life and scheduler (`runtime/actor.ts`) | `initialized`, `stoppedByRecovery`, the interval timer, `sweepInProgress`, `nextRunAt` | `initialize`, `ensureReady`, `startScheduler`, `stopScheduler`, `updateSchedulerConfig`, `triggerSweepNow`, `close` | sweeps of the timer do not overlap, recovery makes progress, no timer is lost |
| Administrative cleanup (`actor.ts`, `registry.ts`) | none | `forceCleanUp`: DELETE, MARK_FAIL, FORCE_UNLOCK, COMPENSATE | safe beside running workers |
| Effects and hooks (`runtime/actor.ts`) | chain depth and revision per transaction | `invokeEffects`, `runEffect`, `emit*` | recursion is bounded, effects and callers see what nested calls committed |
| Statechart engine (`engine/statechart.ts`) | none (pure) | initial state, event resolution with bubbling and regions, targets, exit and entry sets, `onDone`, settled status | state values stay configurations, effects match them |
| Definition loader and policy merger (`definition/parser.ts`, `ir.ts`, `policy/merger.ts`) | none (immutable definitions) | parsing, validation, target resolution, merge of the policy layers | an accepted definition never fails on a target it gives itself |
| Editor model (`tools/vscode-dfsm`: `core/`, `graphBuilder.ts`) | none | a second parser, resolver, merger and validator; the graph | agrees with the SDK |
| Circuit breaker (`policy/circuit-breaker.ts`) | status, openedAt, outcome window, probes in flight, successes | `execute`, `getStatus`, `reset`, `updatePolicy` | opens at the threshold, never stays shut, limits probes |
| Retry and decorator pipeline (`policy/retry.ts`, `pipeline.ts`) | attempt counter | retry inside breaker inside fallback | one verdict per admitted call |
| Registry (`runtime/registry.ts`) | handlers, machines, bound actors | registration, `createActor`, `forceCleanUp`, `shutdown` | every actor it built can be reached until it is closed |
| Builder, decorators, validation, logger, errors; HTML and layout of the editor | none | construction and presentation | no concurrent state |
| Go, Java, C#, Rust and Python SDKs | as above | ports of the above | same behaviour |

Parts interact through the store (shared rows, no locks beyond the version),
through awaited calls (the pipeline calls the user's function, the actor calls
handlers, hooks and effects, which may call the actor again) and through timers
(the scheduler).  Every `await` is a point where any other call, in the same
event loop or in another process, may run.

What is hard here: a sweep that judges a row stuck by elapsed time only and so
races a slow worker; writes that compare no version (the mark of an entry,
every delete); several updates in a row with crash points between them; the
same breaker fed with verdicts of calls admitted in an earlier period; replay
of a step whose first execution is still running; counters of one transaction
shared by all its concurrent calls; timers that outlive what started them; and
a tree of parallel and compound states in which one event moves several
regions.  `hazards` in `PROJECT.json` lists these at their lines with the
properties aimed at each.

## Modules

| Module | Models | Notes |
| --- | --- | --- |
| `TransactionStore` | the row and the stack of one transaction and the store's operations on them | no processes; each operation is an operator that actions of other modules conjoin |
| `SagaActor` (extends `TransactionStore`) | transition engine, sweep and `forceCleanUp`, as processes that interleave at every await | the core |
| `TransactionLifecycle` | abstract specification: the status graph and what each change may do to state, context and owed compensations | `SagaActor` implements it (`ImplementsLifecycle`) |
| `RegistryCleanUp` (extends `SagaActor`) | the registry's COMPENSATE when no actor is bound | |
| `StoreDrivers` (instance of `TransactionStore`) | the operations of the PostgreSQL and MongoDB drivers by their round trips | implements `TransactionStore` (`ImplementsTransactionStore`), on which `SagaActor` rests |
| `ActorLifecycle` | initialization, scheduler, sweeps over several rows, close and shutdown of several actors | |
| `EffectChain` | hooks and effects after a commit, with the calls they make | |
| `MachineDefinition` | documents, their loading and validation, target resolution, policies | pure |
| `Statechart` (extends `MachineDefinition`) | the engine's functions | pure |
| `EditorModel` (extends `MachineDefinition`) | what the editor makes of a document | pure |
| `StatechartRun` (extends `Statechart` and `EditorModel`) | one transaction of a definition, a whole call per step | composes the three |
| `CircuitBreaker` | the breaker as a value with its methods as operators | |
| `ResiliencePipeline` (extends `CircuitBreaker`) | concurrent calls with retries sharing one breaker | |
| `MCSagaActor`, `MCStatechart`, `MCActorLifecycle`, `MCEffectChain`, `MCStoreDrivers` | small instances: symmetry, families of definitions, scenarios | |
| `SagaActorProofs` (extends `SagaActor`), `LifecycleProofs` (extends `SagaActorProofs`), `StoreDriversProofs`, `ActorLifecycleProofs`, `EffectChainProofs`, `PipelineProofs` (extends `ResiliencePipeline`), `StatechartProofs` (extends `StatechartRun`), `ConfigurationProofs` (extends `StatechartProofs`) | inductive invariants, lemmas and theorems | see Proofs |

### How the core corresponds to the code

A process is one asynchronous call chain: a worker (a caller of `transition`),
a sweeper (one `executeRecoverySweep`), an administrator (one `forceCleanUp`).
`pc[p]` is the await it stands at and `loc[p]` its local variables.

| Action | Code (`runtime/actor.ts`) |
| --- | --- |
| `StartTransaction`, `Transition` | `startTransaction`; `transition` up to the `beforeTransition` hooks |
| `AcquireLease`, `JoinLease` | the update to IN_FLIGHT, and its omission when the snapshot already is |
| `BranchSucceeds`, `BranchFails` | one round of the loop over matched edges, with the pipeline's outcome |
| `PersistPending`, `BeginCompensation`, `SettleFailure` | the three updates of the failure branch |
| `Commit` | the onDone cascade and the final update |
| `ReadStack`, `RunCompensator`, `MarkExecuted`, `CompensatorThrows` | `unwindCompensationStack` |
| `SweepTake`, `RetentionTake`, `CleanUpTake` | taking an item from a query's result |
| `Delete`, `MarkFail`, `ForceUnlock`, `ContinueReread`, `ContinueUnlock` | the recovery modes and cleanup actions |
| `StaleVersion` | an update rejected with `StaleTransactionVersionError` |
| `Crash`, `TimePasses` | the environment |

Data is abstracted: an event with its input is a number (a *call*); the context
is the set of calls whose effect it shows; the state value is one of a few
names, some of which accept events; `updatedAt` is the boolean "older than
stuckThresholdMs".  `NoRow` (version 0) stands for a missing row.  An exception
of a hook or of `applyTargetTransition` ends the call where it stands, with
nothing written, and so does an update whose answer is lost after it was
applied: that is what `Crash` does.  Effects run after the commit and
touch the transaction only by calling `transition`, that is, as another worker.
`outcomes` is a history variable.  Definitions commented "Faulty variant" are
not used by any specification; they are what the mutation check of
`PROJECT.json` puts in place of the definition that follows them.

A sweep takes one item at a time; different items are different transactions,
and the model has one.  STOP leaves the row alone and is the behaviour in which
the sweep takes nothing.

### The statechart modules

A definition is a function from paths to nodes; a path is the sequence of keys
from the root.  The code computes with dotted strings and nested objects; the
model with paths and, for a `StateValue`, with the set of its *words* (the key
sequences from the root of the object to its strings).  So `enterSubtree`'s
recursion is one set comprehension over paths (`EnterSubtree`), the deepest-first
search for an event is "handled here and nowhere below" (`ResolveTransitionsForEvent`),
and `applyTargetTransition` with its two helpers is `NextStateValue`: the words
of the target, joined with the words beside it at every level that is kept.
`Preserved` says which parallel states keep their other regions; it carries the
code's exception for replacements that are strings.

| Definition | Code |
| --- | --- |
| `ParseYamlMachine`, `Accepted` | `definition/parser.ts`, `finalizeAndValidateMachineIR` |
| `NormalizeTransitionPolicy`, `EffectivePolicy` | `policy/merger.ts`, `compileEdge` |
| `EnterSubtree` ... `ResolveSettledTransactionStatus` | the functions of `engine/statechart.ts` of the same names |
| `Start`, `Succeed`, `Fail` | `startTransaction`; `executeTransitionOnSnapshot` with every branch succeeding, or with the k-th failing |
| `ReturnsUnresolved` | the same, thrown out of by `applyTargetTransition` at a target that a handler returned |
| `CascadeOnDone` | the onDone loop before the commit |
| `ParseDfsmYaml` ... `UnreachableStates`, `GraphEdges` | `tools/vscode-dfsm/src`: `core/parser.ts`, `resolver.ts`, `policy.ts`, `validator.ts`, `visualizer/graphBuilder.ts` |

What the code computes by recursion or in a loop is a recursive function on
numbers or a closed form: `LeafOf` (the walk down to a leaf), `ExitUpward` (the
walk up from it), `EnteredWith` (what entering a state enters), `Traverse` (the editor's
breadth-first search, one state of its queue per round) and `OnDoneRound` (one round of the onDone
cascade, at most `OnDoneRounds` of them).  `DefinitionsAssumption` says what a
document is once the YAML reader and the JSON schema have passed it
(`IsDocument`): a finite tree of named states in an order, each with a type, an
initial key and edges.  `Accepted` is left to the loader.

`Scoped` names the machines for which configurations and effects are right.
Besides edges that enter a region from outside, it excludes a childless region
of a parallel state that is itself a region: `getActiveLeafPaths` descends two
levels there, and TLC finds `LegalConfiguration` violated without the condition.
`NoDeepTargets`, for `UnreachableNeverActive`, also looks at the onFail targets
of edges that cannot fail, which the editor follows and the engine does not, and
asks that handlers return only targets that the edges of their state declare.

The handler of an edge is reduced to whether it exists, whether it has a
compensation, and what it may return as `output.targetState` (`returns`).  A
returned target takes the place of the edge's own (`SuccessTargets`), for any of
the edges an event matches and independently of each other (`Outputs`).  Nothing
validates it and the editor does not know it, so it may fail to resolve, and then
the call throws and writes nothing (`ReturnsUnresolved`); what it may and may not
upset is said in `Scoped`, `NoDeepTargets`, `DefinitionTargetsResolve` and
`StepsAreDrawn`.  Any of the matched edges may fail (`Fail`), if it has a handler
or if it has a breaker (`CanFail`): breakers are shared under a key, and one that
others have opened refuses an edge that only changes the state.

A reference is the keys of its text, whether it starts at the root, and its
*spelling*: the two resolvers treat alike a text with keys and dots only.  The
editor trims blanks around it (`resolver.ts:27`), which the SDK looks up as part
of a key; the SDK skips gaps between dots (`filter(Boolean)`, `ir.ts:93`), which
for the editor make the reference unresolvable.  Keys of states are what a dotted
path can hold: not empty, without dots and without blanks around them.  They keep
the document's order (numeric keys, which JavaScript moves to the front, are
excluded).

### The actor's life

In `ActorLifecycle` a *task* is one asynchronous call in an actor: an
`initialize`, a callback of the timer or a `triggerSweepNow`.  `Initialize`,
`StoreOpened`, `Query`, `HandleItem` and `FinishSweep` are its stretches between
two awaits; `AfterSweep` is what the caller of the sweep does when it ends
(`initialize` starts the scheduler, the timer's `finally` clears
`sweepInProgress`).  The store is reduced to status, version and age of each
row: `age` lists them by `updatedAt`, which is the order of the sweep's query
(`Older`); a write moves the row to its end (`Touched`).  The store may reject
wherever a task awaits it: when it is opened, in the query (`QueryFails`), before
a write took place or after it (`Ended`); in the last case the row is changed and
the report lists an error.  A batch is the set of
rows in flight with fewer than `batchSize` older ones (`Oldest`).
`Shutdown`, `ShutdownClose` and `ShutdownClear` are the loop of
`FSMRegistry.shutdown`, which awaits each close.  The history variable `loose`
holds the actors whose place in the registry was taken by another, or whose
timer was set while the registry did not know them; `UnregisteredHasNoTimer`
says these are the only ways for a timer to escape `shutdown`.

### Effects

In `EffectChain` a caller is a stack of frames: calls (`startTransaction`,
`transition`) and effects, the last one running.  An effect or a hook that calls
the actor pushes a call; a call that commits pushes its effects one after the
other.  An error unwinds the stack frame by frame, and the user's code that awaits
it, an effect or a hook, may catch it (`MayCatch`); an effect may also catch the
error by which the depth guard refuses its `runEffect` (`RefusalCaught`).  Hooks
call the actor before the commit (`BeforeHookCalls`, in `beforeTransition`) or
after it (`HookCalls`).  The two maps are plain counters, because the entries of other transactions are
independent.  Calls made from hooks, and calls of two callers at once, set
`foreign`; the three exactness properties are stated without them because the
code does not promise them then (see the divergences below).

### The drivers

In `StoreDrivers` an operation is a program counter per client.  PostgreSQL:
`Connect` (a pool connection and BEGIN), `UpdateRow` (waits for the row lock,
looks at the version), `SelectMax`, `Commit` or `Rollback`, and `ReadRow`,
`ReadStack` for the two queries of a read.  (A statement outside a transaction
also borrows a connection, but waits at most for the lock of an update, which has
its connection already; it is not counted.)  MongoDB: `FindNextSeq` and
`UpdateOne`.  `Crash` loses the connection or the process: the server rolls back
and frees the lock.  `ReplyLost` loses the answer to a COMMIT, or to MongoDB's
write, that the server has carried out: the update is applied and its caller is
told that it failed (the ROLLBACK the driver then sends finds nothing to undo).

## Runs

`tlc -workers 2 -config <cfg> <module>` in this directory.

| Run | cfg / module | Checks | Size |
| --- | --- | --- | --- |
| `saga_recovery` | `SagaRecovery.cfg` / `MCSagaActor` | type, safety, `NoLostUpdate`, refinement of `TransactionLifecycle` | 1.4 M states, 50 s |
| `saga_cleanup` | `SagaCleanUp.cfg` / `MCSagaActor` | `RecoverableStep` and the refinement, with an administrator | 1.4 M states, 45 s |
| `saga_liveness` | `SagaLiveness.cfg` / `SagaActor` | `EventuallySettled` | 0.3 M states, 45 s |
| `pipeline` | `Pipeline.cfg` / `ResiliencePipeline` | breaker invariants, `OpenIsTemporary` | 3 750 states |
| `statechart` | `Statechart.cfg` / `MCStatechart` | configurations, effects, onDone, available events, validation, editor against SDK | 25 000 states of 12 000 definitions, 80 s |
| `scheduler` | `Scheduler.cfg` / `MCActorLifecycle` | timers, overlapping sweeps, reports, registry, `RecoveryProgress` | 0.3 M states, 120 s |
| `effects` | `Effects.cfg` / `MCEffectChain` | depth counter and revision map | 0.64 M states, 45 s |
| `stores` | `Stores.cfg` / `MCStoreDrivers` | sequence numbers, snapshots, refinement of `TransactionStore`, `OperationsReturn` | 0.17 M states, 60 s |
| `continue_revives`, `registry_compensate`, `parallel_regions`, `effect_depth` | | one property each, stated by a document and violated by the code | short |

**Bounds of the saga runs.** Two workers, one sweeper, one administrator, two
calls of up to two branches, one crash, one throwing compensator, one item per
sweeper.  With these, every pair of processes meets at every pair of awaits: two
workers under one lease, a worker and the sweep that took its row, an unwind and
a second unwind, each with a crash or an exception at any point.  Two calls are
enough for one to be lost by the other; two branches are enough for a failure
after a success.  `saga_cleanup` uses one branch per call, since the
administrator never looks at branches.  In the liveness run eight items may be
taken by the sweeps, which is more than the crash, the exception and the lost
races of two calls can use up: with fewer, TLC reports the exhausted bound as a
counterexample.

**Bounds of the other runs.**
`statechart`: trees of at most three levels, with two or three regions in a
parallel state, two in a parallel root, a parallel state as a region of another (here four levels), a compound
state, a childless region, a chain of two containers
with onDone, declared and implicit error states.  Each family varies what its
questions are about (types and initial keys; edges and targets; the layers of
the failure policy; completion; targets returned by the handlers of one edge or
of two regions at once; spellings of references wherever a definition has one)
over all combinations.  In the family with three regions each of the three
matched edges may fail, the last one by its breaker alone.  Transactions are not
bounded: the run explores every sequence of two events and failures.
`scheduler`: two actors, which share an id or not, two rows (one always in a
STOP state), a batch of two, two `initialize` calls at once, two timer
callbacks, which suffices to overlap.  A scenario has either two administrative
calls or work, with up to two rejections of the store, because their product is
too large; rows go stale up
to version 2, which lets a sweep take one row twice.
`effects`: one caller with five calls and two effects per transition, or two
callers with three calls; the limit is two, so that the guard fires.
`stores`: three clients and a pool of two, so that a connection, a lock and a
version are contended at once; six operations, one crash or lost reply, two creations of the
id on PostgreSQL, two entries per update on MongoDB.

Deadlock is checked only in `pipeline`: everywhere else the system may really
stop, because calls, sweeps, crashes and operations are bounded and a
transaction may reach a state without events.

**Fairness.**  `SagaActor`: a call under way goes on (the event loop runs every
settled promise, and handlers are assumed to return or throw), time passes, and
a sweeper keeps taking stuck rows (`setInterval` in `startScheduler`).  Workers
owe nothing: nobody has to call `transition`, and a crash is never forced.
`ResiliencePipeline`: time passes, calls keep arriving, and a function that runs
returns or throws.  `ActorLifecycle`: the steps of a task go on, a timer that is
set fires, and `stuckThresholdMs` elapses for a row that stays in flight.
`StoreDrivers`: the server answers, and grants a free lock or connection.
`StatechartRun` and `EffectChain` state safety only.

**What the violations show.**
`continue_revives`: CONTINUE re-reads the version but not the status, so a row
that settled meanwhile returns to IDLE.
`registry_compensate`: with no bound actor, COMPENSATED is written and nothing
is compensated.  `CompensatedMeansUnwound` holds, and is proved, for everything
the actor does; only the registry's shortcut breaks it.
`parallel_regions`: a transition from one region to a sibling region without
children collapses `{ p: { r: "x", s: "s" } }` to `{ p: "s" }`, and region `r`
is never entered again.  `Scoped` in `StatechartRun` names the definitions for
which `LegalConfiguration` does hold.
`effect_depth`: `effectChainDepthByTx` counts the effects of all callers of a
transaction together, so a chain of one effect can be refused at a limit of two.
The counter is also read before an await and written after it, so that it can
end above or below the truth.

## Where code and documents part

Besides the findings in `PROJECT.json`, modelling showed these differences; the
models follow the code.

- `transition` accepts events on a COMPENSATING row, and its commit pushes an
  entry above those being unwound (`actor.ts:655`), against the strict LIFO of
  `spec/SPECIFICATION.md:97`.
- A compensator's exception leaves the row COMPENSATING (`actor.ts:1031`); the
  specification says FAILED (line 104).
- A sweep's DELETE is by id only and removes a row that settled after it was
  listed (`actor.ts:1216`).
- A verdict of a call admitted before the breaker opened frees a probe it never
  took (`circuit-breaker.ts:84`); `ProbesBounded` counts these.
- Exit effects: "strict bottom-up order" (`statechart.ts:129`, specification
  line 53).  The code goes leaf by leaf, so a parallel state with leaves `x` and
  `y` in regions `r` and `s` exits as x, r, p, y, s: p before y.
- `onDone` is evaluated after a successful step only: not for the initial state
  and not after a fallback.
- A failing branch clears `pendingEffects`, and with it the effects of the
  branches before it whose transitions stay in the state value.
- The cascade ignores the outcome of a failing `$onDone` handler, whose context
  and effects are then missing, and stops after 20 rounds.
- A decorator's `onFail.target` and the registry's default are not validated: an
  unresolvable one throws in the failure branch and leaves the row IN_FLIGHT, or
  COMPENSATING with nothing left to compensate if it asked for compensation.
- What a handler returns as `targetState` (`actor.ts:713`) is not validated
  either: an unresolvable one throws after the handlers have run and leaves the
  row IN_FLIGHT; a resolvable one need not be an edge of the editor's graph and
  may lead into a state the editor flags as unreachable.
- The editor trims a target (`resolver.ts:27`), the SDK does not: of a document
  the editor finds right, one with blanks around a target is refused by
  `finalizeAndValidateMachineIR`.  The other way round, only the SDK accepts a
  target with superfluous dots.
- A nested final leaf of the machine's active container yields COMPLETED even
  when the container is not a terminal state (specification line 101); a parallel
  machine that falls back to the implicit `error` gets it as an additional key
  and so is never FAILED; one with childless regions is never COMPLETED.
- With calls made from a hook, or by concurrent callers, the revision map may be
  cleared in between and the outer call returns a state older than the nested
  one's.  Effects that throw leave their entry in the map.
- The editor marks ancestors of a deep target as reached without entering them,
  and then flags their initial child as unreachable; its last pass over the error
  state ignores onFail targets.  Only the SDK rejects children under an explicit
  `type: atomic`; only the editor rejects `onDone` on a final state, and
  `initial: error` with the implicit error state.
- `queryTransactions` orders ascending by `updatedAt`, a doc comment says
  descending.
- `initialize` sets `initialized` before the startup sweep: if that rejects, the
  scheduler is never started.  With as many STOP rows as the batch, nothing else
  is recovered.
- A closed SQLite store opens again at its next use, so a sweep that outlives
  `shutdown` goes on.

## Proofs

`tlapm <module>` for each of the eight proof modules, in this directory.  They
build on one another the way the parts do: the drivers implement the atomic
store (`DriversImplementStore`), on which the engine keeps its invariants and
implements the status machine (`LifecycleImplemented`); the sweeps that
`SagaActor` starts at will are those `ActorLifecycle` schedules, and the calls
it abstracts from effects are those of `EffectChain`.  Each invariant was
checked by TLC as an invariant of the component's run before it was proved.

### The core

The theorems hold for every set of processes,
machine and bound that satisfies `StoreAssumption` and `ActorAssumption`: the
initial and the error state are states, the process sets are disjoint, and
bounds are natural numbers.

None of the invariants is inductive alone.  `IInv` adds what each process knows:

- `LocalsAt`: the shape of the local variables at each label (a process with a
  version has read a row; finished and remaining branches do not exceed the
  matches; the call is known while a step runs).
- `VersionAt`: no process holds a version the row has not reached (or there is
  no row).
- `FenceAt`: **while the process's version is the row's**, the row has the
  status the process put there, everything owed is on the process's list, and
  the row's context is contained in the process's.
- `RowOK` and `NothingBeforeStart`: facts about the row alone.

An update increments the version, so `FenceAt` becomes vacuous for all other
processes and has to be shown only for the one that made it (`UpdateFrame`).
The only unversioned write that leaves the row in place, the mark of an entry,
can only shrink what is owed (`MarkedStack`), which every conjunct tolerates.
A delete sets version 0, which no process holds.  With these frames each
action is one lemma.

| Theorem | States |
| --- | --- |
| `Inductive` | `Spec => []IInv` |
| `TypeCorrect` | `Spec => []TypeOK` |
| `CompensationComplete` | `Spec => []CompensatedMeansUnwound` |
| `AlwaysRecoverable` | `Spec => []RecoverableStep` |
| `WorkAlwaysVisible` | `Spec => []WorkIsVisible` |
| `NoUpdateLost` | `Spec => NoLostUpdate` |

### One outcome, and the lifecycle

`AtMostOneOutcome` counts settling updates per call, and the refinement needs to
know that the transition a process is about to commit is one the abstract
machine allows.  Neither follows from `IInv`, which says what a process *knows*
but not why it may *go on*.  `LInv` adds, again only while the version is
current (`GroundedAt`): the state an event was matched in still accepts it, the
mark a failure branch is about to settle is still there, and the call in hand
has not been settled; and of the row alone (`RowBacked`): its active step is a
call that has not been settled.  So a replay, or a second worker under one
lease, finds either its version stale or its call unsettled.

The refinement maps the row, the stack and the owed compensations to
`TransactionLifecycle`.  Each action is shown to be one abstract step or none;
leases, marks and the locals of processes stutter.

| Theorem (`LifecycleProofs`) | States |
| --- | --- |
| `Grounded` | `Spec => []LInv` |
| `SettledOnce` | `Spec => []AtMostOneOutcome` |
| `LifecycleImplemented` | `Spec => ImplementsLifecycle` |

### The drivers

For any clients, pool size and scenarios (`DriverAssumption`).  `IInv` has the
facts on which a driver relies between two round trips:

- `LockOK`: who is past its `UPDATE` holds the row lock, and the row still has
  the version it compared; `PoolOK`: the connections held are at most the pool.
- `ReadOK`: after `ReadRow` the stack can only grow, so what `ReadStack` adds is
  never behind the row, unless the id was deleted in between.
- `NumberOK` and `CounterOK`: the next number, read under a version, is still
  the next when that version is replaced.
- `LivesOK` and `VersionOK`: in one life of the id versions grow, and nobody
  knows a version beyond the row's.

`UpdatesExclusive` follows from `LivesOK`: an acknowledged update leaves its
version behind.  For the refinement, `T!CreateTransaction`, `T!UpdateTransaction`
and so on happen at the commit, or at the single write of MongoDB; every other
round trip, a crash included, stutters.

`NumberingDense` states `StepSeqDense` for PostgreSQL, or while the id has been
created at most once.  The condition is needed, and it was the attempted proof
that showed it: MongoDB reads `nextCompStepSeq` and writes under the version it
read (`mongodb-store.ts:166`), but versions of a deleted and re-created document
begin at 1 again, so a client can find in the first life and write in the
second, with a number that is not the next.  PostgreSQL reads its maximum under
the row lock and cannot.  The same condition does not appear in
`DriversImplementStore`, since the atomic store leaves the numbers open.

| Theorem (`StoreDriversProofs`) | States |
| --- | --- |
| `DriversInductive` | `Spec => []IInv` |
| `DriversTypeCorrect` | `Spec => []TypeOK` |
| `SnapshotsComplete` | `Spec => []SnapshotNotBehind` |
| `NumberingDense` | `Spec => [](Postgres \/ creations <= 1 => StepSeqDense)` |
| `UpdatesExclusive` | `Spec => OneWinner` |
| `DriversImplementStore` | `Spec => ImplementsTransactionStore` |

### The scheduler and the sweeps

For any actors, tasks, rows and batch size.  `LifecycleAssumption` says that the
three kinds of tasks are disjoint and that the scenarios are well-formed.
Whether the timer's sweeps overlap is a matter of one flag: `SchedulersOK` says
that `sweepInProgress` is set exactly while one task of the timer is not idle,
through every start, stop and patch in between (`StartScheduled`,
`StopScheduled`, `PatchScheduled`, `SweepScheduled`).

`RecoveryCountedOnce` is about many actors that sweep the same rows.  `TasksOK`
says of each item a sweep still holds: the row's version has moved on, or the
row is in flight (`Current`).  `CountsOK`: a transaction in flight was reported
fewer times than it was put in flight.  A report needs a last write under the
version that the sweep holds, which takes the row out of flight and makes the
items of all other sweeps stale (`Grows`).  `RowsOK` keeps the rows' order by
`updated_at` injective, from which the size of a batch follows by counting
(`Removed` and the lemmas after it): without induction over sequences, the oldest row not yet counted is taken
with the library's well-founded minimum.

| Theorem (`ActorLifecycleProofs`) | States |
| --- | --- |
| `SchedulerInductive` | `Spec => []IInv` |
| `SchedulerTypeCorrect` | `Spec => []TypeOK` |
| `StatusHonest` | `Spec => []NextRunIffTimer` |
| `SweepsExclusive` | `Spec => []TimerSweepsExclusive` |
| `RecoveredOnce` | `Spec => []RecoveryCountedOnce` |
| `TimersAccounted` | `Spec => []UnregisteredHasNoTimer` |

### Hooks and effects

For any callers, calls, effects and `maxEffectChainDepth`.  The question is
whether two shared counters, without an owner, tell a call the truth about what
happened while it waited.  They do while `foreign` is false, and the reason is
`Alone`: at most one chain is past its first commit (`Deep`), the depth is the
number of that chain's running effects, and every waiting frame is `Settled`:

    a frame that began its effects at revision base:
        base <= revision,  and  ver = row  or  base < revision

so a frame whose revision did not change has the row's version, and one whose
revision did change reads the row again.  The hard step is `CompareRevision`,
which deletes the revision at depth 0: by `SomeRunning` depth 0 means that the
call is the first of its chain, so no waiting frame loses its comparison.
`ChainsOK` has the shape of a chain (who may run above whom), and by `NumbersOK`
the revision never exceeds the row's version.

Steps are classified by what they do to the caller's chain (`ReplacedStep`,
`PushedStep`, `PoppedStep`, `BegunStep`, `ThrownStep`); each action then only has
to show its own frame.  `AloneStep` carries `Alone` through any of them.

| Theorem (`EffectChainProofs`) | States |
| --- | --- |
| `EffectsInductive` | `Spec => []IInv` |
| `EffectsTypeCorrect` | `Spec => []TypeOK` |
| `DepthCounts` | `Spec => []DepthExact` |
| `NestedCommitsSeen` | `Spec => []OuterSeesNested` |
| `EffectsUpToDate` | `Spec => EffectSeesLatest` |

### The breaker

The theorems hold for every finite set of callers, number of attempts and policy
with `BreakerAssumption` (the schema's minimum of 1).  What has to be shown is
that `halfOpenInFlight`, which late verdicts lower, stays useful.  `Accounts`
says how far it can be off, while the breaker is HALF_OPEN:

    probes - late verdicts <= halfOpenInFlight <= executions under way

and outside a HALF_OPEN period there are no probes.  An admission raises all
three, a verdict lowers the counter by at most one and either ends a probe or
counts as late, a failure ends the period (`LeavingKeeps`), and a rejection
changes nothing, because a breaker whose timer has just fired has a free probe
(`RejectKeeps`).  `BreakerOK` holds of the breaker alone and is kept by each of
its methods (`MethodsOK`); for the window the argument is an injection: a
success shifts failures out of the window and none in (`SuccessAddsNoFailure`).

| Theorem | States |
| --- | --- |
| `PipelineInductive` | `Spec => []IInv` |
| `PipelineTypeCorrect` | `Spec => []TypeOK` |
| `NeverLockedOut` | `Spec => []NoLockout` |
| `WindowStaysBelow` | `Spec => []WindowBelowThreshold` |
| `ProbesStayBounded` | `Spec => []ProbesBounded` |

### The statechart

The theorems hold for every set of documents, of any depth and number of
regions, that satisfies `DefinitionsAssumption`, and for every sequence of events,
failures of any of the matched edges and targets returned by handlers.  They are about what `transition` does to a state value: two
modules, one for where a value may lie and one for its shape.

`StatechartProofs`.  A state value is a set of words, and its states must be
states of the definition, and not those the editor calls unreachable.  Both
follow from one invariant, `IInv`: the value lies within **every set of states
that is closed** under entering a state (its ancestors, its initial child or its
regions), under the targets of the edges of its members, those that handlers
return among them, and under their fail targets (`InClosedSets`).  All the states of a machine form such a set, which
gives `TypeOKHolds`; so do those the editor's breadth-first search reaches, when
no target is deep, which gives `UnreachableNeverActiveHolds`.  That the search
ends in such a set needs its termination: a state is queued at most once, so
that the queue is empty after as many rounds as there are states.  Induction over
rounds, depths and positions is the well-founded minimum of the library
(`LeastElement`, `Induction`).  `EditorErrorsCompleteHolds` compares the two
validations issue by issue and reference by reference, through the two resolvers:
what it excepts are children of a state declared `atomic` and blanks around a
target, and both exceptions are needed.  `DefinitionTargetsResolveHolds` follows
a target from the loader's check to the engine's lookup: a call that throws has
been given its target by a handler, a decorator or a global default.
`StepsAreDrawnHolds` excepts returned targets, onDone rounds included in what is
drawn; `UnreachableNeverActiveHolds` admits them if `NoDeepTargets` does.

`ConfigurationProofs`.  `CInv` adds `Configured`: the value is the set of words
of a configuration `C` of the tree.  A transition from an active `s` to `t` turns
`C` into `After(m, C, s, t)`: what is below the lowest common ancestor is left,
the path to `t` and what entering `t` enters come in, every other region stays.
The argument has three parts.

- One transition: `NextStateValue` of the words of `C` is the words of
  `After(m, C, s, t)`, which is a configuration again.  This is where `Scoped` is
  needed, since elsewhere `applyTargetTransition` drops or doubles a region.
- Several edges of one event: each matched edge was found in the state before
  the step but is taken after those before it.  Its source is then still active,
  because the others lie in regions apart from its own (`ActiveApart`) and a
  transition leaves such regions alone (`StaysActive`).
- Effects: the exits `CollectBottomUpExitEffects` lists are exactly the states
  that are left, each once, and the entries exactly those that come in;
  `Replays` composes over the edges of the broadcast and over the rounds of the
  cascade.

| Theorem | States |
| --- | --- |
| `TypeOKHolds` | `Spec => []TypeOK` |
| `EditorErrorsCompleteHolds` | `Spec => []EditorErrorsComplete` |
| `DefinitionTargetsResolveHolds` | `Spec => []DefinitionTargetsResolve` |
| `StepsAreDrawnHolds` | `Spec => StepsAreDrawn` |
| `UnreachableNeverActiveHolds` | `Spec => []UnreachableNeverActive` |
| `LegalConfigurationHolds` (`ConfigurationProofs`) | `Spec => []LegalConfiguration` |
| `AvailableEventsExactHolds` (`ConfigurationProofs`) | `Spec => []AvailableEventsExact` |
| `EffectsReplayHolds` (`ConfigurationProofs`) | `Spec => EffectsReplay` |

### What is only model-checked

- `OnDoneFires`: it holds for the definitions of the run and not for all.  A
  chain of more than 20 completions ends before its last, and so does a loop of
  onDone edges through two containers.
- The liveness properties `EventuallySettled`, `OpenIsTemporary`,
  `RecoveryProgress` and `OperationsReturn`: they rest on fairness and ENABLED.
- `StepSeqDense` of a MongoDB document that was created twice, which is false
  (see `NumberingDense`).
- The runs that expect a violation: TLC's counterexample is the result.

Every other property of a passing run is a theorem.

## Not modelled

- The ports to Go, Java, C#, Rust and Python.  Go's differs from the TypeScript
  SDK where it pushes saga steps outside the versioned update (see the hazards)
  and deserves a module of its own.
- `updatePolicy` of a breaker whose key several transitions share, and the
  pass-through of a disabled breaker.
- The queries of the PostgreSQL and MongoDB drivers, which write nothing, and
  their `initialize` and `close`.
- Registration and resolution of handlers and machines in the registry, which is
  synchronous code over maps, and its reports over all actors.
- STOP in `SagaActor` (it leaves the row alone) and CONTINUE in `ActorLifecycle`
  (it is a call, which `SagaActor` has).
- Reuse of a deleted transaction id by the actor; `StoreDrivers` re-creates an id
  for PostgreSQL.
- The builder, decorators, validation adapters, logging, and the editor's HTML,
  layout and language features: no state that steps could reach in a wrong order.
- The syntax of documents and the check against the JSON schema, which libraries
  do; `IsDocument` says what they let through.

## Plan

1. Done: `TransactionStore`, `SagaActor`, `TransactionLifecycle`,
   `RegistryCleanUp`, `CircuitBreaker`, `ResiliencePipeline`, and the proofs
   above.
2. Done: `MachineDefinition`, `Statechart`, `EditorModel`, `StatechartRun`;
   `ActorLifecycle`; `EffectChain`; `StoreDrivers`.
3. Done: the proofs of the core, its refinement of `TransactionLifecycle`, the
   drivers with their refinement of `TransactionStore`, the scheduler, effects,
   the breaker, and the statechart with the editor.
4. Open, proofs: how much of `OuterSeesNested` survives calls from hooks;
   `OnDoneFires` for machines whose onDone edges form no chain longer than the
   20 rounds.
5. Open, models: `GoActor`, the Go port against `TransactionLifecycle`; reuse of
   ids under zombie workers; the breaker with `updatePolicy`.
