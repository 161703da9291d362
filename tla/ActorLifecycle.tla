--------------------------- MODULE ActorLifecycle ---------------------------
(***************************************************************************)
(* The life of the actors of one FSMRegistry (runtime/registry.ts,         *)
(* runtime/actor.ts): building, initializing, the background scheduler,    *)
(* closing and shutdown, with the recovery sweeps that run meanwhile over  *)
(* the rows of one machine in a shared store.                              *)
(*                                                                         *)
(* A task is one asynchronous call that is under way in an actor; each     *)
(* step of a task ends at an await.  Sweeps take the recovery actions      *)
(* STOP, MARK_FAIL, DELETE and COMPENSATE here; CONTINUE replays a call    *)
(* and is part of SagaActor, as are retention and the compensators.        *)
(***************************************************************************)
EXTENDS Integers, FiniteSets, Sequences, SequencesExt

CONSTANTS
    Actors,        \* the DfsmActor objects
    Ids,           \* actor ids, which the caller may choose
    Openers,       \* initialize() calls of an actor that may be under way
    TimerTasks,    \* callbacks of its interval timer
    Manual,        \* its triggerSweepNow() calls
    Transactions,  \* transaction ids
    SchedulerOn,   \* scheduler.enabled of the actors' configuration
    HaltOnStop,    \* recovery.haltActorOnStop
    BatchSize,     \* scheduler.batchSize
    Scenarios,     \* actor ids, recovery actions and bounds to start from
    MaxVersion     \* bound: a row goes stale up to this version

NoActor == "none"

ASSUME LifecycleAssumption ==
    /\ NoActor \notin Actors
    /\ TimerTasks # {} /\ Openers \cap TimerTasks = {}
    /\ Manual \cap (Openers \cup TimerTasks) = {}
    /\ BatchSize \in Nat \ {0} /\ MaxVersion \in Nat
    /\ \A sc \in Scenarios :
           /\ sc.idOf \in [Actors -> Ids]
           /\ sc.mode \in [Transactions -> {"STOP", "MARK_FAIL", "DELETE", "COMPENSATE"}]
           /\ sc.budget \in [opens : Nat, admin : Nat, faults : Nat, leases : Nat]
    /\ HaltOnStop \in BOOLEAN /\ SchedulerOn \in BOOLEAN

Tasks == Openers \cup TimerTasks \cup Manual

VARIABLES
    idOf,          \* actorId of each actor
    mode,          \* recovery action for the state of each transaction
    rows,          \* the machine's rows, version 0 when there is none
    age,           \* the ids of the rows by updated_at, oldest first
    actor,         \* the fields of each actor
    task,          \* its tasks
    registered,    \* activeActors of the registry
    closing,       \* what shutdown() still has to close, <<"idle">> outside it
    episodes,      \* history: how often each transaction was put in flight
    recovered,     \* history: how often a report lists it as recovered
    loose,         \* history: actors the registry lost, or could not find when
                   \* their scheduler was started
    budget         \* how many initialize() and administrative calls, rejecting
                   \* store operations and leases per transaction may follow

vars == <<idOf, mode, rows, age, actor, task, registered, closing, episodes, recovered,
          loose, budget>>
storeVars == <<rows, age, episodes, recovered>>
registryVars == <<idOf, mode, registered, closing, loose>>

Spend(what) == budget[what] > 0 /\ budget' = [budget EXCEPT ![what] = @ - 1]

InFlight(t) == rows[t].status \in {"IN_FLIGHT", "COMPENSATING"}
IdleTask(a, kinds) == CHOOSE k \in kinds : task[a][k].pc = "idle"
NoTask == [pc |-> "idle", items |-> <<>>, stops |-> FALSE, ver |-> 0]

Init ==
    /\ \E sc \in Scenarios :
           idOf = sc.idOf /\ mode = sc.mode /\ budget = sc.budget
    /\ rows = [t \in Transactions |-> [status |-> "IDLE", version |-> 0, stuck |-> FALSE]]
    /\ age = <<>>
    /\ actor = [a \in Actors |->
                   [built |-> FALSE, initialized |-> FALSE, stopped |-> FALSE,
                    enabled |-> SchedulerOn, timer |-> FALSE, nextRun |-> FALSE,
                    sweeping |-> FALSE]]
    /\ task = [a \in Actors |-> [k \in Tasks |-> NoTask]]
    /\ registered = [i \in Ids |-> NoActor]
    /\ closing = <<"idle">>
    /\ episodes = [t \in Transactions |-> 0]
    /\ recovered = [t \in Transactions |-> 0]
    /\ loose = {}

-----------------------------------------------------------------------------
(* The rows: work that starts, ends, or goes stale. *)

\* Faulty variant: the older place of t is kept as well.
AppendOnly(t) == Append(age, t)

\* A write of row t stamps updated_at: t becomes the youngest.
Without(t) ==
    IF t \in Range(age) THEN RemoveAt(age, CHOOSE i \in DOMAIN age : age[i] = t)
    ELSE age
Touched(t) == Append(Without(t), t)

Older(u, t) == \E i, j \in DOMAIN age : i < j /\ age[i] = u /\ age[j] = t

Write(t, status) ==
    /\ rows' = [rows EXCEPT ![t] = [status |-> status, version |-> @.version + 1,
                                    stuck |-> FALSE]]
    /\ age' = Touched(t)

\* A call takes the lease of a new or idle transaction.
Lease(t) ==
    /\ ~InFlight(t) /\ rows[t].status = "IDLE"
    /\ episodes[t] < budget.leases
    /\ Write(t, "IN_FLIGHT")
    /\ episodes' = [episodes EXCEPT ![t] = @ + 1]
    /\ UNCHANGED <<actor, task, registryVars, recovered, budget>>

\* The call that holds the lease commits; its version still is the row's.
CallEnds(t) ==
    /\ rows[t].status = "IN_FLIGHT"
    /\ \E s \in {"IDLE", "COMPLETED"} : Write(t, s)
    /\ UNCHANGED <<actor, task, registryVars, episodes, recovered, budget>>

\* stuckThresholdMs elapses, for the older rows first.
Elapse(t) ==
    /\ InFlight(t) /\ ~rows[t].stuck /\ rows[t].version <= MaxVersion
    /\ \A u \in Transactions : InFlight(u) /\ ~rows[u].stuck => ~Older(u, t)
    /\ rows' = [rows EXCEPT ![t].stuck = TRUE]
    /\ UNCHANGED <<age, actor, task, registryVars, episodes, recovered, budget>>

-----------------------------------------------------------------------------
(* The scheduler of actor record c. *)

StartScheduler(c) ==
    IF c.timer THEN c
    ELSE [c EXCEPT !.enabled = TRUE, !.timer = TRUE, !.nextRun = TRUE]

\* Faulty variant: nextRunAt is left behind.
StopTimerOnly(c) == [c EXCEPT !.timer = FALSE]

StopScheduler(c) == [c EXCEPT !.timer = FALSE, !.nextRun = FALSE]

UpdateSchedulerConfig(c, enabled) ==
    LET patched == [StopScheduler(c) EXCEPT !.enabled = enabled]
    IN  IF enabled THEN StartScheduler(patched) ELSE patched

\* What follows a sweep that ended or rejected, by the kind of its task:
\* initialize() starts the scheduler unless it rejects, the timer's callback
\* clears sweepInProgress in any case.
AfterSweep(c, k, rejected) ==
    CASE k \in Openers -> IF ~rejected /\ c.enabled THEN StartScheduler(c) ELSE c
      [] k \in TimerTasks -> [c EXCEPT !.sweeping = FALSE,
                                       !.nextRun = IF c.timer THEN TRUE ELSE @]
      [] OTHER -> c

\* The timer of an actor the registry does not know may have been set.
Started(a) ==
    loose' = loose \cup {b \in {a} : /\ actor'[a].timer /\ ~actor[a].timer
                                     /\ registered[idOf[a]] # a}

-----------------------------------------------------------------------------
(* executeRecoverySweep. *)

\* The oldest rows in flight, at most n of them.
Oldest(n) ==
    {t \in Transactions :
        /\ InFlight(t)
        /\ Cardinality({u \in Transactions : InFlight(u) /\ Older(u, t)}) < n}

\* Faulty variant: one row less than the batch size.
ShortBatch == Oldest(BatchSize - 1)

Batch == Oldest(BatchSize)

\* The stuck rows of the batch, oldest first, with the versions they have now;
\* the others are skipped.
Query(a, k) ==
    LET stuck == {t \in Batch : rows[t].stuck}
        Item(t) == [tx |-> t, version |-> rows[t].version]
    IN
    /\ task[a][k].pc = "query"
    /\ \E found \in [1..Cardinality(stuck) -> stuck] :
           /\ \A i, j \in DOMAIN found : i < j => Older(found[i], found[j])
           /\ task' = [task EXCEPT ![a][k].pc = "sweep",
                                   ![a][k].items = [i \in DOMAIN found |-> Item(found[i])]]
    /\ UNCHANGED <<storeVars, actor, registryVars, budget>>

\* The query rejects, and the sweep with it; or store.initialize() does, and
\* with it initialize(), with nothing set.
QueryFails(a, k) ==
    /\ task[a][k].pc \in {"opening", "query"}
    /\ Spend("faults")
    /\ task' = [task EXCEPT ![a][k] = NoTask]
    /\ actor' = [actor EXCEPT ![a] = AfterSweep(@, k, TRUE)]
    /\ UNCHANGED <<storeVars, registryVars>>

\* Faulty variant: the write does not check the version.
AnyVersion(t, version) == rows[t].version > 0

VersionMatches(t, version) == rows[t].version = version /\ version > 0

Dropped(a, k) == [task EXCEPT ![a][k].items = Tail(@), ![a][k].ver = 0]

Reported(t) == recovered' = [recovered EXCEPT ![t] = @ + 1]

\* What follows a write that ends an item: it is reported, unless the store
\* rejects although the write took place.
Ended(a, k, t) ==
    /\ task' = Dropped(a, k)
    /\ \/ Reported(t) /\ UNCHANGED budget
       \/ Spend("faults") /\ UNCHANGED recovered

\* One item.  An error, such as a version that moved on, is recorded and
\* does not end the sweep.
HandleItem(a, k) ==
    LET items == task[a][k].items
        item == Head(items)
        t == item.tx
        action == mode[t]
        held == IF task[a][k].ver = 0 THEN item.version ELSE task[a][k].ver
        failed == UNCHANGED storeVars /\ task' = Dropped(a, k)
    IN  /\ task[a][k].pc = "sweep" /\ items # <<>>
        /\ UNCHANGED <<actor, registryVars, episodes>>
        /\ \/ /\ action = "STOP"
              /\ task' = [Dropped(a, k) EXCEPT ![a][k].stops = TRUE]
              /\ UNCHANGED <<storeVars, budget>>
           \/ /\ action = "DELETE"
              /\ rows' = [rows EXCEPT ![t] = [status |-> "IDLE", version |-> 0,
                                              stuck |-> FALSE]]
              /\ age' = Without(t) /\ Ended(a, k, t)
           \/ /\ action = "MARK_FAIL" /\ VersionMatches(t, held)
              /\ Write(t, "FAILED") /\ Ended(a, k, t)
           \/ /\ action = "COMPENSATE" /\ VersionMatches(t, held)
              /\ task[a][k].ver = 0
              /\ Write(t, "COMPENSATING") /\ UNCHANGED recovered
              /\ \/ /\ task' = [task EXCEPT ![a][k].ver = held + 1]
                    /\ UNCHANGED budget
                 \/ Spend("faults") /\ task' = Dropped(a, k)
           \/ /\ action = "COMPENSATE" /\ VersionMatches(t, held)
              /\ task[a][k].ver # 0
              /\ Write(t, "COMPENSATED") /\ Ended(a, k, t)
           \/ /\ action \in {"MARK_FAIL", "COMPENSATE"}
              /\ ~VersionMatches(t, held)
              /\ failed /\ UNCHANGED budget
           \/ /\ action # "STOP"
              /\ Spend("faults")
              /\ failed

\* All items are done.  The actor is stopped for good, and the sweep rejects,
\* if it met a STOP row and haltActorOnStop is set.
FinishSweep(a, k) ==
    LET halt == task[a][k].stops /\ HaltOnStop IN
    /\ task[a][k].pc = "sweep" /\ task[a][k].items = <<>>
    /\ task' = [task EXCEPT ![a][k] = NoTask]
    /\ actor' = [actor EXCEPT ![a] =
                    AfterSweep([actor[a] EXCEPT !.stopped = @ \/ halt], k, halt)]
    /\ Started(a)
    /\ UNCHANGED <<idOf, mode, storeVars, registered, closing, budget>>

-----------------------------------------------------------------------------
(* The actor's calls. *)

\* buildActorSync: the newest actor of an id takes its place.
BuildActorSync(a) ==
    /\ ~actor[a].built
    /\ actor' = [actor EXCEPT ![a].built = TRUE]
    /\ registered' = [registered EXCEPT ![idOf[a]] = a]
    /\ loose' = loose \cup ({registered[idOf[a]]} \ {NoActor})
    /\ UNCHANGED <<idOf, mode, storeVars, task, closing, budget>>

\* initialize(), directly, by createActor or by the ensureReady of a first
\* call: nothing stops a second one before the first has set initialized.
Initialize(a) ==
    LET k == IdleTask(a, Openers) IN
    /\ \E j \in Openers : task[a][j].pc = "idle"
    /\ actor[a].built /\ ~actor[a].initialized
    /\ Spend("opens")
    /\ task' = [task EXCEPT ![a][k].pc = "opening"]
    /\ UNCHANGED <<storeVars, actor, registryVars>>

\* store.initialize() returns; initialized is set before the startup sweep.
StoreOpened(a, k) ==
    /\ task[a][k].pc = "opening"
    /\ actor' = [actor EXCEPT ![a].initialized = TRUE]
    /\ task' = [task EXCEPT ![a][k].pc = "query"]
    /\ UNCHANGED <<storeVars, registryVars, budget>>

\* Faulty variant: a callback does not look whether the last one has ended.
TickAnyway(a) ==
    LET k == IdleTask(a, TimerTasks) IN
    /\ actor[a].timer
    /\ \E j \in TimerTasks : task[a][j].pc = "idle"
    /\ actor' = [actor EXCEPT ![a].sweeping = TRUE]
    /\ task' = [task EXCEPT ![a][k].pc = "query"]
    /\ UNCHANGED <<storeVars, registryVars, budget>>

\* The interval elapses.
Tick(a) ==
    LET k == IdleTask(a, TimerTasks) IN
    /\ actor[a].timer /\ ~actor[a].sweeping
    /\ actor' = [actor EXCEPT ![a].sweeping = TRUE]
    /\ task' = [task EXCEPT ![a][k].pc = "query"]
    /\ UNCHANGED <<storeVars, registryVars, budget>>

\* startScheduler, stopScheduler and updateSchedulerConfig.
Configure(a) ==
    /\ actor[a].built /\ Spend("admin")
    /\ \E c \in {StartScheduler(actor[a]), StopScheduler(actor[a]),
                 UpdateSchedulerConfig(actor[a], TRUE),
                 UpdateSchedulerConfig(actor[a], FALSE)} :
           c # actor[a] /\ actor' = [actor EXCEPT ![a] = c]
    /\ Started(a)
    /\ UNCHANGED <<idOf, mode, storeVars, task, registered, closing>>

TriggerSweepNow(a, k) ==
    /\ k \in Manual /\ task[a][k].pc = "idle"
    /\ actor[a].built /\ Spend("admin")
    /\ task' = [task EXCEPT ![a][k].pc = "query"]
    /\ UNCHANGED <<storeVars, actor, registryVars>>

\* Faulty variant: the timer is left running.
UnregisterOnly(a) ==
    /\ actor' = actor
    /\ registered' = [registered EXCEPT ![idOf[a]] = NoActor]
    /\ loose' = (loose \ {a}) \cup ({registered[idOf[a]]} \ {a, NoActor})

\* close: stopScheduler, and the registry forgets the id, whoever has it.
CloseActor(a) ==
    /\ actor' = [actor EXCEPT ![a] = StopScheduler(@)]
    /\ registered' = [registered EXCEPT ![idOf[a]] = NoActor]
    /\ loose' = (loose \ {a}) \cup ({registered[idOf[a]]} \ {a, NoActor})

Close(a) ==
    /\ actor[a].built /\ Spend("admin")
    /\ CloseActor(a)
    /\ UNCHANGED <<idOf, mode, storeVars, task, closing>>

\* shutdown: the registered actors are closed one after the other, then the
\* map is cleared.  A closed SQLite store opens again at its next use.
Shutdown ==
    /\ closing = <<"idle">> /\ Spend("admin")
    /\ closing' = SetToSeq({registered[i] : i \in Ids} \ {NoActor})
    /\ UNCHANGED <<idOf, mode, storeVars, actor, task, registered, loose>>

ShutdownClose ==
    /\ closing \notin {<<"idle">>, <<>>}
    /\ CloseActor(Head(closing))
    /\ closing' = Tail(closing)
    /\ UNCHANGED <<idOf, mode, storeVars, task, budget>>

ShutdownClear ==
    /\ closing = <<>>
    /\ closing' = <<"idle">>
    /\ registered' = [i \in Ids |-> NoActor]
    /\ loose' = loose \cup ({registered[i] : i \in Ids} \ {NoActor})
    /\ UNCHANGED <<idOf, mode, storeVars, actor, task, budget>>

-----------------------------------------------------------------------------
TaskStep(a, k) ==
    Query(a, k) \/ QueryFails(a, k) \/ HandleItem(a, k) \/ FinishSweep(a, k)
        \/ StoreOpened(a, k)

Next ==
    \/ \E t \in Transactions : Lease(t) \/ CallEnds(t) \/ Elapse(t)
    \/ \E a \in Actors :
           \/ BuildActorSync(a) \/ Initialize(a) \/ Tick(a)
           \/ Configure(a) \/ Close(a)
           \/ \E k \in Tasks : TriggerSweepNow(a, k) \/ TaskStep(a, k)
    \/ Shutdown \/ ShutdownClose \/ ShutdownClear

\* Promises settle, an interval timer fires while it is set, and time passes.
Fairness ==
    /\ \A a \in Actors, k \in Tasks : WF_vars(TaskStep(a, k))
    /\ \A a \in Actors : WF_vars(Tick(a))
    /\ \A t \in Transactions : WF_vars(Elapse(t))

Spec == Init /\ [][Next]_vars /\ Fairness

-----------------------------------------------------------------------------
(* Properties. *)

TypeOK ==
    /\ \A t \in Transactions :
           /\ rows[t].version \in Nat /\ rows[t].stuck => InFlight(t)
           /\ rows[t].version > 0 <=> t \in Range(age)
    /\ Len(age) = Cardinality(Range(age))
    /\ \A a \in Actors, k \in Tasks : Len(task[a][k].items) <= BatchSize
    /\ registered \in [Ids -> Actors \cup {NoActor}]

\* getSchedulerStatus never shows a next run without a timer, or a running
\* timer without one, however stops, restarts and ending sweeps interleave.
NextRunIffTimer == \A a \in Actors : actor[a].nextRun <=> actor[a].timer

\* The scheduler's sweeps of an actor never overlap, also when it is stopped
\* and started again during one; sweepInProgress says exactly that one runs.
TimerSweepsExclusive ==
    \A a \in Actors :
        LET running == {k \in TimerTasks : task[a][k].pc # "idle"}
        IN  /\ Cardinality(running) <= 1
            /\ actor[a].sweeping <=> running # {}

\* However many sweeps meet a stuck transaction (two initialize() calls, the
\* timer, triggerSweepNow, another actor), it is reported as failed or
\* compensated at most once for each time it was put in flight.
RecoveryCountedOnce ==
    \A t \in Transactions :
        mode[t] \in {"MARK_FAIL", "COMPENSATE"} => recovered[t] <= episodes[t]

\* An actor the registry no longer knows runs no timer, so that shutdown()
\* reaches every timer, unless its id was taken away from it or its scheduler
\* was started after close(): explicitly or by an initialize() still running.
UnregisteredHasNoTimer ==
    \A a \in Actors :
        actor[a].timer /\ registered[idOf[a]] # a => a \in loose

\* A stuck transaction whose action is not STOP is recovered as long as some
\* scheduler runs, if fewer STOP rows than a batch are in the way: those are
\* never changed, stay the oldest and fill the batch otherwise.
RecoveryProgress ==
    Cardinality({t \in Transactions : mode[t] = "STOP"}) < BatchSize =>
        \A t \in Transactions : mode[t] # "STOP" =>
            ((InFlight(t) /\ rows[t].stuck) ~>
                (~InFlight(t) \/ ~rows[t].stuck \/ \A a \in Actors : ~actor[a].timer))

=============================================================================
