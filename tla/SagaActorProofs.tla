-------------------------- MODULE SagaActorProofs ---------------------------
(***************************************************************************)
(* Proofs that SagaActor keeps its invariants for every set of processes,  *)
(* every machine and every bound.                                          *)
(*                                                                         *)
(* The argument is about versions.  Every update increments the row's      *)
(* version, so after an update no other process holds the current version: *)
(* what the invariant says of a process only binds the row while its       *)
(* version is current (FenceAt), and an update makes that vacuous for all  *)
(* the others.  The one write that compares no version, the mark of an     *)
(* entry, can only make less owed.                                         *)
(***************************************************************************)
EXTENDS SagaActor, TLAPS

\* What the local variables l of a process look like at a label.
LocalsAt(label, l) ==
    /\ label \in {"idle", "delete"} => l.ver = 0
    /\ label \notin {"idle", "delete"} => l.ver > 0
    /\ l.pend + l.left <= MaxBranches
    /\ label \in {"before", "run"} => l.left > 0
    /\ label \in {"before", "run", "commit", "persist"} =>
           l.job = "transition"
    /\ label \in {"compensating", "readStack", "unwind", "mark"} => l.comp
    /\ l.job = "transition" => l.call \in Calls
    /\ label = "fallback" => l.job = "transition" \/ l.comp
    /\ label = "unlock" => ~l.busy

\* The entries of stack st that are not compensated.
Owed(st) == {i \in DOMAIN st : ~st[i].done}

\* What a process at a label, with locals l, knows of the row r and the
\* stack st as long as the version it holds is the row's.
FenceAt(r, st, label, l) ==
    (l.ver > 0 /\ r.version = l.ver) =>
        /\ label \in {"run", "commit", "persist"} => r.status = "IN_FLIGHT"
        /\ label = "before" /\ l.busy => r.status = "IN_FLIGHT"
        /\ label \in {"readStack", "unwind", "mark"} =>
               r.status = "COMPENSATING"
        /\ label \in {"unwind", "mark"} => Owed(st) \subseteq l.todo
        /\ label = "fallback" /\ l.comp => Owed(st) = {}
        /\ label \in {"before", "run", "commit", "persist", "unlock"} =>
               r.ctx \subseteq l.ctx
        /\ label = "fallback" /\ ~l.comp => r.ctx \subseteq l.ctx

\* What holds of the row r and the stack st by themselves.
RowOK(r, st) ==
    /\ r.status = "COMPENSATED" => Owed(st) = {}
    /\ r.status = "IN_FLIGHT" => r.step # NoStep
    /\ r.status \notin Unsettled => r.step = NoStep

\* A process never holds a version the row has not reached.
VersionAt(r, l) == r.version = 0 \/ l.ver <= r.version

BudgetOK ==
    /\ started \in BOOLEAN
    /\ calls \in 0..MaxCalls
    /\ sweeps \in 0..MaxSweeps
    /\ cleanups \in 0..MaxCleanUps
    /\ crashes \in 0..MaxCrashes
    /\ throws \in 0..MaxThrows
    /\ outcomes \in [Calls -> Nat]

\* Before startTransaction there is no row and no call is under way.
NothingBeforeStart ==
    ~started => /\ row.version = 0 /\ row.ctx = {}
                /\ \A p \in Procs : pc[p] = "idle"

\* The inductive invariant.
IInv ==
    /\ row \in Rows /\ stack \in Seq(Entries)
    /\ pc \in [Procs -> Labels] /\ loc \in [Procs -> Locals]
    /\ BudgetOK
    /\ NothingBeforeStart
    /\ RowOK(row, stack)
    /\ \A p \in Procs :
           /\ LocalsAt(pc[p], loc[p])
           /\ VersionAt(row, loc[p])
           /\ FenceAt(row, stack, pc[p], loc[p])

-----------------------------------------------------------------------------
(* Values. *)

LEMMA Initials == NoLocals \in Locals /\ NoRow \in Rows
BY StoreAssumption, ActorAssumption
   DEF NoLocals, Locals, NoRow, Rows, Calls, NoStep, Statuses, Unsettled,
       Terminal

LEMMA IdleLocals ==
    /\ NoLocals.ver = 0
    /\ LocalsAt("idle", NoLocals) /\ LocalsAt("delete", NoLocals)
    /\ \A r \in Rows : \A st, label : FenceAt(r, st, label, NoLocals)
    /\ \A r \in Rows : VersionAt(r, NoLocals)
BY ActorAssumption
   DEF NoLocals, LocalsAt, FenceAt, VersionAt, Rows

LEMMA SettledInStatuses == \A s : SettledStatus(s) \in Statuses \ Unsettled
BY DEF SettledStatus, Statuses, Unsettled, Terminal

\* The row an update writes is r but for the version and the timestamp.
LEMMA UpdatedRow ==
    ASSUME NEW r \in Rows, NEW v \in Nat, NEW u,
           u = [r EXCEPT !.version = v + 1, !.stale = FALSE]
    PROVE  /\ u \in Rows
           /\ u.version = v + 1 /\ u.state = r.state
           /\ u.status = r.status /\ u.step = r.step /\ u.ctx = r.ctx
<1>1. v + 1 \in Nat
    OBVIOUS
<1>2. [r EXCEPT !.version = v + 1, !.stale = FALSE] \in Rows
    BY <1>1 DEF Rows
<1>3. /\ u.version = v + 1 /\ u.state = r.state
      /\ u.status = r.status /\ u.step = r.step /\ u.ctx = r.ctx
    BY <1>1 DEF Rows
<1> QED BY <1>2, <1>3

LEMMA NewEntriesType ==
    \A c \in Calls, n \in Nat : NewEntries(c, n) \in Seq(Entries)
BY DEF NewEntries, Entries

-----------------------------------------------------------------------------
(* The initial states. *)

LEMMA InitIInv == Init => IInv
<1> SUFFICES ASSUME Init PROVE IInv
    OBVIOUS
<1> USE Initials, IdleLocals, StoreAssumption, ActorAssumption
<1>1. /\ row \in Rows /\ stack \in Seq(Entries)
      /\ pc \in [Procs -> Labels] /\ loc \in [Procs -> Locals]
    BY DEF Init, StoreInit, Labels
<1>2. BudgetOK
  <2>1. started \in BOOLEAN
    BY DEF Init
  <2>2. /\ calls \in 0..MaxCalls /\ sweeps \in 0..MaxSweeps
        /\ cleanups \in 0..MaxCleanUps /\ crashes \in 0..MaxCrashes
        /\ throws \in 0..MaxThrows
    BY DEF Init
  <2>3. outcomes \in [Calls -> Nat]
    BY DEF Init
  <2> QED BY <2>1, <2>2, <2>3 DEF BudgetOK
<1>3. NothingBeforeStart
    BY DEF Init, StoreInit, NothingBeforeStart, NoRow
<1>4. RowOK(row, stack)
    BY DEF Init, StoreInit, RowOK, Owed, NoRow, NoStep, Unsettled
<1>5. ASSUME NEW p \in Procs
      PROVE  /\ LocalsAt(pc[p], loc[p]) /\ VersionAt(row, loc[p])
             /\ FenceAt(row, stack, pc[p], loc[p])
    BY <1>1, <1>5 DEF Init
<1> QED BY <1>1, <1>2, <1>3, <1>4, <1>5 DEF IInv

-----------------------------------------------------------------------------
(* Frames: what a step of one process has to show. *)

\* A step that moves only process p, to a label and locals l.
LEMMA Frame ==
    ASSUME IInv, NEW p \in Procs, NEW label \in Labels, NEW l \in Locals,
           Goto(p, label, l), BudgetOK', started', row' \in Rows,
           stack' \in Seq(Entries), RowOK(row', stack'),
           LocalsAt(label, l), VersionAt(row', l),
           FenceAt(row', stack', label, l),
           \A q \in Procs \ {p} :
               VersionAt(row', loc[q]) /\ FenceAt(row', stack', pc[q], loc[q])
    PROVE  IInv'
<1>1. pc' \in [Procs -> Labels] /\ loc' \in [Procs -> Locals]
    BY DEF IInv, Goto
<1>2. pc'[p] = label /\ loc'[p] = l
    BY DEF IInv, Goto
<1>3. \A q \in Procs \ {p} : pc'[q] = pc[q] /\ loc'[q] = loc[q]
    BY DEF IInv, Goto
<1>4. ASSUME NEW q \in Procs
      PROVE  /\ LocalsAt(pc'[q], loc'[q]) /\ VersionAt(row', loc'[q])
             /\ FenceAt(row', stack', pc'[q], loc'[q])
  <2>1. CASE q = p
    BY <1>2, <2>1
  <2>2. CASE q # p
    BY <1>3, <2>2 DEF IInv
  <2> QED BY <2>1, <2>2
<1>5. NothingBeforeStart'
    BY DEF NothingBeforeStart
<1> QED BY <1>1, <1>4, <1>5 DEF IInv

\* A step that leaves the store alone.
LEMMA LocalFrame ==
    ASSUME IInv, NEW p \in Procs, NEW label \in Labels, NEW l \in Locals,
           Goto(p, label, l), UNCHANGED storeVars, BudgetOK', started',
           LocalsAt(label, l), VersionAt(row, l),
           FenceAt(row, stack, label, l)
    PROVE  IInv'
<1>1. row' = row /\ stack' = stack
    BY DEF storeVars
<1> QED BY <1>1, Frame DEF IInv

\* The same, when the call ends there.
LEMMA ReturnFrame ==
    ASSUME IInv, NEW p \in Procs, Return(p), UNCHANGED storeVars, BudgetOK',
           started'
    PROVE  IInv'
<1>1. "idle" \in Labels /\ Goto(p, "idle", NoLocals)
    BY DEF Labels, Return
<1> QED BY <1>1, Initials, IdleLocals, LocalFrame DEF IInv

\* What a versioned update does to the store.
LEMMA UpdateEffect ==
    ASSUME IInv, NEW v, NEW r \in Rows, NEW es \in Seq(Entries),
           UpdateTransaction(v, r, es)
    PROVE  /\ row' \in Rows /\ stack' \in Seq(Entries)
           /\ row.version = v /\ row'.version = row.version + 1
           /\ row'.state = r.state /\ row'.status = r.status
           /\ row'.step = r.step /\ row'.ctx = r.ctx
           /\ stack' = stack \o es
           /\ es = <<>> => stack' = stack
<1>1. row' = [r EXCEPT !.version = row.version + 1, !.stale = FALSE]
    BY DEF UpdateTransaction
<1>2. row.version \in Nat
    BY DEF IInv, Rows
<1>3. /\ row' \in Rows /\ row'.version = row.version + 1
      /\ row'.state = r.state /\ row'.status = r.status
      /\ row'.step = r.step /\ row'.ctx = r.ctx
    BY <1>1, <1>2, UpdatedRow
<1>4. stack' \in Seq(Entries) /\ stack' = stack \o es
    BY DEF UpdateTransaction, IInv
<1>5. es = <<>> => stack' = stack
    BY <1>4 DEF IInv
<1>6. row.version = v
    BY DEF UpdateTransaction, VersionMatches
<1> QED BY <1>3, <1>4, <1>5, <1>6

\* A versioned update by p, which then is at a label with locals l.
LEMMA UpdateFrame ==
    ASSUME IInv, NEW p \in Procs, NEW label \in Labels, NEW l \in Locals,
           Goto(p, label, l), BudgetOK', started' = started,
           pc[p] \notin {"idle", "delete"},
           NEW r \in Rows, NEW es \in Seq(Entries),
           UpdateTransaction(loc[p].ver, r, es),
           RowOK(row', stack'), LocalsAt(label, l),
           l.ver <= row.version + 1,
           FenceAt(row', stack', label, l)
    PROVE  IInv'
<1>1. /\ row' \in Rows /\ row'.version = row.version + 1
      /\ stack' \in Seq(Entries) /\ row.version = loc[p].ver
    BY UpdateEffect
<1>2. started'
    BY DEF IInv, NothingBeforeStart
<1>3. VersionAt(row', l)
    BY <1>1 DEF VersionAt
<1>4. loc[p].ver > 0 /\ loc[p].ver \in Nat
    BY DEF IInv, LocalsAt, Locals
<1>5. ASSUME NEW q \in Procs \ {p}
      PROVE  VersionAt(row', loc[q]) /\ FenceAt(row', stack', pc[q], loc[q])
  <2>1. loc[q].ver \in Nat
    BY DEF IInv, Locals
  <2>2. loc[q].ver <= row.version
    BY <1>1, <1>4, <2>1 DEF IInv, VersionAt
  <2> QED BY <1>1, <1>4, <2>1, <2>2 DEF VersionAt, FenceAt
<1> QED BY <1>1, <1>2, <1>3, <1>5, Frame

\* The same, when the call ends there.
LEMMA UpdateReturnFrame ==
    ASSUME IInv, NEW p \in Procs, BudgetOK', started' = started,
           pc[p] \notin {"idle", "delete"},
           NEW r \in Rows, NEW es \in Seq(Entries),
           UpdateAndReturn(p, r, es), RowOK(row', stack')
    PROVE  IInv'
<1>1. "idle" \in Labels /\ Goto(p, "idle", NoLocals)
    BY DEF Labels, Return, UpdateAndReturn
<1>2. UpdateTransaction(loc[p].ver, r, es)
    BY DEF UpdateAndReturn
<1>3. row' \in Rows /\ row.version \in Nat
    BY <1>2, UpdateEffect DEF IInv, Rows
<1>4. NoLocals.ver <= row.version + 1
    BY <1>3, IdleLocals
<1> QED BY <1>1, <1>2, <1>3, <1>4, Initials, IdleLocals, UpdateFrame

-----------------------------------------------------------------------------
(* The actions of SagaActor, one lemma for each. *)

LEMMA SameBudget ==
    ASSUME BudgetOK, UNCHANGED <<budget, outcomes>>
    PROVE  BudgetOK' /\ started' = started
BY DEF BudgetOK, budget

\* A call that is under way is under way on a started transaction.
LEMMA UnderWay ==
    ASSUME IInv, NEW p \in Procs, pc[p] # "idle"
    PROVE  started
BY DEF IInv, NothingBeforeStart, BudgetOK

LEMMA StaleVersionStep ==
    ASSUME IInv, NEW p \in Procs, StaleVersion(p) PROVE IInv'
<1>1. pc[p] # "idle"
    BY DEF StaleVersion, Updating
<1>2. BudgetOK' /\ started'
    BY <1>1, SameBudget, UnderWay DEF StaleVersion, IInv
<1> QED BY <1>2, ReturnFrame DEF StaleVersion, storeVars

\* What executeTransitionOnSnapshot starts from.
LEMMA SnapshotLocals ==
    ASSUME NEW r \in Rows, r.version > 0, NEW c \in Calls,
           NEW n \in 1..MaxBranches, NEW st
    PROVE  /\ OnSnapshot(r, c, n) \in Locals
           /\ LocalsAt("before", OnSnapshot(r, c, n))
           /\ VersionAt(r, OnSnapshot(r, c, n))
           /\ FenceAt(r, st, "before", OnSnapshot(r, c, n))
<1> DEFINE l == OnSnapshot(r, c, n)
<1> USE ActorAssumption
<1>1. /\ l.job = "transition" /\ l.ver = r.version /\ l.call = c
      /\ l.ctx = r.ctx /\ l.left = n /\ l.pend = 0
    BY DEF OnSnapshot
<1>6. l.busy => r.status = "IN_FLIGHT"
    BY Zenon DEF OnSnapshot
<1>2. l \in Locals
  <2>1. (r.status = "IN_FLIGHT") \in BOOLEAN
    OBVIOUS
  <2> QED BY <2>1 DEF OnSnapshot, Locals, Rows
<1>3. LocalsAt("before", l)
    BY <1>1 DEF LocalsAt, Rows
<1>4. VersionAt(r, l)
    BY <1>1 DEF VersionAt, Rows
<1>5. FenceAt(r, st, "before", l)
    BY <1>1, <1>6 DEF FenceAt
<1> QED BY <1>2, <1>3, <1>4, <1>5

LEMMA TransitionStep ==
    ASSUME IInv, NEW p \in Procs, Transition(p) PROVE IInv'
<1>1. PICK n \in Matches(row.state) \ {0} :
          Goto(p, "before", OnSnapshot(row, calls + 1, n))
    BY DEF Transition
<1>2. n \in 1..MaxBranches
    BY <1>1 DEF Matches
<1>3. calls + 1 \in Calls /\ calls' \in 0..MaxCalls
    BY StoreAssumption DEF Transition, IInv, BudgetOK, Calls
<1>4. row \in Rows /\ row.version > 0
    BY DEF Transition, Exists, IInv
<1>5. BudgetOK' /\ started'
  <2>1. started' = started /\ started
    BY <1>4 DEF Transition, IInv, NothingBeforeStart, BudgetOK, Rows
  <2> QED BY <1>3, <2>1 DEF BudgetOK, Transition, IInv
<1>6. UNCHANGED storeVars /\ "before" \in Labels
    BY DEF Transition, storeVars, Labels
<1> QED BY <1>1, <1>2, <1>3, <1>4, <1>5, <1>6, SnapshotLocals, LocalFrame

LEMMA JoinLeaseStep ==
    ASSUME IInv, NEW p \in Procs, JoinLease(p) PROVE IInv'
<1> DEFINE l == [loc[p] EXCEPT !.busy = FALSE]
<1>1. pc[p] = "before" /\ loc[p].busy /\ Goto(p, "run", l)
    BY DEF JoinLease
<1>2. loc[p] \in Locals
    BY DEF IInv
<1>3. l \in Locals
    BY <1>2 DEF Locals
<1>4. LocalsAt("run", l)
    BY <1>1, <1>2 DEF IInv, LocalsAt, Locals
<1>5. VersionAt(row, l)
    BY <1>2 DEF IInv, VersionAt, Locals
<1>6. FenceAt(row, stack, "run", l)
    BY <1>1, <1>2 DEF IInv, FenceAt, Locals
<1>7. BudgetOK' /\ started' /\ UNCHANGED storeVars /\ "run" \in Labels
    BY <1>1, SameBudget, UnderWay DEF JoinLease, IInv, storeVars, Labels
<1> QED BY <1>1, <1>3, <1>4, <1>5, <1>6, <1>7, LocalFrame

LEMMA BranchSucceedsStep ==
    ASSUME IInv, NEW p \in Procs, BranchSucceeds(p) PROVE IInv'
<1> DEFINE label == IF loc[p].left = 1 THEN "commit" ELSE "run"
           l(k) == [loc[p] EXCEPT !.left = loc[p].left - 1,
                                  !.ctx = loc[p].ctx \cup {loc[p].call},
                                  !.pend = loc[p].pend + k]
<1>1. PICK k \in {0, 1} : Goto(p, label, l(k))
    BY DEF BranchSucceeds
<1>2. pc[p] = "run" /\ loc[p] \in Locals
    BY DEF BranchSucceeds, IInv
<1>3. /\ loc[p].left > 0 /\ loc[p].pend + loc[p].left <= MaxBranches
      /\ loc[p].job = "transition" /\ loc[p].call \in Calls
    BY <1>2 DEF IInv, LocalsAt
<1>4. l(k) \in Locals
  <2>1. /\ loc[p].left - 1 \in 0..MaxBranches
        /\ loc[p].pend + k \in 0..MaxBranches
        /\ loc[p].ctx \cup {loc[p].call} \in SUBSET Calls
    BY <1>2, <1>3, ActorAssumption DEF Locals
  <2> QED BY <1>2, <2>1 DEF Locals
<1>5. LocalsAt(label, l(k))
  <2> DEFINE m == loc[p]
  <2>1. /\ l(k).left = m.left - 1 /\ l(k).pend = m.pend + k
        /\ l(k).job = m.job /\ l(k).call = m.call /\ l(k).ver = m.ver
    BY <1>2 DEF Locals
  <2>2. m.left \in Nat /\ m.pend \in Nat /\ m.ver \in Nat /\ m.ver > 0
  <3>1. m.left \in Nat /\ m.pend \in Nat /\ m.ver \in Nat
    BY <1>2, ActorAssumption DEF Locals
  <3>2. m.ver > 0
    BY <1>2 DEF IInv, LocalsAt
  <3> QED BY <3>1, <3>2
  <2> QED BY <1>3, <2>1, <2>2, ActorAssumption DEF LocalsAt
<1>6. VersionAt(row, l(k))
    BY <1>2 DEF IInv, VersionAt, Locals
<1>7. FenceAt(row, stack, label, l(k))
    BY <1>2 DEF IInv, FenceAt, Locals
<1>8. BudgetOK' /\ started' /\ UNCHANGED storeVars /\ label \in Labels
    BY <1>2, SameBudget, UnderWay DEF BranchSucceeds, IInv, storeVars, Labels
<1> QED BY <1>1, <1>4, <1>5, <1>6, <1>7, <1>8, LocalFrame

LEMMA BranchFailsStep ==
    ASSUME IInv, NEW p \in Procs, BranchFails(p) PROVE IInv'
<1> DEFINE l(c) == [loc[p] EXCEPT !.comp = c]
           label(c) == IF l(c).pend > 0 THEN "persist" ELSE AfterPersist(l(c))
<1>1. PICK c \in BOOLEAN : Goto(p, label(c), l(c))
    BY DEF BranchFails
<1>2. pc[p] = "run" /\ loc[p] \in Locals
    BY DEF BranchFails, IInv
<1>3. l(c) \in Locals
    BY <1>2 DEF Locals
<1>4. /\ l(c).comp = c /\ l(c).pend = loc[p].pend /\ l(c).left = loc[p].left
      /\ l(c).job = loc[p].job /\ l(c).call = loc[p].call
      /\ l(c).ver = loc[p].ver /\ l(c).ctx = loc[p].ctx
    BY <1>2 DEF Locals
<1>5. LocalsAt(label(c), l(c))
    BY <1>2, <1>4 DEF IInv, LocalsAt, AfterPersist
<1>6. VersionAt(row, l(c))
    BY <1>4 DEF IInv, VersionAt
<1>7. FenceAt(row, stack, label(c), l(c))
    BY <1>2, <1>4 DEF IInv, FenceAt, AfterPersist
<1>8. BudgetOK' /\ started' /\ UNCHANGED storeVars /\ label(c) \in Labels
    BY <1>2, SameBudget, UnderWay
       DEF BranchFails, IInv, storeVars, Labels, AfterPersist
<1> QED BY <1>1, <1>3, <1>5, <1>6, <1>7, <1>8, LocalFrame

\* After an update a process holds the new version; the rest is as it was.
LEMMA VersionedLocals ==
    ASSUME NEW l \in Locals, NEW v \in Nat, NEW m,
           m = [l EXCEPT !.ver = v + 1]
    PROVE  /\ m \in Locals /\ m.ver = v + 1
           /\ m.job = l.job /\ m.call = l.call /\ m.busy = l.busy
           /\ m.ctx = l.ctx /\ m.left = l.left /\ m.pend = l.pend
           /\ m.todo = l.todo /\ m.comp = l.comp
<1>1. v + 1 \in Nat
    OBVIOUS
<1>2. [l EXCEPT !.ver = v + 1] \in Locals
    BY <1>1 DEF Locals
<1>3. /\ m.ver = v + 1
      /\ m.job = l.job /\ m.call = l.call /\ m.busy = l.busy
      /\ m.ctx = l.ctx /\ m.left = l.left /\ m.pend = l.pend
      /\ m.todo = l.todo /\ m.comp = l.comp
    BY <1>1 DEF Locals
<1> QED BY <1>2, <1>3

LEMMA AcquireLeaseStep ==
    ASSUME IInv, NEW p \in Procs, AcquireLease(p) PROVE IInv'
<1> DEFINE r == [row EXCEPT !.status = "IN_FLIGHT", !.step = loc[p].call]
           m == [loc[p] EXCEPT !.ver = row.version + 1]
<1>1. /\ pc[p] = "before" /\ Goto(p, "run", m)
      /\ UpdateTransaction(loc[p].ver, r, <<>>)
    BY DEF AcquireLease, Update
<1>2. /\ loc[p] \in Locals /\ row \in Rows /\ row.version \in Nat
      /\ <<>> \in Seq(Entries)
    BY DEF IInv, Rows
<1>3. loc[p].call \in Calls /\ loc[p].job = "transition" /\ loc[p].left > 0
    BY <1>1 DEF IInv, LocalsAt
<1>4. /\ r \in Rows /\ r.status = "IN_FLIGHT" /\ r.step = loc[p].call
      /\ r.ctx = row.ctx
    BY <1>2, <1>3 DEF Rows, Statuses, Unsettled
<1>5. /\ row'.status = "IN_FLIGHT" /\ row'.step = loc[p].call
      /\ row'.ctx = row.ctx /\ row.version = loc[p].ver
    BY <1>1, <1>2, <1>4, UpdateEffect
<1>6. RowOK(row', stack')
    BY <1>3, <1>5 DEF RowOK, Calls, NoStep, Unsettled
<1>7. /\ m \in Locals /\ m.ver = row.version + 1 /\ m.job = loc[p].job
      /\ m.call = loc[p].call /\ m.ctx = loc[p].ctx /\ m.left = loc[p].left
      /\ m.pend = loc[p].pend
    BY <1>2, VersionedLocals
<1>8. LocalsAt("run", m)
    BY <1>1, <1>2, <1>3, <1>7 DEF IInv, LocalsAt
<1>9. FenceAt(row', stack', "run", m)
  <2>1. row.ctx \subseteq loc[p].ctx
    BY <1>1, <1>5 DEF IInv, FenceAt, LocalsAt
  <2> QED BY <1>5, <1>7, <2>1 DEF FenceAt
<1>11. m.ver <= row.version + 1
    BY <1>2, <1>7
<1>10. BudgetOK' /\ started' = started /\ "run" \in Labels
    BY SameBudget DEF AcquireLease, IInv, Labels
<1> QED BY <1>1, <1>2, <1>4, <1>6, <1>7, <1>8, <1>9, <1>10, <1>11,
           UpdateFrame

LEMMA PersistPendingStep ==
    ASSUME IInv, NEW p \in Procs, PersistPending(p) PROVE IInv'
<1> DEFINE es == NewEntries(loc[p].call, loc[p].pend)
           label == AfterPersist(loc[p])
           l == [loc[p] EXCEPT !.pend = 0]
           m == [l EXCEPT !.ver = row.version + 1]
<1>1. /\ pc[p] = "persist" /\ Goto(p, label, m)
      /\ UpdateTransaction(loc[p].ver, row, es)
    BY DEF PersistPending, Update
<1>2. /\ loc[p] \in Locals /\ row \in Rows /\ row.version \in Nat
      /\ loc[p].pend \in Nat /\ loc[p].left \in Nat
    BY DEF IInv, Rows, Locals
<1>3. loc[p].call \in Calls /\ loc[p].job = "transition"
    BY <1>1 DEF IInv, LocalsAt
<1>4. es \in Seq(Entries)
    BY <1>2, <1>3, NewEntriesType
<1>5. /\ row'.status = row.status /\ row'.step = row.step
      /\ row'.ctx = row.ctx /\ row.version = loc[p].ver
    BY <1>1, <1>2, <1>4, UpdateEffect
<1>6. row.status = "IN_FLIGHT" /\ row.ctx \subseteq loc[p].ctx
    BY <1>1, <1>5 DEF IInv, FenceAt, LocalsAt
<1>7. RowOK(row', stack')
    BY <1>5, <1>6 DEF RowOK, IInv, Unsettled
<1>8. /\ l \in Locals /\ l.pend = 0 /\ l.job = loc[p].job
      /\ l.call = loc[p].call /\ l.ctx = loc[p].ctx /\ l.left = loc[p].left
      /\ l.comp = loc[p].comp
    BY <1>2, ActorAssumption DEF Locals
<1> HIDE DEF l
<1>9. /\ m \in Locals /\ m.ver = row.version + 1 /\ m.job = l.job
      /\ m.call = l.call /\ m.ctx = l.ctx /\ m.left = l.left
      /\ m.pend = l.pend /\ m.comp = l.comp
    BY <1>2, <1>8, VersionedLocals
<1>10. LocalsAt(label, m)
  <2>1. label = IF m.comp THEN "compensating" ELSE "fallback"
    BY <1>8, <1>9 DEF AfterPersist
  <2>2. loc[p].left <= MaxBranches
    BY <1>2, ActorAssumption DEF Locals
  <2>3. m.ver > 0 /\ m.pend + m.left <= MaxBranches
    BY <1>2, <1>8, <1>9, <2>2, ActorAssumption
  <2> QED BY <1>3, <1>8, <1>9, <2>1, <2>3 DEF LocalsAt
<1>11. FenceAt(row', stack', label, m)
    BY <1>5, <1>6, <1>8, <1>9 DEF FenceAt, AfterPersist
<1>12. BudgetOK' /\ started' = started /\ label \in Labels
    BY SameBudget DEF PersistPending, IInv, Labels, AfterPersist
<1>13. m.ver <= row.version + 1
    BY <1>2, <1>9
<1> QED BY <1>1, <1>2, <1>4, <1>7, <1>9, <1>10, <1>11, <1>12, <1>13,
           UpdateFrame

LEMMA BeginCompensationStep ==
    ASSUME IInv, NEW p \in Procs, BeginCompensation(p) PROVE IInv'
<1> DEFINE r == [row EXCEPT !.status = "COMPENSATING"]
           m == [loc[p] EXCEPT !.ver = row.version + 1]
<1>1. /\ pc[p] = "compensating" /\ Goto(p, "readStack", m)
      /\ UpdateTransaction(loc[p].ver, r, <<>>)
    BY DEF BeginCompensation, Update
<1>2. /\ loc[p] \in Locals /\ row \in Rows /\ row.version \in Nat
      /\ <<>> \in Seq(Entries)
    BY DEF IInv, Rows
<1>3. r \in Rows /\ r.status = "COMPENSATING"
    BY <1>2 DEF Rows, Statuses, Unsettled
<1>4. row'.status = "COMPENSATING" /\ row'.version = row.version + 1
    BY <1>1, <1>2, <1>3, UpdateEffect
<1>5. RowOK(row', stack')
    BY <1>4 DEF RowOK, Unsettled
<1>6. /\ m \in Locals /\ m.ver = row.version + 1 /\ m.job = loc[p].job
      /\ m.call = loc[p].call /\ m.left = loc[p].left
      /\ m.pend = loc[p].pend /\ m.comp = loc[p].comp
    BY <1>2, VersionedLocals
<1>7. LocalsAt("readStack", m)
    BY <1>1, <1>2, <1>6 DEF IInv, LocalsAt
<1>8. FenceAt(row', stack', "readStack", m)
    BY <1>4 DEF FenceAt
<1>9. BudgetOK' /\ started' = started /\ "readStack" \in Labels
    BY SameBudget DEF BeginCompensation, IInv, Labels
<1>10. m.ver <= row.version + 1
    BY <1>2, <1>6
<1> QED BY <1>1, <1>2, <1>3, <1>5, <1>6, <1>7, <1>8, <1>9, <1>10, UpdateFrame

\* The row that settles a step or a compensation.
LEMMA SettledRow ==
    ASSUME IInv, NEW p \in Procs, NEW s \in States, NEW t \in Statuses
    PROVE  /\ Settle(p, s, t) \in Rows
           /\ Settle(p, s, t).status = t /\ Settle(p, s, t).step = NoStep
           /\ Settle(p, s, t).ctx = loc[p].ctx
<1>1. row \in Rows /\ loc[p].ctx \in SUBSET Calls
    BY DEF IInv, Locals
<1> QED BY <1>1 DEF Settle, Rows

\* A step's outcome is counted.
LEMMA OutcomeBudget ==
    ASSUME IInv, NEW p \in Procs, CountOutcome(p), UNCHANGED budget
    PROVE  BudgetOK' /\ started' = started
<1>1. outcomes' \in [Calls -> Nat]
  <2>1. CASE loc[p].job = "transition"
    <3>1. loc[p].call \in Calls
      BY <2>1 DEF IInv, LocalsAt
    <3> QED BY <2>1, <3>1 DEF CountOutcome, IInv, BudgetOK
  <2>2. CASE loc[p].job # "transition"
    BY <2>2 DEF CountOutcome, IInv, BudgetOK
  <2> QED BY <2>1, <2>2
<1> QED BY <1>1 DEF BudgetOK, IInv, budget

LEMMA SettleFailureStep ==
    ASSUME IInv, NEW p \in Procs, SettleFailure(p) PROVE IInv'
<1> DEFINE t(s) == IF loc[p].comp THEN "COMPENSATED" ELSE SettledStatus(s)
<1>1. PICK s \in IF loc[p].job = "transition" THEN States ELSE {ErrorState} :
          UpdateAndReturn(p, Settle(p, s, t(s)), <<>>)
    BY DEF SettleFailure
<1>2. pc[p] = "fallback" /\ s \in States /\ <<>> \in Seq(Entries)
    BY <1>1, StoreAssumption DEF SettleFailure
<1>3. t(s) \in Statuses \ Unsettled
    BY SettledInStatuses DEF Statuses, Unsettled, Terminal
<1>4. /\ Settle(p, s, t(s)) \in Rows /\ Settle(p, s, t(s)).status = t(s)
      /\ Settle(p, s, t(s)).step = NoStep
    BY <1>2, <1>3, SettledRow
<1>5. /\ row'.status = t(s) /\ row'.step = NoStep /\ stack' = stack
      /\ row.version = loc[p].ver
    BY <1>1, <1>2, <1>4, UpdateEffect DEF UpdateAndReturn
<1>6. row'.status = "COMPENSATED" => Owed(stack') = {}
  <2>1. loc[p].comp => Owed(stack) = {}
    BY <1>2, <1>5 DEF IInv, FenceAt, LocalsAt
  <2>2. ~loc[p].comp => t(s) # "COMPENSATED"
    BY DEF SettledStatus
  <2> QED BY <1>5, <2>1, <2>2
<1>7. RowOK(row', stack')
    BY <1>3, <1>5, <1>6 DEF RowOK, Unsettled
<1>8. BudgetOK' /\ started' = started
    BY OutcomeBudget DEF SettleFailure
<1> QED BY <1>1, <1>2, <1>4, <1>7, <1>8, UpdateReturnFrame

LEMMA CommitStep ==
    ASSUME IInv, NEW p \in Procs, Commit(p) PROVE IInv'
<1> DEFINE es == NewEntries(loc[p].call, loc[p].pend)
<1>1. PICK s \in States :
          UpdateAndReturn(p, Settle(p, s, SettledStatus(s)), es)
    BY DEF Commit
<1>2. pc[p] = "commit" /\ loc[p].pend \in Nat /\ loc[p].call \in Calls
  <2>1. pc[p] = "commit"
    BY DEF Commit
  <2>2. loc[p].pend \in Nat
    BY DEF IInv, Locals
  <2> QED BY <2>1, <2>2 DEF IInv, LocalsAt
<1>3. es \in Seq(Entries)
    BY <1>2, NewEntriesType
<1>4. /\ Settle(p, s, SettledStatus(s)) \in Rows
      /\ Settle(p, s, SettledStatus(s)).status = SettledStatus(s)
      /\ Settle(p, s, SettledStatus(s)).step = NoStep
    BY SettledInStatuses, SettledRow
<1>5. row'.status = SettledStatus(s) /\ row'.step = NoStep
    BY <1>1, <1>3, <1>4, UpdateEffect DEF UpdateAndReturn
<1>6. RowOK(row', stack')
    BY <1>5 DEF RowOK, Unsettled, SettledStatus
<1>7. BudgetOK' /\ started' = started
    BY OutcomeBudget DEF Commit
<1> QED BY <1>1, <1>2, <1>3, <1>4, <1>6, <1>7, UpdateReturnFrame

LEMMA MarkFailStep ==
    ASSUME IInv, NEW p \in Procs, MarkFail(p) PROVE IInv'
<1> DEFINE r == [row EXCEPT !.state = ErrorState, !.status = "FAILED",
                            !.step = NoStep]
<1>1. pc[p] = "markFail" /\ UpdateAndReturn(p, r, <<>>)
    BY DEF MarkFail
<1>2. row \in Rows /\ <<>> \in Seq(Entries)
    BY DEF IInv
<1>3. r \in Rows /\ r.status = "FAILED" /\ r.step = NoStep
    BY <1>2, StoreAssumption DEF Rows, Statuses, Terminal
<1>4. row'.status = "FAILED" /\ row'.step = NoStep
    BY <1>1, <1>2, <1>3, UpdateEffect DEF UpdateAndReturn
<1>5. RowOK(row', stack')
    BY <1>4 DEF RowOK
<1>6. BudgetOK' /\ started' = started
    BY SameBudget DEF MarkFail, IInv
<1> QED BY <1>1, <1>2, <1>3, <1>5, <1>6, UpdateReturnFrame

\* The row FORCE_UNLOCK and CONTINUE write.
LEMMA UnlockedRow ==
    ASSUME IInv, NEW r, r = [row EXCEPT !.status = "IDLE", !.step = NoStep]
    PROVE  /\ r \in Rows /\ r.status = "IDLE" /\ r.step = NoStep
           /\ r.ctx = row.ctx
<1>1. row \in Rows
    BY DEF IInv
<1>2. [row EXCEPT !.status = "IDLE", !.step = NoStep] \in Rows
    BY <1>1 DEF Rows, Statuses
<1>3. r.status = "IDLE" /\ r.step = NoStep /\ r.ctx = row.ctx
    BY <1>1 DEF Rows
<1> QED BY <1>2, <1>3

LEMMA ForceUnlockStep ==
    ASSUME IInv, NEW p \in Procs, ForceUnlock(p) PROVE IInv'
<1> DEFINE r == [row EXCEPT !.status = "IDLE", !.step = NoStep]
<1>1. pc[p] = "forceUnlock" /\ UpdateAndReturn(p, r, <<>>)
    BY DEF ForceUnlock
<1>2. r \in Rows /\ r.status = "IDLE" /\ r.step = NoStep
    BY UnlockedRow
<1>3. <<>> \in Seq(Entries)
    OBVIOUS
<1> HIDE DEF r
<1>4. row'.status = "IDLE" /\ row'.step = NoStep
    BY <1>1, <1>2, <1>3, UpdateEffect DEF UpdateAndReturn
<1>5. RowOK(row', stack')
    BY <1>4 DEF RowOK
<1>6. BudgetOK' /\ started' = started
    BY SameBudget DEF ForceUnlock, IInv
<1> QED BY <1>1, <1>2, <1>3, <1>5, <1>6, UpdateReturnFrame

LEMMA ContinueUnlockStep ==
    ASSUME IInv, NEW p \in Procs, ContinueUnlock(p) PROVE IInv'
<1> DEFINE r == [row EXCEPT !.status = "IDLE", !.step = NoStep]
           l == [loc[p] EXCEPT !.job = "transition"]
           m == [l EXCEPT !.ver = row.version + 1]
<1>1. pc[p] = "unlock" /\ <<>> \in Seq(Entries)
    BY DEF ContinueUnlock
<1>2. r \in Rows /\ r.status = "IDLE" /\ r.step = NoStep /\ r.ctx = row.ctx
    BY UnlockedRow
<1>3. BudgetOK' /\ started' = started
    BY SameBudget DEF ContinueUnlock, IInv
<1>4. CASE loc[p].call # NoStep /\ loc[p].left > 0
  <2>1. UpdateTransaction(loc[p].ver, r, <<>>) /\ Goto(p, "before", m)
    BY <1>4 DEF ContinueUnlock, Update
  <2>2. loc[p] \in Locals /\ row.version \in Nat
    BY DEF IInv, Rows
  <2>3. /\ l \in Locals /\ l.job = "transition" /\ l.call = loc[p].call
        /\ l.left = loc[p].left /\ l.pend = loc[p].pend
        /\ l.ctx = loc[p].ctx /\ l.busy = loc[p].busy
    BY <2>2 DEF Locals
  <2> HIDE DEF l, r
  <2>4. /\ m \in Locals /\ m.ver = row.version + 1 /\ m.job = l.job
        /\ m.call = l.call /\ m.left = l.left /\ m.pend = l.pend
        /\ m.ctx = l.ctx /\ m.busy = l.busy
    BY <2>2, <2>3, VersionedLocals
  <2>5. /\ row'.status = "IDLE" /\ row'.step = NoStep
        /\ row'.ctx = row.ctx /\ row.version = loc[p].ver
    BY <1>1, <1>2, <2>1, UpdateEffect
  <2>6. RowOK(row', stack')
    BY <2>5 DEF RowOK
  <2>7. LocalsAt("before", m)
    <3>1. m.call \in Calls
      BY <1>4, <2>2, <2>3, <2>4 DEF Locals
    <3>2. m.ver > 0 /\ m.pend + m.left <= MaxBranches
      BY <2>2, <2>3, <2>4 DEF IInv, LocalsAt
    <3> QED BY <1>4, <2>3, <2>4, <3>1, <3>2 DEF LocalsAt
  <2>8. FenceAt(row', stack', "before", m)
    <3>1. row.ctx \subseteq loc[p].ctx /\ ~loc[p].busy
      BY <1>1, <2>5 DEF IInv, FenceAt, LocalsAt
    <3> QED BY <2>3, <2>4, <2>5, <3>1 DEF FenceAt
  <2>9. m.ver <= row.version + 1 /\ "before" \in Labels
    BY <2>2, <2>4 DEF Labels
  <2> HIDE DEF m
  <2> QED BY <1>1, <1>2, <1>3, <2>1, <2>4, <2>6, <2>7, <2>8, <2>9,
             UpdateFrame
<1>5. CASE ~(loc[p].call # NoStep /\ loc[p].left > 0)
  <2>1. UpdateAndReturn(p, r, <<>>)
    BY <1>5 DEF ContinueUnlock
  <2> HIDE DEF r
  <2>2. row'.status = "IDLE" /\ row'.step = NoStep
    BY <1>1, <1>2, <2>1, UpdateEffect DEF UpdateAndReturn
  <2>3. RowOK(row', stack')
    BY <2>2 DEF RowOK
  <2> QED BY <1>1, <1>2, <1>3, <2>1, <2>3, UpdateReturnFrame
<1> QED BY <1>4, <1>5

LEMMA StartTransactionStep ==
    ASSUME IInv, NEW p \in Procs, StartTransaction(p) PROVE IInv'
<1>1. /\ row' = [NoRow EXCEPT !.version = 1,
                              !.status = SettledStatus(InitialState)]
      /\ stack' = <<>> /\ pc' = pc /\ loc' = loc /\ started'
      /\ calls' = calls /\ sweeps' = sweeps /\ cleanups' = cleanups
      /\ crashes' = crashes /\ throws' = throws /\ outcomes' = outcomes
    BY DEF StartTransaction, CreateTransaction
<1>2. /\ row' \in Rows /\ row'.status = SettledStatus(InitialState)
      /\ row'.step = NoStep /\ row'.version = 1
  <2>1. SettledStatus(InitialState) \in Statuses
    BY SettledInStatuses
  <2>2. NoRow \in Rows /\ NoRow.step = NoStep
    BY Initials DEF NoRow
  <2> HIDE DEF NoRow
  <2> QED BY <1>1, <2>1, <2>2 DEF Rows
<1>3. RowOK(row', stack')
    BY <1>2, SettledInStatuses DEF RowOK, SettledStatus, Unsettled
<1>4. BudgetOK'
    BY <1>1 DEF BudgetOK, IInv
<1>5. ASSUME NEW q \in Procs
      PROVE  /\ LocalsAt(pc'[q], loc'[q]) /\ VersionAt(row', loc'[q])
             /\ FenceAt(row', stack', pc'[q], loc'[q])
  <2>1. pc[q] = "idle"
    BY DEF IInv, NothingBeforeStart, StartTransaction
  <2>2. LocalsAt(pc[q], loc[q]) /\ loc[q].ver = 0
    BY <2>1 DEF IInv, LocalsAt
  <2> QED BY <1>1, <1>2, <2>2 DEF VersionAt, FenceAt
<1>6. NothingBeforeStart' /\ stack' \in Seq(Entries)
    BY <1>1 DEF NothingBeforeStart
<1> QED BY <1>1, <1>2, <1>3, <1>4, <1>5, <1>6 DEF IInv

LEMMA ReadStackStep ==
    ASSUME IInv, NEW p \in Procs, ReadStack(p) PROVE IInv'
<1> DEFINE l == [loc[p] EXCEPT !.todo = Owed(stack)]
           label == AfterMark(Owed(stack))
<1>1. pc[p] = "readStack" /\ Goto(p, label, l)
    BY DEF ReadStack, UncompensatedStack, Owed
<1>2. loc[p] \in Locals /\ Owed(stack) \in SUBSET Nat
    BY DEF IInv, Owed
<1>3. /\ l \in Locals /\ l.todo = Owed(stack) /\ l.ver = loc[p].ver
      /\ l.pend = loc[p].pend /\ l.left = loc[p].left /\ l.job = loc[p].job
      /\ l.call = loc[p].call /\ l.comp = loc[p].comp
    BY <1>2 DEF Locals
<1> HIDE DEF l
<1>4. LocalsAt(label, l)
    BY <1>1, <1>3 DEF IInv, LocalsAt, AfterMark
<1>5. VersionAt(row, l)
    BY <1>3 DEF IInv, VersionAt
<1>6. FenceAt(row, stack, label, l)
  <2>1. l.comp
    BY <1>1, <1>3 DEF IInv, LocalsAt
  <2> QED BY <1>1, <1>3, <2>1 DEF IInv, FenceAt, AfterMark
<1>7. BudgetOK' /\ started' /\ UNCHANGED storeVars /\ label \in Labels
    BY <1>1, SameBudget, UnderWay
       DEF ReadStack, IInv, storeVars, Labels, AfterMark
<1> QED BY <1>1, <1>3, <1>4, <1>5, <1>6, <1>7, LocalFrame

LEMMA RunCompensatorStep ==
    ASSUME IInv, NEW p \in Procs, RunCompensator(p) PROVE IInv'
<1> DEFINE l(u) == [loc[p] EXCEPT !.ctx = loc[p].ctx \ u]
<1>1. PICK u \in SUBSET loc[p].ctx : Goto(p, "mark", l(u))
    BY DEF RunCompensator
<1>2. pc[p] = "unwind" /\ loc[p] \in Locals
    BY DEF RunCompensator, IInv
<1>3. /\ l(u) \in Locals /\ l(u).todo = loc[p].todo /\ l(u).ver = loc[p].ver
      /\ l(u).pend = loc[p].pend /\ l(u).left = loc[p].left
      /\ l(u).job = loc[p].job /\ l(u).call = loc[p].call
      /\ l(u).comp = loc[p].comp
    BY <1>2 DEF Locals
<1> HIDE DEF l
<1>4. LocalsAt("mark", l(u))
    BY <1>2, <1>3 DEF IInv, LocalsAt
<1>5. VersionAt(row, l(u))
    BY <1>3 DEF IInv, VersionAt
<1>6. FenceAt(row, stack, "mark", l(u))
    BY <1>2, <1>3 DEF IInv, FenceAt
<1>7. BudgetOK' /\ started' /\ UNCHANGED storeVars /\ "mark" \in Labels
    BY <1>2, SameBudget, UnderWay
       DEF RunCompensator, IInv, storeVars, Labels
<1> QED BY <1>1, <1>3, <1>4, <1>5, <1>6, <1>7, LocalFrame

\* Marking an entry can only make less owed.
LEMMA MarkedStack ==
    ASSUME IInv, NEW i \in Nat, MarkCompensationExecuted(i)
    PROVE  /\ row' = row /\ stack' \in Seq(Entries)
           /\ Owed(stack') \subseteq Owed(stack) \ {i}
<1>1. row' = row /\ stack \in Seq(Entries)
    BY DEF MarkCompensationExecuted, IInv
<1>2. CASE i \in DOMAIN stack
  <2>1. stack' = [stack EXCEPT ![i].done = TRUE]
    BY <1>2 DEF MarkCompensationExecuted
  <2>2. [stack[i] EXCEPT !.done = TRUE] \in Entries
    <3>1. \A e \in Entries : [e EXCEPT !.done = TRUE] \in Entries
      BY DEF Entries
    <3>2. stack[i] \in Entries
      BY <1>1, <1>2
    <3> QED BY <3>1, <3>2
  <2>3. stack' \in Seq(Entries) /\ DOMAIN stack' = DOMAIN stack
    BY <1>1, <1>2, <2>1, <2>2
  <2>4. stack'[i].done
    BY <1>1, <1>2, <2>1, <2>2 DEF Entries
  <2>5. \A j \in DOMAIN stack \ {i} : stack'[j] = stack[j]
    BY <1>1, <1>2, <2>1
  <2> QED BY <1>1, <2>3, <2>4, <2>5 DEF Owed
<1>3. CASE i \notin DOMAIN stack
  <2>1. stack' = stack
    BY <1>3 DEF MarkCompensationExecuted
  <2> QED BY <1>1, <1>3, <2>1 DEF Owed
<1> QED BY <1>2, <1>3

LEMMA MarkExecutedStep ==
    ASSUME IInv, NEW p \in Procs, MarkExecuted(p) PROVE IInv'
<1> DEFINE l(i) == [loc[p] EXCEPT !.todo = loc[p].todo \ {i}]
           label(i) == AfterMark(loc[p].todo \ {i})
<1>1. PICK i \in loc[p].todo :
          MarkCompensationExecuted(i) /\ Goto(p, label(i), l(i))
    BY DEF MarkExecuted
<1>2. pc[p] = "mark" /\ loc[p] \in Locals
    BY DEF MarkExecuted, IInv
<1>3. i \in Nat
    BY <1>2 DEF Locals
<1>4. /\ row' = row /\ stack' \in Seq(Entries) /\ row' \in Rows
      /\ Owed(stack') \subseteq Owed(stack) \ {i}
    BY <1>1, <1>3, MarkedStack DEF IInv
<1>5. /\ l(i) \in Locals /\ l(i).todo = loc[p].todo \ {i}
      /\ l(i).ver = loc[p].ver /\ l(i).pend = loc[p].pend
      /\ l(i).left = loc[p].left /\ l(i).job = loc[p].job
      /\ l(i).call = loc[p].call /\ l(i).comp = loc[p].comp
    BY <1>2 DEF Locals
<1> HIDE DEF l
<1>6. LocalsAt(label(i), l(i))
    BY <1>2, <1>5 DEF IInv, LocalsAt, AfterMark
<1>7. VersionAt(row', l(i))
    BY <1>4, <1>5 DEF IInv, VersionAt
<1>8. FenceAt(row', stack', label(i), l(i))
  <2>1. l(i).comp
    BY <1>2, <1>5 DEF IInv, LocalsAt
  <2>2. (loc[p].ver > 0 /\ row.version = loc[p].ver) =>
            row.status = "COMPENSATING" /\ Owed(stack) \subseteq loc[p].todo
    BY <1>2 DEF IInv, FenceAt
  <2>3. label(i) = "fallback" => loc[p].todo \ {i} = {}
    BY DEF AfterMark
  <2>4. label(i) \in {"fallback", "unwind"}
    BY DEF AfterMark
  <2> HIDE DEF label
  <2> QED BY <1>4, <1>5, <2>1, <2>2, <2>3, <2>4 DEF FenceAt
<1>9. RowOK(row', stack')
    BY <1>4 DEF IInv, RowOK
<1>10. \A q \in Procs \ {p} :
           VersionAt(row', loc[q]) /\ FenceAt(row', stack', pc[q], loc[q])
    BY <1>4 DEF IInv, FenceAt
<1>11. BudgetOK' /\ started' /\ label(i) \in Labels
    BY <1>2, SameBudget, UnderWay DEF MarkExecuted, IInv, Labels, AfterMark
<1> QED BY <1>1, <1>4, <1>5, <1>6, <1>7, <1>8, <1>9, <1>10, <1>11, Frame

\* What a sweep or a cleanup keeps of the item it takes.
LEMMA ItemLocals ==
    ASSUME IInv, Exists,
           NEW l, l = Item \/ l = CompensateItem
    PROVE  /\ l \in Locals /\ l.ver = row.version /\ l.ctx = row.ctx
           /\ l.job = "cleanup" /\ l.pend = 0 /\ l.left = 0 /\ ~l.busy
           /\ l = CompensateItem => l.comp
<1>1. row.version \in Nat /\ row.ctx \in SUBSET Calls
    BY DEF IInv, Rows
<1>2. /\ Item \in Locals /\ Item.ver = row.version /\ Item.ctx = row.ctx
      /\ Item.job = "cleanup" /\ Item.pend = 0 /\ Item.left = 0
      /\ ~Item.busy
  <2>1. /\ NoLocals \in Locals /\ NoLocals.pend = 0 /\ NoLocals.left = 0
        /\ ~NoLocals.busy
    BY Initials DEF NoLocals
  <2> HIDE DEF NoLocals
  <2> QED BY <1>1, <2>1 DEF Item, Locals
<1> HIDE DEF Item
<1>3. /\ CompensateItem \in Locals /\ CompensateItem.ver = Item.ver
      /\ CompensateItem.ctx = Item.ctx /\ CompensateItem.job = Item.job
      /\ CompensateItem.pend = Item.pend /\ CompensateItem.left = Item.left
      /\ CompensateItem.busy = Item.busy /\ CompensateItem.comp
    BY <1>2 DEF CompensateItem, Locals
<1> QED BY <1>2, <1>3

\* Taking an item: the ways a sweep or a cleanup begins on it.
LEMMA TakeItem ==
    ASSUME IInv, NEW p \in Procs, Exists, UNCHANGED storeVars, BudgetOK',
           started',
           \/ Goto(p, "delete", NoLocals)
           \/ Goto(p, "markFail", Item)
           \/ Goto(p, "forceUnlock", Item)
           \/ Goto(p, "reread", Item)
           \/ Goto(p, "compensating", CompensateItem)
    PROVE  IInv'
<1>1. row \in Rows /\ row.version \in Nat /\ row.version > 0
    BY DEF IInv, Rows, Exists
<1>2. CASE Goto(p, "delete", NoLocals)
  <2>1. "delete" \in Labels
    BY DEF Labels
  <2> QED BY <1>1, <1>2, <2>1, Initials, IdleLocals, LocalFrame
<1>3. ASSUME NEW label \in {"markFail", "forceUnlock", "reread"},
             Goto(p, label, Item)
      PROVE  IInv'
  <2>1. /\ Item \in Locals /\ Item.ver = row.version
        /\ Item.job = "cleanup" /\ Item.pend = 0 /\ Item.left = 0
    BY ItemLocals
  <2>2. LocalsAt(label, Item)
    BY <1>1, <2>1, ActorAssumption DEF LocalsAt
  <2>3. VersionAt(row, Item) /\ FenceAt(row, stack, label, Item)
    BY <1>1, <2>1 DEF VersionAt, FenceAt
  <2>4. label \in Labels
    BY DEF Labels
  <2> QED BY <1>3, <2>1, <2>2, <2>3, <2>4, LocalFrame
<1>4. CASE Goto(p, "compensating", CompensateItem)
  <2> DEFINE l == CompensateItem
  <2>1. /\ l \in Locals /\ l.ver = row.version /\ l.job = "cleanup"
        /\ l.pend = 0 /\ l.left = 0 /\ l.comp
    BY ItemLocals
  <2> HIDE DEF l
  <2>2. LocalsAt("compensating", l)
    BY <1>1, <2>1, ActorAssumption DEF LocalsAt
  <2>3. VersionAt(row, l) /\ FenceAt(row, stack, "compensating", l)
    BY <1>1, <2>1 DEF VersionAt, FenceAt
  <2>4. "compensating" \in Labels /\ Goto(p, "compensating", l)
    BY <1>4 DEF Labels, l
  <2> QED BY <2>1, <2>2, <2>3, <2>4, LocalFrame
<1> QED BY <1>2, <1>3, <1>4

\* A row exists only for a started transaction.
LEMMA ExistsStarted == ASSUME IInv, Exists PROVE started
BY DEF IInv, NothingBeforeStart, BudgetOK, Exists

LEMMA SweepTakeStep ==
    ASSUME IInv, NEW p \in Procs, SweepTake(p) PROVE IInv'
<1>1. Exists /\ UNCHANGED storeVars /\ started' = started
    BY DEF SweepTake, storeVars
<1>2. sweeps' \in 0..MaxSweeps
    BY ActorAssumption DEF SweepTake, IInv, BudgetOK
<1>3. BudgetOK' /\ started'
    BY <1>1, <1>2, ExistsStarted DEF SweepTake, IInv, BudgetOK
<1> QED BY <1>1, <1>3, TakeItem DEF SweepTake

LEMMA RetentionTakeStep ==
    ASSUME IInv, NEW p \in Procs, RetentionTake(p) PROVE IInv'
<1>1. Exists /\ UNCHANGED storeVars /\ started' = started
    BY DEF RetentionTake, storeVars
<1>2. sweeps' \in 0..MaxSweeps
    BY ActorAssumption DEF RetentionTake, IInv, BudgetOK
<1>3. BudgetOK' /\ started'
    BY <1>1, <1>2, ExistsStarted DEF RetentionTake, IInv, BudgetOK
<1> QED BY <1>1, <1>3, TakeItem DEF RetentionTake

LEMMA CleanUpTakeStep ==
    ASSUME IInv, NEW p \in Procs, CleanUpTake(p) PROVE IInv'
<1>1. Exists /\ UNCHANGED storeVars /\ started' = started
    BY DEF CleanUpTake, storeVars
<1>2. cleanups' \in 0..MaxCleanUps
    BY ActorAssumption DEF CleanUpTake, IInv, BudgetOK
<1>3. BudgetOK' /\ started'
    BY <1>1, <1>2, ExistsStarted DEF CleanUpTake, IInv, BudgetOK
<1> QED BY <1>1, <1>3, TakeItem DEF CleanUpTake

LEMMA DeleteStep ==
    ASSUME IInv, NEW p \in Procs, Delete(p) PROVE IInv'
<1>1. /\ pc[p] = "delete" /\ Goto(p, "idle", NoLocals) /\ "idle" \in Labels
      /\ row' = NoRow /\ stack' = <<>> /\ stack' \in Seq(Entries)
    BY DEF Delete, Return, DeleteTransactions, Labels
<1>2. /\ row' \in Rows /\ row'.version = 0 /\ row'.status = "IDLE"
      /\ row'.step = NoStep
    BY <1>1, Initials DEF NoRow
<1>3. RowOK(row', stack')
    BY <1>2 DEF RowOK
<1>4. \A q \in Procs :
          VersionAt(row', loc[q]) /\ FenceAt(row', stack', pc[q], loc[q])
  <2>1. \A q \in Procs : loc[q].ver \in Nat
    BY DEF IInv, Locals
  <2> QED BY <1>2, <2>1 DEF VersionAt, FenceAt
<1>5. BudgetOK' /\ started'
    BY <1>1, SameBudget, UnderWay DEF Delete, IInv
<1> QED BY <1>1, <1>2, <1>3, <1>4, <1>5, Initials, IdleLocals, Frame

LEMMA ContinueRereadStep ==
    ASSUME IInv, NEW p \in Procs, ContinueReread(p) PROVE IInv'
<1>1. BudgetOK' /\ started' /\ UNCHANGED storeVars
  <2>1. /\ pc[p] = "reread" /\ UNCHANGED <<budget, outcomes>>
        /\ UNCHANGED storeVars
    BY DEF ContinueReread, storeVars
  <2>2. BudgetOK' /\ started' = started
    BY <2>1, SameBudget DEF IInv
  <2> QED BY <2>1, <2>2, UnderWay
<1>2. CASE Return(p)
    BY <1>1, <1>2, ReturnFrame
<1>3. CASE Exists /\ \E n \in Matches(row.state) :
               Goto(p, "unlock", [Item EXCEPT !.call = row.step, !.left = n])
  <2> DEFINE l(n) == [Item EXCEPT !.call = row.step, !.left = n]
  <2>1. PICK n \in Matches(row.state) : Goto(p, "unlock", l(n))
    BY <1>3
  <2>2. n \in 0..MaxBranches /\ row.step \in Calls \cup {NoStep}
    BY <2>1, ActorAssumption DEF Matches, IInv, Rows
  <2>3. /\ row \in Rows /\ row.version \in Nat /\ row.version > 0
    BY <1>3 DEF IInv, Rows, Exists
  <2>4. /\ Item \in Locals /\ Item.ver = row.version /\ Item.ctx = row.ctx
        /\ Item.job = "cleanup" /\ Item.pend = 0 /\ ~Item.busy
    BY <1>3, ItemLocals
  <2>5. /\ l(n) \in Locals /\ l(n).ver = Item.ver /\ l(n).ctx = Item.ctx
        /\ l(n).job = Item.job /\ l(n).pend = Item.pend /\ l(n).left = n
        /\ l(n).busy = Item.busy
    BY <2>2, <2>4 DEF Locals
  <2> HIDE DEF l
  <2>6. LocalsAt("unlock", l(n))
    <3>1. l(n).ver > 0 /\ l(n).pend + l(n).left <= MaxBranches
      BY <2>2, <2>3, <2>4, <2>5
    <3> QED BY <2>4, <2>5, <3>1 DEF LocalsAt
  <2>7. VersionAt(row, l(n)) /\ FenceAt(row, stack, "unlock", l(n))
    BY <2>3, <2>4, <2>5 DEF VersionAt, FenceAt
  <2>8. "unlock" \in Labels
    BY DEF Labels
  <2> QED BY <1>1, <2>1, <2>5, <2>6, <2>7, <2>8, LocalFrame
<1> QED BY <1>2, <1>3 DEF ContinueReread

LEMMA CrashStep ==
    ASSUME IInv, NEW p \in Procs, Crash(p) PROVE IInv'
<1>1. crashes' \in 0..MaxCrashes
    BY ActorAssumption DEF Crash, IInv, BudgetOK
<1>2. BudgetOK' /\ started'
    BY <1>1, UnderWay DEF Crash, IInv, BudgetOK
<1> QED BY <1>2, ReturnFrame DEF Crash, storeVars

LEMMA CompensatorThrowsStep ==
    ASSUME IInv, NEW p \in Procs, CompensatorThrows(p) PROVE IInv'
<1>1. throws' \in 0..MaxThrows
    BY ActorAssumption DEF CompensatorThrows, IInv, BudgetOK
<1>2. BudgetOK' /\ started'
    BY <1>1, UnderWay DEF CompensatorThrows, IInv, BudgetOK
<1> QED BY <1>2, ReturnFrame DEF CompensatorThrows, storeVars

LEMMA TimePassesStep ==
    ASSUME IInv, TimePasses PROVE IInv'
<1>1. /\ row' \in Rows /\ row'.version = row.version
      /\ row'.status = row.status /\ row'.step = row.step
      /\ row'.ctx = row.ctx
  <2>1. row \in Rows /\ row' = [row EXCEPT !.stale = TRUE]
    BY DEF TimePasses, Elapse, IInv
  <2> QED BY <2>1 DEF Rows
<1>2. /\ stack' = stack /\ pc' = pc /\ loc' = loc
    BY DEF TimePasses, Elapse
<1>3. BudgetOK' /\ started' = started
    BY SameBudget DEF TimePasses, IInv
<1>4. RowOK(row', stack')
    BY <1>1, <1>2 DEF IInv, RowOK
<1>5. NothingBeforeStart'
    BY <1>1, <1>2, <1>3 DEF IInv, NothingBeforeStart
<1>6. ASSUME NEW p \in Procs
      PROVE  /\ LocalsAt(pc'[p], loc'[p]) /\ VersionAt(row', loc'[p])
             /\ FenceAt(row', stack', pc'[p], loc'[p])
    BY <1>1, <1>2 DEF IInv, VersionAt, FenceAt
<1> QED BY <1>1, <1>2, <1>3, <1>4, <1>5, <1>6 DEF IInv

-----------------------------------------------------------------------------
(* The invariant is inductive. *)

LEMMA NextIInv == IInv /\ [Next]_vars => IInv'
<1> SUFFICES ASSUME IInv, [Next]_vars PROVE IInv'
    OBVIOUS
<1>1. CASE UNCHANGED vars
    BY <1>1 DEF vars, IInv, BudgetOK, NothingBeforeStart, RowOK, VersionAt,
                FenceAt, LocalsAt, Owed
<1>2. CASE TimePasses
    BY <1>2, TimePassesStep
<1>3. ASSUME NEW p \in Procs, Step(p) PROVE IInv'
    BY <1>3, StaleVersionStep, AcquireLeaseStep, JoinLeaseStep,
       BranchSucceedsStep, BranchFailsStep, CommitStep, PersistPendingStep,
       BeginCompensationStep, SettleFailureStep, ReadStackStep,
       RunCompensatorStep, MarkExecutedStep, DeleteStep, MarkFailStep,
       ForceUnlockStep, ContinueRereadStep, ContinueUnlockStep
       DEF Step
<1>4. ASSUME NEW p \in Procs,
             \/ StartTransaction(p) \/ Transition(p) \/ SweepTake(p)
             \/ RetentionTake(p) \/ CleanUpTake(p)
             \/ Crash(p) \/ CompensatorThrows(p)
      PROVE  IInv'
    BY <1>4, StartTransactionStep, TransitionStep, SweepTakeStep,
       RetentionTakeStep, CleanUpTakeStep, CrashStep, CompensatorThrowsStep
<1> QED BY <1>1, <1>2, <1>3, <1>4 DEF Next

\* The inductive invariant holds of every reachable state, whatever the
\* processes, the machine and the bounds.
THEOREM Inductive == Spec => []IInv
BY InitIInv, NextIInv, PTL DEF Spec

-----------------------------------------------------------------------------
(* What follows. *)

\* Every variable keeps its type: versions are natural numbers, a process
\* never counts more branches than matched, and every row a handler writes
\* is a row of the schema.
THEOREM TypeCorrect == Spec => []TypeOK
<1>1. IInv => TypeOK
    BY DEF IInv, BudgetOK, TypeOK
<1> QED BY <1>1, Inductive, PTL

\* unwindCompensationStack reads the stack once and marks entries without a
\* version, while other processes push, mark and delete: still, a row that
\* says COMPENSATED owes nothing.
THEOREM CompensationComplete == Spec => []CompensatedMeansUnwound
<1>1. IInv => CompensatedMeansUnwound
    BY DEF IInv, RowOK, CompensatedMeansUnwound, UncompensatedStack, Owed
<1> QED BY <1>1, Inductive, PTL

\* Whatever crashes, an IN_FLIGHT row tells the sweep which step to replay
\* and a settled row tells it of none.
THEOREM AlwaysRecoverable == Spec => []RecoverableStep
<1>1. IInv => RecoverableStep
    BY DEF IInv, RowOK, RecoverableStep
<1> QED BY <1>1, Inductive, PTL

\* Handlers and compensators run under the row's version only behind a
\* durable mark that the sweep looks for.
THEOREM WorkAlwaysVisible == Spec => []WorkIsVisible
<1>1. ASSUME IInv, NEW p \in Procs, VersionMatches(loc[p].ver)
      PROVE  /\ pc[p] \in {"run", "commit", "persist"} =>
                    row.status = "IN_FLIGHT"
             /\ pc[p] \in {"readStack", "unwind", "mark"} =>
                    row.status = "COMPENSATING"
    BY <1>1 DEF IInv, LocalsAt, FenceAt, VersionMatches
<1>2. IInv => WorkIsVisible
    BY <1>1 DEF WorkIsVisible
<1> QED BY <1>2, Inductive, PTL

-----------------------------------------------------------------------------
(* No update is lost. *)

\* A versioned update that writes the context it finds keeps it.
LEMMA UpdateKeepsContext ==
    ASSUME IInv, NEW v, NEW r \in Rows, NEW es \in Seq(Entries),
           UpdateTransaction(v, r, es), row.ctx \subseteq r.ctx
    PROVE  row.ctx \subseteq row'.ctx
BY UpdateEffect

\* The updates of a step under way that write no context of their own.
LEMMA PatchKeepsContext ==
    ASSUME IInv, NEW p \in Procs,
           \/ AcquireLease(p) \/ PersistPending(p) \/ BeginCompensation(p)
           \/ MarkFail(p) \/ ForceUnlock(p) \/ ContinueUnlock(p)
    PROVE  row.ctx \subseteq row'.ctx
<1>1. row \in Rows /\ row.version \in Nat /\ <<>> \in Seq(Entries)
    BY DEF IInv, Rows
<1>2. CASE AcquireLease(p)
  <2> DEFINE r == [row EXCEPT !.status = "IN_FLIGHT", !.step = loc[p].call]
  <2>1. loc[p].call \in Calls \cup {NoStep}
    BY DEF IInv, Locals
  <2>2. r \in Rows /\ r.ctx = row.ctx
    BY <1>1, <2>1 DEF Rows, Statuses, Unsettled
  <2>3. UpdateTransaction(loc[p].ver, r, <<>>)
    BY <1>2 DEF AcquireLease, Update
  <2> HIDE DEF r
  <2> QED BY <1>1, <2>2, <2>3, UpdateKeepsContext
<1>3. CASE PersistPending(p)
  <2>1. row' = [row EXCEPT !.version = row.version + 1, !.stale = FALSE]
    BY <1>3 DEF PersistPending, Update, UpdateTransaction
  <2> QED BY <1>1, <2>1, UpdatedRow
<1>4. CASE BeginCompensation(p)
  <2> DEFINE r == [row EXCEPT !.status = "COMPENSATING"]
  <2>1. r \in Rows /\ r.ctx = row.ctx
    BY <1>1 DEF Rows, Statuses, Unsettled
  <2>2. UpdateTransaction(loc[p].ver, r, <<>>)
    BY <1>4 DEF BeginCompensation, Update
  <2> HIDE DEF r
  <2> QED BY <1>1, <2>1, <2>2, UpdateKeepsContext
<1>5. CASE MarkFail(p)
  <2> DEFINE r == [row EXCEPT !.state = ErrorState, !.status = "FAILED",
                              !.step = NoStep]
  <2>1. r \in Rows /\ r.ctx = row.ctx
    BY <1>1, StoreAssumption DEF Rows, Statuses, Terminal
  <2>2. UpdateTransaction(loc[p].ver, r, <<>>)
    BY <1>5 DEF MarkFail, UpdateAndReturn
  <2> HIDE DEF r
  <2> QED BY <1>1, <2>1, <2>2, UpdateKeepsContext
<1>6. CASE ForceUnlock(p) \/ ContinueUnlock(p)
  <2> DEFINE r == [row EXCEPT !.status = "IDLE", !.step = NoStep]
  <2>1. r \in Rows /\ r.ctx = row.ctx
    BY UnlockedRow
  <2>2. UpdateTransaction(loc[p].ver, r, <<>>)
    BY <1>6 DEF ForceUnlock, ContinueUnlock, Update, UpdateAndReturn
  <2> HIDE DEF r
  <2> QED BY <1>1, <2>1, <2>2, UpdateKeepsContext
<1> QED BY <1>2, <1>3, <1>4, <1>5, <1>6

\* The updates that write the working context.
LEMMA SettleKeepsContext ==
    ASSUME IInv, NEW p \in Procs, Commit(p) \/ SettleFailure(p)
    PROVE  row.ctx \subseteq row'.ctx \/ row'.status = "COMPENSATED"
<1>1. CASE Commit(p)
  <2> DEFINE es == NewEntries(loc[p].call, loc[p].pend)
  <2>1. pc[p] = "commit" /\ loc[p].pend \in Nat /\ loc[p].call \in Calls
    <3>1. pc[p] = "commit" /\ loc[p].pend \in Nat
      BY <1>1 DEF Commit, IInv, Locals
    <3> QED BY <3>1 DEF IInv, LocalsAt
  <2>2. es \in Seq(Entries)
    BY <2>1, NewEntriesType
  <2>3. PICK s \in States :
            UpdateTransaction(loc[p].ver, Settle(p, s, SettledStatus(s)), es)
    BY <1>1 DEF Commit, UpdateAndReturn
  <2>4. /\ Settle(p, s, SettledStatus(s)) \in Rows
        /\ Settle(p, s, SettledStatus(s)).ctx = loc[p].ctx
    BY SettledInStatuses, SettledRow
  <2>5. row.version = loc[p].ver
    BY <2>3 DEF UpdateTransaction, VersionMatches
  <2>6. row.ctx \subseteq loc[p].ctx
    BY <2>1, <2>5 DEF IInv, FenceAt, LocalsAt
  <2> QED BY <2>2, <2>3, <2>4, <2>6, UpdateKeepsContext
<1>2. CASE SettleFailure(p)
  <2> DEFINE t(s) == IF loc[p].comp THEN "COMPENSATED" ELSE SettledStatus(s)
  <2>1. PICK s \in IF loc[p].job = "transition" THEN States ELSE {ErrorState} :
            UpdateTransaction(loc[p].ver, Settle(p, s, t(s)), <<>>)
    BY <1>2 DEF SettleFailure, UpdateAndReturn
  <2>2. pc[p] = "fallback" /\ s \in States /\ <<>> \in Seq(Entries)
    BY <1>2, <2>1, StoreAssumption DEF SettleFailure
  <2>3. t(s) \in Statuses
    BY SettledInStatuses DEF Statuses, Unsettled, Terminal
  <2>4. /\ Settle(p, s, t(s)) \in Rows /\ Settle(p, s, t(s)).status = t(s)
        /\ Settle(p, s, t(s)).ctx = loc[p].ctx
    BY <2>2, <2>3, SettledRow
  <2>5. /\ row.version = loc[p].ver /\ row'.status = t(s)
        /\ row'.ctx = loc[p].ctx
    BY <2>1, <2>2, <2>4, UpdateEffect
  <2>6. ~loc[p].comp => row.ctx \subseteq loc[p].ctx
    BY <2>2, <2>5 DEF IInv, FenceAt, LocalsAt
  <2> QED BY <2>5, <2>6
<1> QED BY <1>1, <1>2

\* The actions that leave the row alone.
LEMMA RowUntouched ==
    ASSUME NEW p \in Procs,
           \/ Transition(p) \/ SweepTake(p) \/ RetentionTake(p)
           \/ CleanUpTake(p) \/ Crash(p) \/ CompensatorThrows(p)
           \/ StaleVersion(p) \/ JoinLease(p) \/ BranchSucceeds(p)
           \/ BranchFails(p) \/ ReadStack(p) \/ RunCompensator(p)
           \/ MarkExecuted(p) \/ ContinueReread(p)
    PROVE  row' = row
BY DEF Transition, SweepTake, RetentionTake, CleanUpTake, Crash,
       CompensatorThrows, StaleVersion, JoinLease, BranchSucceeds,
       BranchFails, ReadStack, RunCompensator, MarkExecuted,
       ContinueReread, MarkCompensationExecuted

\* Every context a process writes was computed from one it read several
\* awaits earlier; no interleaving makes such a write drop a call that
\* another process has committed in between.
THEOREM NoUpdateLost == Spec => NoLostUpdate
<1> DEFINE Kept == \/ row.ctx \subseteq row'.ctx
                   \/ row'.status = "COMPENSATED"
                   \/ row'.version = 0
<1>1. ASSUME IInv, [Next]_vars PROVE [Kept]_vars
  <2>1. CASE UNCHANGED vars
    BY <2>1
  <2>2. CASE TimePasses
    <3>1. row \in Rows /\ row' = [row EXCEPT !.stale = TRUE]
      BY <1>1, <2>2 DEF TimePasses, Elapse, IInv
    <3> QED BY <3>1 DEF Rows
  <2>3. ASSUME NEW p \in Procs, StartTransaction(p) PROVE Kept
    <3>1. row.ctx = {}
      BY <1>1, <2>3 DEF StartTransaction, IInv, NothingBeforeStart
    <3> QED BY <3>1
  <2>4. ASSUME NEW p \in Procs, Delete(p) PROVE Kept
    BY <2>4 DEF Delete, DeleteTransactions, NoRow
  <2>5. ASSUME NEW p \in Procs, Step(p) PROVE Kept
    BY <1>1, <2>4, <2>5, PatchKeepsContext, SettleKeepsContext, RowUntouched
       DEF Step
  <2>6. ASSUME NEW p \in Procs,
               \/ Transition(p) \/ SweepTake(p) \/ RetentionTake(p)
               \/ CleanUpTake(p) \/ Crash(p) \/ CompensatorThrows(p)
        PROVE  Kept
    BY <2>6, RowUntouched
  <2> QED BY <1>1, <2>1, <2>2, <2>3, <2>5, <2>6 DEF Next
<1>2. IInv /\ [Next]_vars => [Kept]_vars
    BY <1>1
<1> QED BY <1>2, Inductive, PTL DEF Spec, NoLostUpdate

=============================================================================
