--------------------------- MODULE LifecycleProofs --------------------------
(***************************************************************************)
(* Proofs that a call is committed at most once, and that SagaActor        *)
(* implements TransactionLifecycle.                                        *)
(*                                                                         *)
(* IInv of SagaActorProofs says what a process knows of the row it holds   *)
(* the version of.  Two things are added here: why it may go on as it does *)
(* (GroundedAt), and that a call still to be settled has not been          *)
(* (RowBacked).  As there, an update makes GroundedAt vacuous for all      *)
(* other processes.                                                        *)
(***************************************************************************)
EXTENDS SagaActorProofs, SequenceTheorems

\* Why a process at a label, with locals l, may go on, as long as the version
\* it holds is that of the row r: the state it read still accepts its event,
\* the status its failure branch settles is still there, and its call has not
\* settled.
GroundedAt(r, outs, label, l) ==
    (l.ver > 0 /\ r.version = l.ver) =>
        /\ label = "before" => r.state \in Accepting
        /\ label = "unlock" /\ l.left > 0 => r.state \in Accepting
        /\ label = "fallback" =>
               r.status = IF l.comp THEN "COMPENSATING" ELSE "IN_FLIGHT"
        /\ l.call # NoStep => outs[l.call] = 0

\* What holds of the row r and the stack st when n calls have been made: the
\* active step is a call that has not settled, and nothing is left of a row
\* that is gone.
RowBacked(r, st, n, outs) ==
    /\ r.version = 0 => r = NoRow /\ st = <<>>
    /\ r.step <= n
    /\ r.step # NoStep => outs[r.step] = 0
    /\ \A c \in Calls : outs[c] <= 1 /\ (outs[c] > 0 => c <= n)

LInv ==
    /\ RowBacked(row, stack, calls, outcomes)
    /\ \A p \in Procs :
           /\ loc[p].call <= calls
           /\ GroundedAt(row, outcomes, pc[p], loc[p])

-----------------------------------------------------------------------------
(* Frames. *)

LEMMA CallTypes ==
    ASSUME IInv
    PROVE  /\ calls \in Nat
           /\ row.step \in Nat /\ row.version \in Nat
           /\ \A p \in Procs : loc[p].call \in Nat /\ loc[p].ver \in Nat
           /\ outcomes \in [Calls -> Nat]
<1>1. Calls \subseteq Nat /\ NoStep \in Nat
    BY StoreAssumption DEF Calls, NoStep
<1>2. calls \in Nat /\ outcomes \in [Calls -> Nat]
    BY StoreAssumption DEF IInv, BudgetOK
<1>3. row.step \in Nat /\ row.version \in Nat
    BY <1>1 DEF IInv, Rows
<1>4. \A p \in Procs : loc[p].call \in Nat /\ loc[p].ver \in Nat
    BY <1>1 DEF IInv, Locals
<1> QED BY <1>2, <1>3, <1>4

LEMMA NoGround ==
    \A r, outs, label : r \in Rows => GroundedAt(r, outs, label, NoLocals)
BY IdleLocals DEF GroundedAt, Rows

\* What a step that moves only process p has to show.
LEMMA GroundFrame ==
    ASSUME IInv, LInv, NEW p \in Procs, NEW label, NEW l, Goto(p, label, l),
           calls' \in Nat, calls <= calls', l.call <= calls',
           RowBacked(row', stack', calls', outcomes'),
           GroundedAt(row', outcomes', label, l),
           \/ row' = row /\ outcomes' = outcomes
           \/ row.version > 0 /\ row'.version \in {0, row.version + 1}
    PROVE  LInv'
<1>1. ASSUME NEW q \in Procs
      PROVE  loc'[q].call <= calls' /\ GroundedAt(row', outcomes', pc'[q], loc'[q])
  <2>1. CASE q = p
    BY <2>1 DEF Goto, IInv
  <2>2. CASE q # p
    <3>1. pc'[q] = pc[q] /\ loc'[q] = loc[q]
      BY <2>2 DEF Goto, IInv
    <3>2. loc[q].call <= calls' /\ loc[q].ver \in Nat /\ row.version \in Nat
      BY CallTypes DEF LInv
    <3>3. CASE row' = row /\ outcomes' = outcomes
      BY <3>1, <3>2, <3>3 DEF LInv
    <3>4. CASE row.version > 0 /\ row'.version \in {0, row.version + 1}
      <4>1. loc[q].ver <= row.version
        BY <3>4 DEF IInv, VersionAt
      <4> QED BY <3>1, <3>2, <3>4, <4>1 DEF GroundedAt
    <3> QED BY <3>3, <3>4
  <2> QED BY <2>1, <2>2
<1> QED BY <1>1 DEF LInv

\* A step that leaves the row, the calls and the outcomes alone.
LEMMA LocalGround ==
    ASSUME IInv, LInv, NEW p \in Procs, NEW label, NEW l, Goto(p, label, l),
           row' = row, outcomes' = outcomes, calls' = calls,
           row.version = 0 => stack' = stack, l.call <= calls,
           GroundedAt(row, outcomes, label, l)
    PROVE  LInv'
<1>1. RowBacked(row', stack', calls', outcomes')
    BY DEF LInv, RowBacked
<1> QED BY <1>1, CallTypes, GroundFrame

LEMMA ReturnGround ==
    ASSUME IInv, LInv, NEW p \in Procs, Return(p), row' = row, stack' = stack,
           outcomes' = outcomes, calls' = calls
    PROVE  LInv'
<1>1. NoLocals.call <= calls
    BY CallTypes DEF NoLocals, NoStep
<1>2. GroundedAt(row, outcomes, "idle", NoLocals)
    BY NoGround DEF IInv
<1> QED BY <1>1, <1>2, LocalGround DEF Return

\* A versioned update that counts no outcome.
LEMMA UpdateGround ==
    ASSUME IInv, LInv, NEW p \in Procs, NEW label, NEW l, Goto(p, label, l),
           pc[p] \notin {"idle", "delete"},
           NEW r \in Rows, NEW es \in Seq(Entries),
           UpdateTransaction(loc[p].ver, r, es),
           outcomes' = outcomes, calls' = calls, l.call <= calls,
           r.step \in {NoStep, row.step, loc[p].call},
           l.call # NoStep => l.call = loc[p].call,
           label = "before" => r.state \in Accepting,
           label = "unlock" => l.left = 0,
           label = "fallback" =>
               r.status = IF l.comp THEN "COMPENSATING" ELSE "IN_FLIGHT"
    PROVE  LInv'
<1>1. /\ row.version = loc[p].ver /\ row'.version = row.version + 1
      /\ row'.state = r.state /\ row'.status = r.status /\ row'.step = r.step
    BY UpdateEffect
<1>2. /\ loc[p].ver > 0 /\ GroundedAt(row, outcomes, pc[p], loc[p])
      /\ loc[p].call <= calls
    BY DEF IInv, LocalsAt, LInv
<1>3. loc[p].call # NoStep => outcomes[loc[p].call] = 0
    BY <1>1, <1>2 DEF GroundedAt
<1>4. row'.step <= calls /\ (row'.step # NoStep => outcomes[row'.step] = 0)
    BY <1>1, <1>2, <1>3, CallTypes DEF LInv, RowBacked, NoStep
<1>5. RowBacked(row', stack', calls', outcomes')
    BY <1>1, <1>4, CallTypes DEF LInv, RowBacked
<1>6. GroundedAt(row', outcomes', label, l)
    BY <1>1, <1>3 DEF GroundedAt
<1> QED BY <1>1, <1>2, <1>5, <1>6, CallTypes, GroundFrame

\* The same, when the call ends there.
LEMMA UpdateReturnGround ==
    ASSUME IInv, LInv, NEW p \in Procs, pc[p] \notin {"idle", "delete"},
           NEW r \in Rows, NEW es \in Seq(Entries), UpdateAndReturn(p, r, es),
           outcomes' = outcomes, calls' = calls,
           r.step \in {NoStep, row.step, loc[p].call}
    PROVE  LInv'
<1>1. Goto(p, "idle", NoLocals) /\ UpdateTransaction(loc[p].ver, r, es)
    BY DEF UpdateAndReturn, Return
<1>2. NoLocals.call = NoStep /\ NoLocals.call <= calls
    BY CallTypes DEF NoLocals, NoStep
<1> QED BY <1>1, <1>2, UpdateGround

\* The update that settles a step, and is counted as its outcome.
LEMMA SettleGround ==
    ASSUME IInv, LInv, NEW p \in Procs, pc[p] \notin {"idle", "delete"},
           NEW r \in Rows, NEW es \in Seq(Entries), UpdateAndReturn(p, r, es),
           r.step = NoStep, CountOutcome(p), calls' = calls
    PROVE  LInv'
<1>1. Goto(p, "idle", NoLocals) /\ UpdateTransaction(loc[p].ver, r, es)
    BY DEF UpdateAndReturn, Return
<1>2. /\ row.version = loc[p].ver /\ row'.version = row.version + 1
      /\ row'.step = NoStep /\ row' \in Rows
    BY <1>1, UpdateEffect
<1>3. /\ loc[p].ver > 0 /\ GroundedAt(row, outcomes, pc[p], loc[p])
      /\ loc[p].call <= calls
    BY DEF IInv, LocalsAt, LInv
<1>4. ASSUME NEW c \in Calls
      PROVE  outcomes'[c] <= 1 /\ (outcomes'[c] > 0 => c <= calls)
  <2>1. outcomes[c] \in Nat /\ outcomes[c] <= 1 /\ (outcomes[c] > 0 => c <= calls)
    BY CallTypes DEF LInv, RowBacked
  <2>2. CASE loc[p].job = "transition" /\ c = loc[p].call
    <3>1. outcomes[c] = 0
      BY <1>2, <1>3, <2>2 DEF GroundedAt, Calls, NoStep
    <3>2. outcomes'[c] = 1
      BY <2>2, <3>1, CallTypes DEF CountOutcome
    <3> QED BY <1>3, <2>2, <3>2
  <2>3. CASE ~(loc[p].job = "transition" /\ c = loc[p].call)
    <3>1. outcomes'[c] = outcomes[c]
      BY <2>3, CallTypes DEF CountOutcome
    <3> QED BY <2>1, <3>1
  <2> QED BY <2>2, <2>3
<1>5. RowBacked(row', stack', calls', outcomes')
    BY <1>2, <1>4, CallTypes DEF RowBacked, NoStep
<1>6. GroundedAt(row', outcomes', "idle", NoLocals) /\ NoLocals.call <= calls
    BY <1>2, NoGround, CallTypes DEF NoLocals, NoStep
<1> QED BY <1>1, <1>2, <1>3, <1>5, <1>6, CallTypes, GroundFrame

-----------------------------------------------------------------------------
(* The actions. *)

LEMMA TransitionGround ==
    ASSUME IInv, LInv, NEW p \in Procs, Transition(p) PROVE LInv'
<1>1. PICK n \in Matches(row.state) \ {0} :
          Goto(p, "before", OnSnapshot(row, calls + 1, n))
    BY DEF Transition
<1> DEFINE l == OnSnapshot(row, calls + 1, n)
<1>2. row.state \in Accepting
    BY <1>1 DEF Matches
<1>3. /\ calls' = calls + 1 /\ calls + 1 \in Calls
      /\ row' = row /\ stack' = stack /\ outcomes' = outcomes
    BY CallTypes, StoreAssumption DEF Transition, Calls
<1>4. outcomes[calls + 1] = 0
    BY <1>3, CallTypes DEF LInv, RowBacked
<1>5. l.call = calls + 1
    BY DEF OnSnapshot
<1> HIDE DEF l
<1>6. GroundedAt(row', outcomes', "before", l)
    BY <1>2, <1>3, <1>4, <1>5 DEF GroundedAt
<1>7. RowBacked(row', stack', calls', outcomes')
    BY <1>3, CallTypes DEF LInv, RowBacked, Calls
<1> QED BY <1>1, <1>3, <1>5, <1>6, <1>7, CallTypes, GroundFrame DEF l

\* Taking an item claims nothing of the row.
LEMMA TakeGround ==
    ASSUME IInv, LInv, NEW p \in Procs,
           SweepTake(p) \/ RetentionTake(p) \/ CleanUpTake(p)
    PROVE  LInv'
<1>1. /\ row' = row /\ stack' = stack /\ outcomes' = outcomes /\ calls' = calls
      /\ Exists
    BY DEF SweepTake, RetentionTake, CleanUpTake
<1>2. PICK label \in {"delete", "markFail", "forceUnlock", "reread", "compensating"},
           l \in {NoLocals, Item, CompensateItem} : Goto(p, label, l)
    BY DEF SweepTake, RetentionTake, CleanUpTake
<1>3. l.call = NoStep
  <2>1. NoLocals.call = NoStep
    BY DEF NoLocals
  <2>2. Item.call = NoStep
    BY DEF Item, NoLocals
  <2>3. CompensateItem.call = NoStep
    BY DEF CompensateItem, Item, NoLocals
  <2> QED BY <1>2, <2>1, <2>2, <2>3
<1>4. GroundedAt(row, outcomes, label, l) /\ l.call <= calls
    BY <1>3, CallTypes DEF GroundedAt, NoStep
<1> QED BY <1>1, <1>2, <1>4, LocalGround

LEMMA StartTransactionGround ==
    ASSUME IInv, LInv, NEW p \in Procs, StartTransaction(p) PROVE LInv'
<1>1. /\ row' = [NoRow EXCEPT !.version = 1,
                              !.status = SettledStatus(InitialState)]
      /\ pc' = pc /\ loc' = loc /\ calls' = calls /\ outcomes' = outcomes
    BY DEF StartTransaction, CreateTransaction
<1>2. row'.version = 1 /\ row'.step = NoStep
    BY <1>1 DEF NoRow
<1>3. \A q \in Procs : loc[q].ver = 0
    BY DEF StartTransaction, IInv, NothingBeforeStart, LocalsAt
<1>4. RowBacked(row', stack', calls', outcomes')
    BY <1>1, <1>2, CallTypes DEF LInv, RowBacked, NoStep
<1> QED BY <1>1, <1>3, <1>4 DEF LInv, GroundedAt

LEMMA DeleteGround ==
    ASSUME IInv, LInv, NEW p \in Procs, Delete(p) PROVE LInv'
<1>1. /\ row' = NoRow /\ stack' = <<>> /\ calls' = calls /\ outcomes' = outcomes
      /\ Goto(p, "idle", NoLocals)
    BY DEF Delete, DeleteTransactions, Return, budget
<1>2. NoRow.version = 0 /\ NoRow.step = NoStep /\ NoLocals.call = NoStep
    BY DEF NoRow, NoLocals
<1>3. RowBacked(row', stack', calls', outcomes')
    BY <1>1, <1>2, CallTypes DEF LInv, RowBacked, NoStep
<1>4. row' = row \/ row.version > 0
    BY <1>1, CallTypes DEF LInv, RowBacked
<1>5. GroundedAt(row', outcomes', "idle", NoLocals)
    BY <1>1, Initials, NoGround
<1> QED BY <1>1, <1>2, <1>3, <1>4, <1>5, CallTypes, GroundFrame DEF NoStep

LEMMA ContinueRereadGround ==
    ASSUME IInv, LInv, NEW p \in Procs, ContinueReread(p) PROVE LInv'
<1>1. /\ row' = row /\ stack' = stack /\ outcomes' = outcomes /\ calls' = calls
    BY DEF ContinueReread, budget
<1>2. CASE Return(p)
    BY <1>1, <1>2, ReturnGround
<1>3. CASE Exists /\ \E n \in Matches(row.state) :
               Goto(p, "unlock", [Item EXCEPT !.call = row.step, !.left = n])
  <2> DEFINE l(n) == [Item EXCEPT !.call = row.step, !.left = n]
  <2>1. PICK n \in Matches(row.state) : Goto(p, "unlock", l(n))
    BY <1>3
  <2>2. l(n).call = row.step /\ l(n).left = n
    BY DEF Item, NoLocals
  <2>3. n > 0 => row.state \in Accepting
    BY <2>1 DEF Matches
  <2> HIDE DEF l
  <2>4. GroundedAt(row, outcomes, "unlock", l(n)) /\ l(n).call <= calls
    BY <2>2, <2>3 DEF GroundedAt, LInv, RowBacked
  <2> QED BY <1>1, <2>1, <2>4, LocalGround
<1> QED BY <1>2, <1>3 DEF ContinueReread

\* The steps that change only the process's own locals keep its call and its
\* version; what they claim at the next label follows from the fence at the
\* last one.
LEMMA LocalStepsGround ==
    ASSUME IInv, LInv, NEW p \in Procs,
           \/ JoinLease(p) \/ BranchSucceeds(p) \/ BranchFails(p)
           \/ ReadStack(p) \/ RunCompensator(p) \/ MarkExecuted(p)
    PROVE  LInv'
<1>1. /\ row' = row /\ outcomes' = outcomes /\ calls' = calls
      /\ row.version = 0 => stack' = stack
  <2>1. row' = row /\ outcomes' = outcomes /\ calls' = calls
    BY DEF JoinLease, BranchSucceeds, BranchFails, ReadStack, RunCompensator,
           MarkExecuted, MarkCompensationExecuted, budget
  <2>2. CASE MarkExecuted(p)
    <3>1. row.version = 0 => stack = <<>>
      BY DEF LInv, RowBacked
    <3> QED BY <2>1, <2>2, <3>1 DEF MarkExecuted, MarkCompensationExecuted
  <2>3. (JoinLease(p) \/ BranchSucceeds(p) \/ BranchFails(p)
            \/ ReadStack(p) \/ RunCompensator(p)) => stack' = stack
    BY DEF JoinLease, BranchSucceeds, BranchFails, ReadStack, RunCompensator
  <2> QED BY <2>1, <2>2, <2>3
<1>2. /\ loc[p] \in Locals /\ LocalsAt(pc[p], loc[p])
      /\ FenceAt(row, stack, pc[p], loc[p])
      /\ GroundedAt(row, outcomes, pc[p], loc[p]) /\ loc[p].call <= calls
    BY DEF IInv, LInv
<1>3. ASSUME NEW label, NEW l \in Locals, Goto(p, label, l),
             l.call = loc[p].call, l.ver = loc[p].ver,
             label \in {"run", "commit", "persist", "compensating", "fallback",
                        "unwind", "mark"},
             label = "fallback" =>
                 \/ pc[p] = "run" /\ ~l.comp
                 \/ pc[p] \in {"readStack", "mark"} /\ l.comp = loc[p].comp
      PROVE  LInv'
  <2>1. GroundedAt(row, outcomes, label, l)
    <3> SUFFICES ASSUME l.ver > 0, row.version = l.ver
                 PROVE  /\ label = "fallback" =>
                            row.status = IF l.comp THEN "COMPENSATING" ELSE "IN_FLIGHT"
                        /\ l.call # NoStep => outcomes[l.call] = 0
      BY <1>3 DEF GroundedAt
    <3>1. l.call # NoStep => outcomes[l.call] = 0
      BY <1>2, <1>3 DEF GroundedAt
    <3>2. CASE pc[p] = "run" /\ ~l.comp
      BY <1>2, <1>3, <3>1, <3>2 DEF FenceAt
    <3>3. CASE pc[p] \in {"readStack", "mark"} /\ l.comp = loc[p].comp
      BY <1>2, <1>3, <3>1, <3>3 DEF FenceAt, LocalsAt
    <3> QED BY <1>3, <3>1, <3>2, <3>3
  <2> QED BY <1>1, <1>2, <1>3, <2>1, LocalGround
<1>4. CASE JoinLease(p)
  <2> DEFINE l == [loc[p] EXCEPT !.busy = FALSE]
  <2>1. l \in Locals /\ l.call = loc[p].call /\ l.ver = loc[p].ver
    BY <1>2 DEF Locals
  <2> QED BY <1>3, <1>4, <2>1 DEF JoinLease
<1>5. CASE BranchSucceeds(p)
  <2> DEFINE l(k) == [loc[p] EXCEPT !.left = loc[p].left - 1,
                                    !.ctx = loc[p].ctx \cup {loc[p].call},
                                    !.pend = loc[p].pend + k]
             label == IF loc[p].left = 1 THEN "commit" ELSE "run"
  <2>1. PICK k \in {0, 1} : Goto(p, label, l(k)) /\ pc[p] = "run"
    BY <1>5 DEF BranchSucceeds
  <2>2. l(k) \in Locals
    <3>1. /\ loc[p].left > 0 /\ loc[p].pend + loc[p].left <= MaxBranches
          /\ loc[p].call \in Calls
      BY <1>2, <2>1 DEF LocalsAt
    <3>2. /\ loc[p].left - 1 \in 0..MaxBranches
          /\ loc[p].pend + k \in 0..MaxBranches
          /\ loc[p].ctx \cup {loc[p].call} \in SUBSET Calls
      BY <1>2, <3>1, ActorAssumption DEF Locals
    <3> QED BY <1>2, <3>2 DEF Locals
  <2>3. l(k).call = loc[p].call /\ l(k).ver = loc[p].ver
    BY <1>2 DEF Locals
  <2>4. label \in {"run", "commit"}
    OBVIOUS
  <2> HIDE DEF l, label
  <2> QED BY <1>3, <2>1, <2>2, <2>3, <2>4
<1>6. CASE BranchFails(p)
  <2> DEFINE l(c) == [loc[p] EXCEPT !.comp = c]
             label(c) == IF l(c).pend > 0 THEN "persist" ELSE AfterPersist(l(c))
  <2>1. PICK c \in BOOLEAN : Goto(p, label(c), l(c)) /\ pc[p] = "run"
    BY <1>6 DEF BranchFails
  <2>2. l(c) \in Locals /\ l(c).call = loc[p].call /\ l(c).ver = loc[p].ver
    BY <1>2 DEF Locals
  <2>3. /\ label(c) \in {"persist", "compensating", "fallback"}
        /\ label(c) = "fallback" => ~l(c).comp
    BY DEF AfterPersist
  <2> HIDE DEF l, label
  <2> QED BY <1>3, <2>1, <2>2, <2>3
<1>7. CASE ReadStack(p)
  <2> DEFINE l == [loc[p] EXCEPT !.todo = UncompensatedStack]
             label == AfterMark(UncompensatedStack)
  <2>1. Goto(p, label, l) /\ pc[p] = "readStack"
    BY <1>7 DEF ReadStack
  <2>2. UncompensatedStack \in SUBSET Nat
    BY DEF UncompensatedStack, IInv
  <2>3. /\ l \in Locals /\ l.call = loc[p].call /\ l.ver = loc[p].ver
        /\ l.comp = loc[p].comp
    BY <1>2, <2>2 DEF Locals
  <2>4. label \in {"fallback", "unwind"}
    BY DEF AfterMark
  <2> HIDE DEF l, label
  <2> QED BY <1>3, <2>1, <2>3, <2>4
<1>8. CASE RunCompensator(p)
  <2> DEFINE l(u) == [loc[p] EXCEPT !.ctx = loc[p].ctx \ u]
  <2>1. PICK u \in SUBSET loc[p].ctx : Goto(p, "mark", l(u))
    BY <1>8 DEF RunCompensator
  <2>2. l(u) \in Locals /\ l(u).call = loc[p].call /\ l(u).ver = loc[p].ver
    BY <1>2 DEF Locals
  <2> HIDE DEF l
  <2> QED BY <1>3, <2>1, <2>2
<1>9. CASE MarkExecuted(p)
  <2> DEFINE l(i) == [loc[p] EXCEPT !.todo = loc[p].todo \ {i}]
             label(i) == AfterMark(loc[p].todo \ {i})
  <2>1. PICK i \in loc[p].todo : Goto(p, label(i), l(i)) /\ pc[p] = "mark"
    BY <1>9 DEF MarkExecuted
  <2>2. /\ l(i) \in Locals /\ l(i).call = loc[p].call /\ l(i).ver = loc[p].ver
        /\ l(i).comp = loc[p].comp
    BY <1>2 DEF Locals
  <2>3. label(i) \in {"fallback", "unwind"}
    BY DEF AfterMark
  <2> HIDE DEF l, label
  <2> QED BY <1>3, <2>1, <2>2, <2>3
<1> QED BY <1>4, <1>5, <1>6, <1>7, <1>8, <1>9

\* The versioned updates after which the process goes on.
LEMMA UpdateStepsGround ==
    ASSUME IInv, LInv, NEW p \in Procs,
           AcquireLease(p) \/ PersistPending(p) \/ BeginCompensation(p)
    PROVE  LInv'
<1>1. outcomes' = outcomes /\ calls' = calls /\ pc[p] \notin {"idle", "delete"}
    BY DEF AcquireLease, PersistPending, BeginCompensation, budget
<1>2. /\ loc[p] \in Locals /\ row \in Rows /\ row.version \in Nat
      /\ LocalsAt(pc[p], loc[p]) /\ FenceAt(row, stack, pc[p], loc[p])
      /\ <<>> \in Seq(Entries) /\ loc[p].call <= calls
    BY DEF IInv, LInv, Rows
<1>3. CASE AcquireLease(p)
  <2> DEFINE r == [row EXCEPT !.status = "IN_FLIGHT", !.step = loc[p].call]
             m == [loc[p] EXCEPT !.ver = row.version + 1]
             label == "run"
  <2>1. UpdateTransaction(loc[p].ver, r, <<>>) /\ Goto(p, label, m)
    BY <1>3 DEF AcquireLease, Update
  <2>2. loc[p].call \in Calls \cup {NoStep}
    BY <1>2 DEF Locals
  <2>3. r \in Rows /\ r.step = loc[p].call
    BY <1>2, <2>2 DEF Rows, Statuses, Unsettled
  <2>4. m.call = loc[p].call
    BY <1>2, VersionedLocals
  <2>5. label \notin {"before", "unlock", "fallback"}
    OBVIOUS
  <2> HIDE DEF r, m, label
  <2> QED BY <1>1, <1>2, <2>1, <2>3, <2>4, <2>5, UpdateGround
<1>4. CASE PersistPending(p)
  <2> DEFINE es == NewEntries(loc[p].call, loc[p].pend)
             l == [loc[p] EXCEPT !.pend = 0]
             m == [l EXCEPT !.ver = row.version + 1]
             label == AfterPersist(loc[p])
  <2>1. /\ UpdateTransaction(loc[p].ver, row, es) /\ Goto(p, label, m)
        /\ pc[p] = "persist"
    BY <1>4 DEF PersistPending, Update
  <2>2. loc[p].pend \in Nat /\ loc[p].call \in Calls
    BY <1>2, <2>1 DEF Locals, LocalsAt
  <2>3. es \in Seq(Entries)
    BY <2>2, NewEntriesType
  <2>4. l \in Locals /\ l.call = loc[p].call /\ l.comp = loc[p].comp
    BY <1>2, ActorAssumption DEF Locals
  <2> HIDE DEF l
  <2>5. m.call = loc[p].call /\ m.comp = loc[p].comp
    BY <1>2, <2>4, VersionedLocals
  <2>6. row.status = "IN_FLIGHT"
    BY <1>2, <2>1 DEF FenceAt, LocalsAt, UpdateTransaction, VersionMatches
  <2>7. label \in {"compensating", "fallback"} /\ (label = "fallback" => ~m.comp)
    BY <2>5 DEF AfterPersist
  <2> HIDE DEF es, m, label
  <2> QED BY <1>1, <1>2, <2>1, <2>3, <2>5, <2>6, <2>7, UpdateGround
<1>5. CASE BeginCompensation(p)
  <2> DEFINE r == [row EXCEPT !.status = "COMPENSATING"]
             m == [loc[p] EXCEPT !.ver = row.version + 1]
             label == "readStack"
  <2>1. UpdateTransaction(loc[p].ver, r, <<>>) /\ Goto(p, label, m)
    BY <1>5 DEF BeginCompensation, Update
  <2>2. r \in Rows /\ r.step = row.step
    BY <1>2 DEF Rows, Statuses, Unsettled
  <2>3. m.call = loc[p].call
    BY <1>2, VersionedLocals
  <2>4. label \notin {"before", "unlock", "fallback"}
    OBVIOUS
  <2> HIDE DEF r, m, label
  <2> QED BY <1>1, <1>2, <2>1, <2>2, <2>3, <2>4, UpdateGround
<1> QED BY <1>3, <1>4, <1>5

\* The versioned updates that end a call without settling a step, and the one
\* that unlocks a row to replay its step.
LEMMA UnlockStepsGround ==
    ASSUME IInv, LInv, NEW p \in Procs,
           MarkFail(p) \/ ForceUnlock(p) \/ ContinueUnlock(p)
    PROVE  LInv'
<1>1. outcomes' = outcomes /\ calls' = calls /\ pc[p] \notin {"idle", "delete"}
    BY DEF MarkFail, ForceUnlock, ContinueUnlock, budget
<1>2. /\ loc[p] \in Locals /\ row \in Rows /\ row.version \in Nat
      /\ <<>> \in Seq(Entries) /\ loc[p].call <= calls
      /\ loc[p].ver > 0 /\ GroundedAt(row, outcomes, pc[p], loc[p])
    BY <1>1 DEF IInv, LInv, Rows, LocalsAt
<1>3. CASE MarkFail(p)
  <2> DEFINE r == [row EXCEPT !.state = ErrorState, !.status = "FAILED",
                              !.step = NoStep]
  <2>1. UpdateAndReturn(p, r, <<>>)
    BY <1>3 DEF MarkFail
  <2>2. r \in Rows /\ r.step = NoStep
    BY <1>2, StoreAssumption DEF Rows, Statuses, Terminal
  <2> HIDE DEF r
  <2> QED BY <1>1, <1>2, <2>1, <2>2, UpdateReturnGround
<1> DEFINE r == [row EXCEPT !.status = "IDLE", !.step = NoStep]
<1>4. r \in Rows /\ r.step = NoStep
    BY UnlockedRow
<1>5. r.state = row.state
    BY <1>2 DEF Rows
<1> HIDE DEF r
<1>6. CASE UpdateAndReturn(p, r, <<>>)
    BY <1>1, <1>2, <1>4, <1>6, UpdateReturnGround
<1>7. CASE ContinueUnlock(p) /\ ~UpdateAndReturn(p, r, <<>>)
  <2> DEFINE l == [loc[p] EXCEPT !.job = "transition"]
             m == [l EXCEPT !.ver = row.version + 1]
             label == "before"
  <2>1. /\ pc[p] = "unlock" /\ loc[p].left > 0
        /\ UpdateTransaction(loc[p].ver, r, <<>>) /\ Goto(p, label, m)
    BY <1>7 DEF ContinueUnlock, Update, r
  <2>2. l \in Locals /\ l.call = loc[p].call
    BY <1>2 DEF Locals
  <2> HIDE DEF l
  <2>3. m.call = loc[p].call
    BY <1>2, <2>2, VersionedLocals
  <2>4. row.state \in Accepting
    BY <1>2, <2>1 DEF GroundedAt, UpdateTransaction, VersionMatches
  <2>5. label \notin {"unlock", "fallback"}
    OBVIOUS
  <2> HIDE DEF m, label
  <2> QED BY <1>1, <1>2, <1>4, <1>5, <2>1, <2>3, <2>4, <2>5, UpdateGround
<1>8. ForceUnlock(p) => UpdateAndReturn(p, r, <<>>)
    BY DEF ForceUnlock, r
<1> QED BY <1>3, <1>6, <1>7, <1>8

\* What the two settling updates write.
LEMMA SettlingUpdate ==
    ASSUME IInv, NEW p \in Procs, Commit(p) \/ SettleFailure(p)
    PROVE  \E s \in States, t \in Statuses, es \in Seq(Entries) :
               /\ UpdateAndReturn(p, Settle(p, s, t), es)
               /\ \/ /\ Commit(p) /\ pc[p] = "commit" /\ t = SettledStatus(s)
                     /\ loc[p].call \in Calls /\ loc[p].pend \in Nat
                     /\ es = NewEntries(loc[p].call, loc[p].pend)
                  \/ /\ SettleFailure(p) /\ pc[p] = "fallback" /\ es = <<>>
                     /\ t = IF loc[p].comp THEN "COMPENSATED" ELSE SettledStatus(s)
<1>1. CASE Commit(p)
  <2>1. pc[p] = "commit" /\ loc[p].pend \in Nat
    BY <1>1 DEF Commit, IInv, Locals
  <2>2. loc[p].call \in Calls
    BY <2>1 DEF IInv, LocalsAt
  <2>3. NewEntries(loc[p].call, loc[p].pend) \in Seq(Entries)
    BY <2>1, <2>2, NewEntriesType
  <2>4. PICK s \in States :
            UpdateAndReturn(p, Settle(p, s, SettledStatus(s)),
                            NewEntries(loc[p].call, loc[p].pend))
    BY <1>1 DEF Commit
  <2>5. SettledStatus(s) \in Statuses
    BY SettledInStatuses
  <2> QED BY <1>1, <2>1, <2>2, <2>3, <2>4, <2>5
<1>2. CASE SettleFailure(p)
  <2> DEFINE t(s) == IF loc[p].comp THEN "COMPENSATED" ELSE SettledStatus(s)
  <2>1. PICK s \in IF loc[p].job = "transition" THEN States ELSE {ErrorState} :
            UpdateAndReturn(p, Settle(p, s, t(s)), <<>>)
    BY <1>2 DEF SettleFailure
  <2>2. s \in States /\ pc[p] = "fallback" /\ <<>> \in Seq(Entries)
    BY <1>2, <2>1, StoreAssumption DEF SettleFailure
  <2>3. t(s) \in Statuses
    BY SettledInStatuses DEF Statuses, Unsettled, Terminal
  <2> QED BY <1>2, <2>1, <2>2, <2>3
<1> QED BY <1>1, <1>2

LEMMA SettleStepsGround ==
    ASSUME IInv, LInv, NEW p \in Procs, Commit(p) \/ SettleFailure(p)
    PROVE  LInv'
<1>1. PICK s \in States, t \in Statuses, es \in Seq(Entries) :
          /\ UpdateAndReturn(p, Settle(p, s, t), es)
          /\ pc[p] \in {"commit", "fallback"}
    BY SettlingUpdate
<1>2. Settle(p, s, t) \in Rows /\ Settle(p, s, t).step = NoStep
    BY SettledRow
<1>3. CountOutcome(p) /\ calls' = calls
    BY DEF Commit, SettleFailure, budget
<1> QED BY <1>1, <1>2, <1>3, SettleGround

-----------------------------------------------------------------------------
(* The invariant is inductive. *)

LEMMA InitLInv == Init => LInv
<1> SUFFICES ASSUME Init PROVE LInv
    OBVIOUS
<1>1. row = NoRow /\ stack = <<>> /\ calls = 0 /\ outcomes = [c \in Calls |-> 0]
    BY DEF Init, StoreInit
<1>2. NoRow.version = 0 /\ NoRow.step = NoStep /\ NoLocals.call = NoStep
    BY DEF NoRow, NoLocals
<1>3. RowBacked(row, stack, calls, outcomes)
    BY <1>1, <1>2 DEF RowBacked, NoStep
<1>4. \A p \in Procs : GroundedAt(row, outcomes, pc[p], NoLocals)
    BY <1>1, Initials, NoGround
<1> QED BY <1>1, <1>2, <1>3, <1>4 DEF Init, LInv, NoStep

LEMMA NextLInv == IInv /\ LInv /\ [Next]_vars => LInv'
<1> SUFFICES ASSUME IInv, LInv, [Next]_vars PROVE LInv'
    OBVIOUS
<1>1. CASE UNCHANGED vars
    BY <1>1 DEF vars, LInv, RowBacked, GroundedAt
<1>2. CASE TimePasses
  <2>1. /\ row' = [row EXCEPT !.stale = TRUE] /\ stack' = stack /\ pc' = pc
        /\ loc' = loc /\ calls' = calls /\ outcomes' = outcomes /\ Exists
    BY <1>2 DEF TimePasses, Elapse, budget
  <2>2. /\ row'.version = row.version /\ row'.state = row.state
        /\ row'.status = row.status /\ row'.step = row.step
    BY <2>1 DEF IInv, Rows
  <2>3. RowBacked(row', stack', calls', outcomes')
    BY <2>1, <2>2, CallTypes DEF LInv, RowBacked, Exists
  <2> QED BY <2>1, <2>2, <2>3 DEF LInv, GroundedAt
<1>3. ASSUME NEW p \in Procs, StaleVersion(p) \/ Crash(p) \/ CompensatorThrows(p)
      PROVE  LInv'
    BY <1>3, ReturnGround DEF StaleVersion, Crash, CompensatorThrows, budget
<1>4. ASSUME NEW p \in Procs, Step(p) PROVE LInv'
    BY <1>3, <1>4, LocalStepsGround, UpdateStepsGround, UnlockStepsGround,
       SettleStepsGround, DeleteGround, ContinueRereadGround
       DEF Step
<1>5. ASSUME NEW p \in Procs,
             \/ StartTransaction(p) \/ Transition(p)
             \/ SweepTake(p) \/ RetentionTake(p) \/ CleanUpTake(p)
      PROVE  LInv'
    BY <1>5, StartTransactionGround, TransitionGround, TakeGround
<1> QED BY <1>1, <1>2, <1>3, <1>4, <1>5 DEF Next

\* What a process relies on between its awaits (the state it matched an event
\* in, the mark its failure branch will settle, a call nobody has settled)
\* holds for as long as no other update has made its version stale.
THEOREM Grounded == Spec => []LInv
<1>1. IInv /\ LInv /\ [Next]_vars => LInv'
    BY NextLInv
<1> QED BY <1>1, InitLInv, Inductive, PTL DEF Spec

\* Handlers may run again and again, for a caller and for every sweep that
\* replays the active step (CONTINUE), but executeTransitionOnSnapshot's
\* settling update goes through once per call.
THEOREM SettledOnce == Spec => []AtMostOneOutcome
<1>1. LInv => AtMostOneOutcome
    BY DEF LInv, RowBacked, AtMostOneOutcome
<1> QED BY <1>1, Grounded, PTL

-----------------------------------------------------------------------------
(* Every step of a process is a step of the lifecycle, or invisible in it. *)

Simulated == [Lifecycle!Next]_(Lifecycle!vars)

LEMMA Invisible ==
    ASSUME Exists' = Exists, row'.state = row.state, row'.status = row.status,
           row'.ctx = row.ctx, stack' = stack
    PROVE  Simulated
BY DEF Simulated, Lifecycle!vars, UncompensatedStack

\* What a versioned update of a process under way does to the lifecycle.
LEMMA UpdateMaps ==
    ASSUME IInv, NEW p \in Procs, pc[p] \notin {"idle", "delete"},
           NEW r \in Rows, NEW es \in Seq(Entries),
           UpdateTransaction(loc[p].ver, r, es)
    PROVE  /\ Exists = TRUE /\ Exists' = TRUE
           /\ loc[p].ver > 0 /\ row.version = loc[p].ver
           /\ row'.state = r.state /\ row'.status = r.status
           /\ row'.ctx = r.ctx /\ stack' = stack \o es
           /\ es = <<>> => stack' = stack
           /\ row' \in Rows
<1>1. loc[p].ver > 0 /\ row.version \in Nat
    BY DEF IInv, LocalsAt, Rows
<1> QED BY <1>1, UpdateEffect DEF Exists

\* The entries an update appends are owed.
LEMMA AppendedAreOwed ==
    ASSUME stack \in Seq(Entries), NEW c \in Calls, NEW n \in Nat,
           stack' = stack \o NewEntries(c, n)
    PROVE  /\ Len(stack') \in Nat /\ Len(stack') >= Len(stack)
           /\ UncompensatedStack' =
                  UncompensatedStack \cup (Len(stack) + 1)..Len(stack')
<1> DEFINE es == NewEntries(c, n)
<1>1. es \in Seq(Entries) /\ Len(es) = n /\ stack' = stack \o es
  <2>1. Len(es) = n
    BY DEF NewEntries
  <2> QED BY <2>1, NewEntriesType
<1>5. \A i \in 1..n : es[i] = [call |-> c, done |-> FALSE]
    BY DEF NewEntries
<1> HIDE DEF es
<1>2. /\ Len(stack') = Len(stack) + n /\ Len(stack) \in Nat
      /\ \A i \in 1..Len(stack) : stack'[i] = stack[i]
      /\ \A i \in 1..n : stack'[Len(stack) + i] = es[i]
  <2>1. /\ Len(stack') = Len(stack) + Len(es)
        /\ \A i \in 1..(Len(stack) + Len(es)) :
               stack'[i] = IF i <= Len(stack) THEN stack[i]
                           ELSE es[i - Len(stack)]
    BY <1>1, ConcatProperties
  <2>2. Len(stack) \in Nat
    BY LenProperties
  <2> QED BY <1>1, <2>1, <2>2
<1>3. \A i \in (Len(stack) + 1)..(Len(stack) + n) : ~stack'[i].done
  <2> SUFFICES ASSUME NEW i \in (Len(stack) + 1)..(Len(stack) + n)
               PROVE  ~stack'[i].done
    OBVIOUS
  <2>1. i - Len(stack) \in 1..n /\ i = Len(stack) + (i - Len(stack))
    BY <1>2
  <2> QED BY <1>2, <1>5, <2>1
<1>4. DOMAIN stack' = 1..(Len(stack) + n) /\ DOMAIN stack = 1..Len(stack)
    BY <1>1, <1>2
<1> QED BY <1>2, <1>3, <1>4 DEF UncompensatedStack

LEMMA AcquireLeaseMaps ==
    ASSUME IInv, LInv, NEW p \in Procs, AcquireLease(p) PROVE Simulated
<1> DEFINE r == [row EXCEPT !.status = "IN_FLIGHT", !.step = loc[p].call]
<1>1. /\ pc[p] = "before" /\ UpdateTransaction(loc[p].ver, r, <<>>)
      /\ loc[p].call \in Calls \cup {NoStep} /\ row \in Rows
      /\ <<>> \in Seq(Entries)
    BY DEF AcquireLease, Update, IInv, Locals
<1>2. /\ r \in Rows /\ r.status = "IN_FLIGHT" /\ r.state = row.state
      /\ r.ctx = row.ctx
    BY <1>1 DEF Rows, Statuses, Unsettled
<1> HIDE DEF r
<1>3. /\ Exists = TRUE /\ Exists' = TRUE /\ row'.state = row.state
      /\ row'.status = "IN_FLIGHT" /\ row'.ctx = row.ctx /\ stack' = stack
      /\ loc[p].ver > 0 /\ row.version = loc[p].ver
    BY <1>1, <1>2, UpdateMaps
<1>4. row.state \in Accepting
    BY <1>1, <1>3 DEF LInv, GroundedAt
<1>5. Lifecycle!Begin
    BY <1>3, <1>4 DEF Lifecycle!Begin, UncompensatedStack
<1> QED BY <1>5 DEF Simulated, Lifecycle!Next

\* A failing step makes the entries of its finished branches durable.
LEMMA PersistPendingMaps ==
    ASSUME IInv, LInv, NEW p \in Procs, PersistPending(p) PROVE Simulated
<1> DEFINE es == NewEntries(loc[p].call, loc[p].pend)
<1>1. /\ pc[p] = "persist" /\ UpdateTransaction(loc[p].ver, row, es)
      /\ row \in Rows /\ stack \in Seq(Entries)
      /\ LocalsAt(pc[p], loc[p]) /\ FenceAt(row, stack, pc[p], loc[p])
    BY DEF PersistPending, Update, IInv
<1>2. loc[p].pend \in Nat /\ loc[p].call \in Calls /\ es \in Seq(Entries)
  <2>1. loc[p].pend \in Nat /\ loc[p].call \in Calls
    BY <1>1 DEF IInv, Locals, LocalsAt
  <2> QED BY <2>1, NewEntriesType
<1>3. /\ Exists = TRUE /\ Exists' = TRUE /\ row'.state = row.state
      /\ row'.status = row.status /\ row'.ctx = row.ctx
      /\ stack' = stack \o es /\ loc[p].ver > 0 /\ row.version = loc[p].ver
    BY <1>1, <1>2, UpdateMaps
<1>4. row.status = "IN_FLIGHT"
    BY <1>1, <1>3 DEF FenceAt
<1>5. Lifecycle!Push
    BY <1>1, <1>2, <1>3, AppendedAreOwed DEF Lifecycle!Push
<1>6. Lifecycle!Record
    BY <1>3, <1>4, <1>5 DEF Lifecycle!Record
<1> QED BY <1>6 DEF Simulated, Lifecycle!Next

LEMMA BeginCompensationMaps ==
    ASSUME IInv, LInv, NEW p \in Procs, BeginCompensation(p) PROVE Simulated
<1> DEFINE r == [row EXCEPT !.status = "COMPENSATING"]
<1>1. /\ pc[p] = "compensating" /\ UpdateTransaction(loc[p].ver, r, <<>>)
      /\ row \in Rows /\ <<>> \in Seq(Entries)
    BY DEF BeginCompensation, Update, IInv
<1>2. /\ r \in Rows /\ r.status = "COMPENSATING" /\ r.state = row.state
      /\ r.ctx = row.ctx
    BY <1>1 DEF Rows, Statuses, Unsettled
<1> HIDE DEF r
<1>3. /\ Exists = TRUE /\ Exists' = TRUE /\ row'.state = row.state
      /\ row'.status = "COMPENSATING" /\ row'.ctx = row.ctx /\ stack' = stack
    BY <1>1, <1>2, UpdateMaps
<1>4. Lifecycle!BeginUndo
    BY <1>3 DEF Lifecycle!BeginUndo, UncompensatedStack
<1> QED BY <1>4 DEF Simulated, Lifecycle!Next

LEMMA SettledRowState ==
    ASSUME IInv, NEW p \in Procs, NEW s \in States, NEW t \in Statuses
    PROVE  Settle(p, s, t).state = s
BY DEF Settle, IInv, Rows

\* A successful step settles out of IN_FLIGHT, with its entries.
LEMMA CommitMaps ==
    ASSUME IInv, LInv, NEW p \in Procs, Commit(p) PROVE Simulated
<1> DEFINE es == NewEntries(loc[p].call, loc[p].pend)
           r(s) == Settle(p, s, SettledStatus(s))
<1>1. pc[p] = "commit" /\ loc[p].pend \in Nat /\ stack \in Seq(Entries)
    BY DEF Commit, IInv, Locals
<1>2. /\ loc[p].call \in Calls /\ loc[p].ctx \in SUBSET Calls
      /\ FenceAt(row, stack, pc[p], loc[p])
    BY <1>1 DEF IInv, LocalsAt, Locals
<1>3. es \in Seq(Entries)
    BY <1>1, <1>2, NewEntriesType
<1>4. PICK s \in States : UpdateTransaction(loc[p].ver, r(s), es)
    BY DEF Commit, UpdateAndReturn
<1>5. /\ r(s) \in Rows /\ r(s).status = SettledStatus(s)
      /\ r(s).ctx = loc[p].ctx /\ r(s).state = s
    BY SettledInStatuses, SettledRow, SettledRowState
<1> HIDE DEF r
<1>6. /\ Exists = TRUE /\ Exists' = TRUE /\ row'.state = s
      /\ row'.status = SettledStatus(s) /\ row'.ctx = loc[p].ctx
      /\ stack' = stack \o es /\ loc[p].ver > 0 /\ row.version = loc[p].ver
    BY <1>1, <1>3, <1>4, <1>5, UpdateMaps
<1>7. row.status = "IN_FLIGHT" /\ row.ctx \subseteq loc[p].ctx
    BY <1>1, <1>2, <1>6 DEF FenceAt
<1>8. Lifecycle!Push
    BY <1>1, <1>2, <1>6, AppendedAreOwed DEF Lifecycle!Push
<1>9. Lifecycle!Finish
    BY <1>2, <1>6, <1>7, <1>8
       DEF Lifecycle!Finish, Lifecycle!SettledIn, SettledStatus
<1> QED BY <1>9 DEF Simulated, Lifecycle!Next

\* A failed step settles out of IN_FLIGHT, and a compensation ends, whoever
\* asked for it, with nothing owed.
LEMMA SettleFailureMaps ==
    ASSUME IInv, LInv, NEW p \in Procs, SettleFailure(p) PROVE Simulated
<1> DEFINE t(s) == IF loc[p].comp THEN "COMPENSATED" ELSE SettledStatus(s)
           r(s) == Settle(p, s, t(s))
<1>1. PICK s \in IF loc[p].job = "transition" THEN States ELSE {ErrorState} :
          UpdateTransaction(loc[p].ver, r(s), <<>>)
    BY DEF SettleFailure, UpdateAndReturn
<1>2. /\ s \in States /\ pc[p] = "fallback" /\ <<>> \in Seq(Entries)
      /\ stack \in Seq(Entries) /\ loc[p].ctx \in SUBSET Calls
      /\ FenceAt(row, stack, pc[p], loc[p])
      /\ GroundedAt(row, outcomes, pc[p], loc[p])
    BY <1>1, StoreAssumption DEF SettleFailure, IInv, LInv, Locals
<1>3. t(s) \in Statuses
    BY SettledInStatuses DEF Statuses, Unsettled, Terminal
<1>4. /\ r(s) \in Rows /\ r(s).status = t(s) /\ r(s).ctx = loc[p].ctx
      /\ r(s).state = s
    BY <1>2, <1>3, SettledRow, SettledRowState
<1> HIDE DEF r
<1>5. /\ Exists = TRUE /\ Exists' = TRUE /\ row'.state = s
      /\ row'.status = t(s) /\ row'.ctx = loc[p].ctx
      /\ stack' = stack /\ loc[p].ver > 0 /\ row.version = loc[p].ver
    BY <1>1, <1>2, <1>4, UpdateMaps
<1>6. UNCHANGED <<Len(stack), UncompensatedStack>>
    BY <1>5 DEF UncompensatedStack
<1>7. CASE loc[p].comp
  <2>1. row.status = "COMPENSATING" /\ UncompensatedStack = {}
    BY <1>2, <1>5, <1>7 DEF FenceAt, GroundedAt, Owed, UncompensatedStack
  <2>2. Lifecycle!EndUndo
    BY <1>2, <1>5, <1>6, <1>7, <2>1 DEF Lifecycle!EndUndo
  <2> QED BY <2>2 DEF Simulated, Lifecycle!Next
<1>8. CASE ~loc[p].comp
  <2>1. row.status = "IN_FLIGHT" /\ row.ctx \subseteq loc[p].ctx
    BY <1>2, <1>5, <1>8 DEF FenceAt, GroundedAt
  <2>2. Lifecycle!Push
    <3>1. Len(stack) \in Nat
      BY <1>2
    <3> QED BY <1>6, <3>1 DEF Lifecycle!Push
  <2>3. Lifecycle!Finish
    BY <1>2, <1>5, <1>8, <2>1, <2>2
       DEF Lifecycle!Finish, Lifecycle!SettledIn, SettledStatus
  <2> QED BY <2>3 DEF Simulated, Lifecycle!Next
<1> QED BY <1>7, <1>8

\* The mark of an entry undoes it, unless another unwind already has or the
\* transaction is gone.
LEMMA MarkExecutedMaps ==
    ASSUME IInv, LInv, NEW p \in Procs, MarkExecuted(p) PROVE Simulated
<1>1. PICK i \in loc[p].todo : MarkCompensationExecuted(i)
    BY DEF MarkExecuted
<1>2. row' = row /\ stack \in Seq(Entries)
    BY <1>1 DEF MarkCompensationExecuted, IInv
<1>3. CASE i \in DOMAIN stack
  <2>1. stack' = [stack EXCEPT ![i].done = TRUE]
    BY <1>1, <1>3 DEF MarkCompensationExecuted
  <2>2. /\ DOMAIN stack' = DOMAIN stack /\ Len(stack') = Len(stack)
        /\ stack'[i] = [stack[i] EXCEPT !.done = TRUE]
        /\ \A j \in DOMAIN stack \ {i} : stack'[j] = stack[j]
    BY <1>2, <1>3, <2>1
  <2>3. stack'[i].done
    <3>1. stack[i] \in Entries
      BY <1>2, <1>3
    <3> QED BY <2>2, <3>1 DEF Entries
  <2>4. UncompensatedStack' = UncompensatedStack \ {i}
    BY <2>2, <2>3 DEF UncompensatedStack
  <2>5. Exists
    <3>1. stack # <<>>
      BY <1>3
    <3> QED BY <3>1 DEF IInv, Rows, Exists, LInv, RowBacked
  <2>6. CASE i \in UncompensatedStack
    <3>1. Lifecycle!Undo
      BY <1>2, <2>2, <2>4, <2>5, <2>6 DEF Lifecycle!Undo, Exists
    <3> QED BY <3>1 DEF Simulated, Lifecycle!Next
  <2>7. CASE i \notin UncompensatedStack
    BY <1>2, <2>2, <2>4, <2>7 DEF Simulated, Lifecycle!vars, Exists
  <2> QED BY <2>6, <2>7
<1>4. CASE i \notin DOMAIN stack
  <2>1. stack' = stack
    BY <1>1, <1>4 DEF MarkCompensationExecuted
  <2> QED BY <1>2, <2>1, Invisible DEF Exists
<1> QED BY <1>3, <1>4

\* MARK_FAIL, FORCE_UNLOCK and the unlock of CONTINUE.
LEMMA UnlockStepsMap ==
    ASSUME IInv, LInv, NEW p \in Procs,
           MarkFail(p) \/ ForceUnlock(p) \/ ContinueUnlock(p)
    PROVE  Simulated
<1>1. /\ pc[p] \notin {"idle", "delete"} /\ row \in Rows
      /\ <<>> \in Seq(Entries)
    BY DEF MarkFail, ForceUnlock, ContinueUnlock, IInv
<1>2. CASE MarkFail(p)
  <2> DEFINE r == [row EXCEPT !.state = ErrorState, !.status = "FAILED",
                              !.step = NoStep]
  <2>1. UpdateTransaction(loc[p].ver, r, <<>>)
    BY <1>2 DEF MarkFail, UpdateAndReturn
  <2>2. r \in Rows /\ r.state = ErrorState /\ r.status = "FAILED" /\ r.ctx = row.ctx
    BY <1>1, StoreAssumption DEF Rows, Statuses, Terminal
  <2> HIDE DEF r
  <2>3. /\ Exists = TRUE /\ Exists' = TRUE /\ row'.state = ErrorState
        /\ row'.status = "FAILED" /\ row'.ctx = row.ctx /\ stack' = stack
    BY <1>1, <2>1, <2>2, UpdateMaps
  <2>4. Lifecycle!MarkFailed
    BY <2>3 DEF Lifecycle!MarkFailed, UncompensatedStack
  <2> QED BY <2>4 DEF Simulated, Lifecycle!Next
<1>3. CASE ForceUnlock(p) \/ ContinueUnlock(p)
  <2> DEFINE r == [row EXCEPT !.status = "IDLE", !.step = NoStep]
  <2>1. UpdateTransaction(loc[p].ver, r, <<>>)
    BY <1>3 DEF ForceUnlock, ContinueUnlock, Update, UpdateAndReturn
  <2>2. r \in Rows /\ r.status = "IDLE" /\ r.ctx = row.ctx
    BY UnlockedRow
  <2>3. r.state = row.state
    BY <1>1 DEF Rows
  <2> HIDE DEF r
  <2>4. /\ Exists = TRUE /\ Exists' = TRUE /\ row'.state = row.state
        /\ row'.status = "IDLE" /\ row'.ctx = row.ctx /\ stack' = stack
    BY <1>1, <2>1, <2>2, <2>3, UpdateMaps
  <2>5. Lifecycle!Unlock
    BY <2>4 DEF Lifecycle!Unlock, UncompensatedStack
  <2> QED BY <2>5 DEF Simulated, Lifecycle!Next
<1> QED BY <1>2, <1>3

LEMMA StartTransactionMaps ==
    ASSUME IInv, LInv, NEW p \in Procs, StartTransaction(p) PROVE Simulated
<1>1. /\ row.version = 0 /\ row = NoRow /\ stack = <<>> /\ stack' = <<>>
      /\ row' = [NoRow EXCEPT !.version = 1,
                              !.status = SettledStatus(InitialState)]
    BY DEF StartTransaction, CreateTransaction, IInv, NothingBeforeStart,
           LInv, RowBacked
<1>2. /\ row'.version = 1 /\ row'.state = row.state /\ row'.ctx = row.ctx
      /\ row'.status = SettledStatus(InitialState)
    BY <1>1 DEF NoRow
<1>3. Lifecycle!Create
    BY <1>1, <1>2
       DEF Lifecycle!Create, Lifecycle!SettledIn, SettledStatus, Exists,
           UncompensatedStack
<1> QED BY <1>3 DEF Simulated, Lifecycle!Next

LEMMA DeleteMaps ==
    ASSUME NEW p \in Procs, Delete(p) PROVE Simulated
<1>1. row' = NoRow /\ stack' = <<>>
    BY DEF Delete, DeleteTransactions
<1>2. /\ Exists' = FALSE /\ row'.state = InitialState /\ row'.status = "IDLE"
      /\ row'.ctx = {} /\ Len(stack') = 0 /\ UncompensatedStack' = {}
    BY <1>1 DEF NoRow, Exists, UncompensatedStack
<1>3. Lifecycle!Remove
    BY <1>2 DEF Lifecycle!Remove
<1> QED BY <1>3 DEF Simulated, Lifecycle!Next

\* The steps that touch neither the row nor the stack.
LEMMA OthersInvisible ==
    ASSUME NEW p \in Procs,
           \/ Transition(p) \/ SweepTake(p) \/ RetentionTake(p)
           \/ CleanUpTake(p) \/ Crash(p) \/ CompensatorThrows(p)
           \/ StaleVersion(p) \/ JoinLease(p) \/ BranchSucceeds(p)
           \/ BranchFails(p) \/ ReadStack(p) \/ RunCompensator(p)
           \/ ContinueReread(p)
    PROVE  Simulated
<1>1. row' = row /\ stack' = stack
    BY DEF Transition, SweepTake, RetentionTake, CleanUpTake, Crash,
           CompensatorThrows, StaleVersion, JoinLease, BranchSucceeds,
           BranchFails, ReadStack, RunCompensator, ContinueReread
<1> QED BY <1>1, Invisible DEF Exists

LEMMA NextMaps == IInv /\ LInv /\ [Next]_vars => Simulated
<1> SUFFICES ASSUME IInv, LInv, [Next]_vars PROVE Simulated
    OBVIOUS
<1>1. CASE UNCHANGED vars
    BY <1>1, Invisible DEF vars, Exists
<1>2. CASE TimePasses
  <2>1. row' = [row EXCEPT !.stale = TRUE] /\ stack' = stack /\ row \in Rows
    BY <1>2 DEF TimePasses, Elapse, IInv
  <2>2. /\ row'.version = row.version /\ row'.state = row.state
        /\ row'.status = row.status /\ row'.ctx = row.ctx
    BY <2>1 DEF Rows
  <2> QED BY <2>1, <2>2, Invisible DEF Exists
<1>3. ASSUME NEW p \in Procs, Step(p) PROVE Simulated
    BY <1>3, AcquireLeaseMaps, PersistPendingMaps, BeginCompensationMaps,
       CommitMaps, SettleFailureMaps, MarkExecutedMaps, UnlockStepsMap,
       DeleteMaps, OthersInvisible DEF Step
<1>4. ASSUME NEW p \in Procs,
             \/ StartTransaction(p) \/ Transition(p) \/ SweepTake(p)
             \/ RetentionTake(p) \/ CleanUpTake(p)
             \/ Crash(p) \/ CompensatorThrows(p)
      PROVE  Simulated
    BY <1>4, StartTransactionMaps, OthersInvisible
<1> QED BY <1>1, <1>2, <1>3, <1>4 DEF Next

\* actor.ts, with all its concurrent callers, sweeps and cleanups and any
\* crash between two awaits, is an atomic status machine to whoever reads the
\* store: every update is one step of TransactionLifecycle.
THEOREM LifecycleImplemented == Spec => ImplementsLifecycle
<1>1. Init => Lifecycle!Init
  <2>1. NoRow.version = 0 /\ NoRow.state = InitialState
        /\ NoRow.status = "IDLE" /\ NoRow.ctx = {}
    BY DEF NoRow
  <2> QED BY <2>1 DEF Init, StoreInit, Lifecycle!Init, Exists, UncompensatedStack
<1>2. IInv /\ LInv /\ [Next]_vars => [Lifecycle!Next]_(Lifecycle!vars)
    BY NextMaps DEF Simulated
<1> QED BY <1>1, <1>2, Inductive, Grounded, PTL
        DEF Spec, ImplementsLifecycle, Lifecycle!Spec

=============================================================================
