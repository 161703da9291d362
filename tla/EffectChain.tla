---------------------------- MODULE EffectChain -----------------------------
(***************************************************************************)
(* What happens after a call has committed (runtime/actor.ts): its hooks   *)
(* and effects run, and they may call the actor again.  One actor and one  *)
(* transaction; each caller is a chain of awaited calls and effects, a     *)
(* stack whose last frame is running, and the callers interleave at every  *)
(* await.  The two maps of the actor are shared by all chains:             *)
(* effectChainDepthByTx (depth) and txTransitionRevision (revision); an    *)
(* absent entry is 0.                                                      *)
(*                                                                         *)
(* The state and context of the transaction are abstracted to the version  *)
(* of its row, and the two writes of a call, lease and commit, to one: the *)
(* interleavings between them are the subject of SagaActor.                *)
(***************************************************************************)
EXTENDS Integers, Sequences, FiniteSets, SequencesExt

CONSTANTS
    Callers,               \* concurrent callers of the actor
    MaxEffectChainDepth,
    Scopes                 \* bounds to choose from: who calls, how many calls
                           \* are made and how many effects a transition has

ASSUME EffectAssumption ==
    /\ MaxEffectChainDepth \in Nat \ {0}
    /\ Scopes \subseteq [callers : SUBSET Callers, calls : Nat, effects : Nat]

VARIABLES
    row,           \* version of the row, 0 before it is created
    depth,         \* effectChainDepthByTx
    revision,      \* txTransitionRevision
    stack,         \* the frames of each caller
    throwing,      \* is an error on its way up the caller's stack?
    calls,         \* calls made so far
    scope,         \* the bounds chosen
    foreign        \* history: has the row been changed by two callers at once,
                   \* or from within a hook?

vars == <<row, depth, revision, stack, throwing, calls, scope, foreign>>

\* ver: the version the frame works with (a call: its snapshot, then its own
\* commit or, at the end, what it returns; an effect: the state it was given).
\* base: the revision before the effects.  nested: the latest version that was
\* committed by calls above the frame.
Call(kind, pc, ver) ==
    [kind |-> kind, pc |-> pc, ver |-> ver, base |-> 0, left |-> 0,
     next |-> 0, nested |-> 0]
Effect(pc, ver, base, next) ==
    [kind |-> "effect", pc |-> pc, ver |-> ver, base |-> base, left |-> 1,
     next |-> next, nested |-> 0]

Busy(c) == stack[c] # <<>>
Top(c) == Last(stack[c])
At(c, kinds, pc) == Busy(c) /\ ~throwing[c] /\ Top(c).kind \in kinds /\ Top(c).pc = pc
Calling == {"start", "transition"}

\* The effects under way in the chain of c that have been counted.
Running(c) ==
    Cardinality({i \in DOMAIN stack[c] :
                    stack[c][i].kind = "effect" /\ stack[c][i].pc = "run"})

Max2(m, n) == IF m > n THEN m ELSE n

Init ==
    /\ row = 0 /\ depth = 0 /\ revision = 0
    /\ stack = [c \in Callers |-> <<>>]
    /\ throwing = [c \in Callers |-> FALSE]
    /\ scope \in Scopes
    /\ calls = 0 /\ foreign = FALSE

-----------------------------------------------------------------------------
(* Stacks. *)

SetTop(c, frame) == stack' = [stack EXCEPT ![c] = Front(@) \o <<frame>>]

Push(c, below, frame) == stack' = [stack EXCEPT ![c] = Front(@) \o <<below, frame>>]

Throw(c) == throwing' = [throwing EXCEPT ![c] = TRUE]

\* The top frame returns; the frame below learns what was committed.
Pop(c) ==
    LET rest == Front(stack[c])
        top == Top(c)
        latest == Max2(top.nested, IF top.kind = "effect" THEN 0 ELSE top.ver)
    IN  stack' = [stack EXCEPT ![c] =
            IF rest = <<>> THEN rest
            ELSE Front(rest) \o <<[Last(rest) EXCEPT !.nested = Max2(@, latest)]>>]

NewCall == calls < scope.calls /\ calls' = calls + 1

-----------------------------------------------------------------------------
(* Calls. *)

\* startTransaction: the row is created, then onStart is emitted.
StartTransaction(c) ==
    /\ c \in scope.callers /\ ~Busy(c) /\ row = 0 /\ NewCall
    /\ row' = 1
    /\ stack' = [stack EXCEPT ![c] = <<Call("start", "hooks", 1)>>]
    /\ UNCHANGED <<depth, revision, throwing, scope, foreign>>

Transition(c) ==
    /\ c \in scope.callers /\ ~Busy(c) /\ row > 0 /\ NewCall
    /\ stack' = [stack EXCEPT ![c] = <<Call("transition", "read", 0)>>]
    /\ UNCHANGED <<row, depth, revision, throwing, scope, foreign>>

ReadSnapshot(c) ==
    /\ At(c, {"transition"}, "read")
    /\ SetTop(c, [Top(c) EXCEPT !.ver = row, !.pc = "commit"])
    /\ UNCHANGED <<row, depth, revision, throwing, calls, scope, foreign>>

\* beforeTransition calls the actor.
BeforeHookCalls(c) ==
    /\ At(c, {"transition"}, "commit") /\ NewCall
    /\ Push(c, [Top(c) EXCEPT !.pc = "asked"], Call("transition", "read", 0))
    /\ foreign' = TRUE
    /\ UNCHANGED <<row, depth, revision, throwing, scope>>

\* The commit, successful or not, bumps the revision; a version that moved on
\* makes the call throw.
CommitStep(c) ==
    /\ At(c, {"transition"}, "commit") \/ At(c, {"transition"}, "asked")
    /\ \/ /\ Top(c).ver = row
          /\ row' = row + 1 /\ revision' = revision + 1
          /\ SetTop(c, [Top(c) EXCEPT !.ver = row + 1, !.pc = "hooks"])
          /\ foreign' = (foreign \/ \E d \in Callers \ {c} : Busy(d))
          /\ UNCHANGED throwing
       \/ /\ Top(c).ver # row
          /\ Throw(c)
          /\ UNCHANGED <<row, revision, stack, scope, foreign>>
    /\ UNCHANGED <<depth, calls, scope>>

\* onStart, afterTransition, onComplete or onTerminal calls the actor.
HookCalls(c) ==
    /\ At(c, Calling, "hooks") /\ NewCall
    /\ Push(c, [Top(c) EXCEPT !.pc = "hooked"], Call("transition", "read", 0))
    /\ foreign' = TRUE
    /\ UNCHANGED <<row, depth, revision, throwing, scope>>

\* A hook throws.  Before the commit, as when the event or its input is refused,
\* the call rejects and has no effect; after it, it rejects although committed.
HookThrows(c) ==
    /\ \E pc \in {"commit", "asked", "hooks", "hooked"} : At(c, Calling, pc)
    /\ Throw(c)
    /\ UNCHANGED <<row, depth, revision, stack, calls, scope, foreign>>

\* The hooks are done; revBeforeEffects and the baseline are read.
BeginEffects(c) ==
    /\ At(c, Calling, "hooks") \/ At(c, Calling, "hooked")
    /\ \E n \in 0..scope.effects :
           SetTop(c, [Top(c) EXCEPT !.pc = "effects", !.base = revision, !.left = n])
    /\ UNCHANGED <<row, depth, revision, throwing, calls, scope, foreign>>

-----------------------------------------------------------------------------
(* Effects. *)

\* Faulty variant: the depth is not looked at.
InvokeUnguarded(c) ==
    LET caller == [Top(c) EXCEPT !.left = @ - 1] IN
    /\ Push(c, caller, Effect("run", caller.ver, caller.base, depth + 1))
    /\ depth' = depth + 1
    /\ UNCHANGED <<throwing>>

\* Faulty variant: the state the caller had is passed on in any case.
InvokeWithCallersState(c) ==
    LET caller == [Top(c) EXCEPT !.left = @ - 1] IN
    \/ /\ depth + 1 > MaxEffectChainDepth
       /\ Throw(c) /\ UNCHANGED <<stack, depth>>
    \/ /\ depth + 1 <= MaxEffectChainDepth
       /\ Push(c, caller, Effect("run", caller.ver, caller.base, depth + 1))
       /\ depth' = depth + 1
       /\ UNCHANGED <<throwing>>

\* invokeSingleEffect up to the handler: the depth is read and checked; if
\* the revision changed, the row is read before the depth is written.
InvokeSingleEffect(c) ==
    LET caller == [Top(c) EXCEPT !.left = @ - 1]
        next == depth + 1
        guarded == next > MaxEffectChainDepth
    IN  \/ /\ guarded
           /\ Throw(c)
           /\ UNCHANGED <<stack, depth>>
        \/ /\ ~guarded /\ revision # caller.base
           /\ Push(c, caller, Effect("await", 0, caller.base, next))
           /\ UNCHANGED <<depth, throwing>>
        \/ /\ ~guarded /\ revision = caller.base
           /\ Push(c, caller, Effect("run", caller.ver, caller.base, next))
           /\ depth' = next
           /\ UNCHANGED <<throwing>>

\* invokeEffects goes on to the next effect.
NextEffect(c) ==
    /\ At(c, Calling, "effects") /\ Top(c).left > 0
    /\ InvokeSingleEffect(c)
    /\ UNCHANGED <<row, revision, calls, scope, foreign>>

\* The row arrives; the depth read before is written now.
LatestRead(c) ==
    /\ At(c, {"effect"}, "await")
    /\ SetTop(c, [Top(c) EXCEPT !.ver = row, !.pc = "run"])
    /\ depth' = Top(c).next
    /\ UNCHANGED <<row, revision, throwing, calls, scope, foreign>>

\* The handler calls runEffect once.
RunEffect(c) ==
    /\ At(c, {"effect"}, "run") /\ Top(c).left > 0
    /\ InvokeSingleEffect(c)
    /\ UNCHANGED <<row, revision, calls, scope, foreign>>

\* The handler catches the error by which its runEffect was refused.
RefusalCaught(c) ==
    /\ At(c, {"effect"}, "run") /\ Top(c).left > 0
    /\ depth + 1 > MaxEffectChainDepth
    /\ SetTop(c, [Top(c) EXCEPT !.left = 0])
    /\ UNCHANGED <<row, depth, revision, throwing, calls, scope, foreign>>

\* The handler calls actor.transition.
EffectCalls(c) ==
    /\ At(c, {"effect"}, "run") /\ NewCall
    /\ Push(c, Top(c), Call("transition", "read", 0))
    /\ UNCHANGED <<row, depth, revision, throwing, scope, foreign>>

\* Faulty variant: the depth is not given back.
KeepDepth == depth' = depth

\* The finally of invokeSingleEffect.
ReleaseDepth == depth' = Max2(depth - 1, 0)

EffectReturns(c) ==
    /\ At(c, {"effect"}, "run")
    /\ Pop(c) /\ ReleaseDepth
    /\ UNCHANGED <<row, revision, throwing, calls, scope, foreign>>

EffectThrows(c) ==
    /\ At(c, {"effect"}, "run")
    /\ Throw(c)
    /\ UNCHANGED <<row, depth, revision, stack, calls, scope, foreign>>

\* The frames that await a user's code: it may catch what its calls throw.
MayCatch(frame) == frame.kind = "effect" \/ frame.pc \in {"asked", "hooked"}

\* An error leaves the top frame.
Unwind(c) ==
    /\ throwing[c]
    /\ Pop(c)
    /\ IF Top(c).kind = "effect" /\ Top(c).pc = "run" THEN ReleaseDepth ELSE depth' = depth
    /\ IF Len(stack[c]) = 1 THEN throwing' = [throwing EXCEPT ![c] = FALSE]
       ELSE IF MayCatch(stack[c][Len(stack[c]) - 1])
            THEN \E b \in BOOLEAN : throwing' = [throwing EXCEPT ![c] = b]
            ELSE UNCHANGED throwing
    /\ UNCHANGED <<row, revision, calls, scope, foreign>>

-----------------------------------------------------------------------------
(* The end of a call. *)

\* startTransaction returns the id: it neither compares nor cleans up.
StartReturns(c) ==
    /\ At(c, {"start"}, "effects") /\ Top(c).left = 0
    /\ Pop(c)
    /\ UNCHANGED <<row, depth, revision, throwing, calls, scope, foreign>>

\* Faulty variant: any call cleans up, also one inside an effect.
CleanUpAlways == revision' = 0

\* The revision is forgotten unless an effect of the transaction is running.
CleanUpRevision == revision' = IF depth = 0 THEN 0 ELSE revision

\* The revision is compared; if nested calls changed it, the row is read
\* again before the call returns.
CompareRevision(c) ==
    /\ At(c, {"transition"}, "effects") /\ Top(c).left = 0
    /\ SetTop(c, [Top(c) EXCEPT !.pc = IF revision = Top(c).base THEN "done" ELSE "refresh"])
    /\ CleanUpRevision
    /\ UNCHANGED <<row, depth, throwing, calls, scope, foreign>>

Refresh(c) ==
    /\ At(c, {"transition"}, "refresh")
    /\ SetTop(c, [Top(c) EXCEPT !.ver = row, !.pc = "done"])
    /\ UNCHANGED <<row, depth, revision, throwing, calls, scope, foreign>>

Return(c) ==
    /\ At(c, {"transition"}, "done")
    /\ Pop(c)
    /\ UNCHANGED <<row, depth, revision, throwing, calls, scope, foreign>>

Next ==
    \E c \in Callers :
        \/ StartTransaction(c) \/ Transition(c) \/ ReadSnapshot(c)
        \/ BeforeHookCalls(c) \/ CommitStep(c) \/ HookCalls(c) \/ HookThrows(c)
        \/ BeginEffects(c) \/ NextEffect(c) \/ LatestRead(c) \/ RunEffect(c)
        \/ RefusalCaught(c) \/ EffectCalls(c)
        \/ EffectReturns(c) \/ EffectThrows(c) \/ Unwind(c)
        \/ StartReturns(c) \/ CompareRevision(c) \/ Refresh(c) \/ Return(c)

Spec == Init /\ [][Next]_vars

-----------------------------------------------------------------------------
(* Properties. *)

TypeOK ==
    /\ depth \in 0..MaxEffectChainDepth
    /\ row \in Nat /\ revision \in 0..row
    /\ \A c \in Callers : \A i \in DOMAIN stack[c] :
           /\ stack[c][i].ver <= row
           /\ stack[c][i].kind = "start" => i = 1
           /\ throwing[c] => Busy(c)

\* As long as calls are made one at a time, and again from within effects
\* only, the depth counts the effects of the chain through every error path.
DepthExact ==
    ~foreign /\ Cardinality({c \in Callers : Busy(c)}) <= 1 =>
        \A c \in Callers : Busy(c) => depth = Running(c)

\* Then, too, a call whose effects made nested calls returns what the last
\* of them committed (spec/SPECIFICATION.md 5.1).
OuterSeesNested ==
    ~foreign => \A c \in Callers : \A i \in DOMAIN stack[c] :
        LET frame == stack[c][i]
        IN  frame.kind = "transition" /\ frame.pc = "done" => frame.ver >= frame.nested

\* Then an effect is handed the latest state: nested calls of the effects
\* before it are taken into account.
EffectSeesLatest ==
    [][~foreign' => \A c \in Callers :
          Len(stack'[c]) > 0 /\ Last(stack'[c]).kind = "effect"
              /\ Last(stack'[c]).pc = "run" /\ stack[c] # stack'[c]
              /\ (Busy(c) => Top(c).kind # "effect" \/ Top(c).pc = "await")
              /\ Len(stack'[c]) >= Len(stack[c])
              => Last(stack'[c]).ver = row]_vars

\* The depth guard stops runaway chains: it refuses an effect only in a chain
\* of MaxEffectChainDepth effects.
GuardStopsOnlyRunaways ==
    [][\A c \in Callers :
          (NextEffect(c) \/ RunEffect(c)) /\ Throw(c) => Running(c) >= MaxEffectChainDepth]_vars

=============================================================================
