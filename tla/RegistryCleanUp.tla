-------------------------- MODULE RegistryCleanUp ---------------------------
(***************************************************************************)
(* FSMRegistry.forceCleanUp (TypeScript SDK, runtime/registry.ts) on a     *)
(* transaction that actors work on at the same time.  DELETE, MARK_FAIL    *)
(* and FORCE_UNLOCK are those of DfsmActor.forceCleanUp, and so is         *)
(* COMPENSATE when an actor of the transaction's machine is bound to the   *)
(* registry: that is CleanUpTake of SagaActor.  This module adds           *)
(* COMPENSATE when no such actor is bound.                                 *)
(***************************************************************************)
EXTENDS SagaActor

\* No bound actor: the row is set to COMPENSATED in one update.  The query of
\* the item and the update that its version guards are one step: an update
\* that comes between makes the second fail and change nothing.
CompensateWithoutActor(p) ==
    /\ p \in Admins /\ pc[p] = "idle"
    /\ cleanups < MaxCleanUps
    /\ Exists
    /\ cleanups' = cleanups + 1
    /\ UpdateTransaction(row.version,
           [row EXCEPT !.state = ErrorState, !.status = "COMPENSATED",
                       !.step = NoStep], <<>>)
    /\ UNCHANGED <<pc, loc, started, calls, sweeps, crashes, throws,
                   outcomes>>

RegistryNext == Next \/ \E p \in Procs : CompensateWithoutActor(p)

RegistrySpec == Init /\ [][RegistryNext]_vars
=============================================================================
