-------------------------- MODULE MCActorLifecycle --------------------------
EXTENDS ActorLifecycle

\* t1 is in a state with STOP.
Actions(m) == [t \in Transactions |-> IF t = "t1" THEN "STOP" ELSE m]
Shared == [a \in Actors |-> "i"]
Own == [a \in Actors |-> IF a = "a1" THEN "i" ELSE "j"]

Scenario(ids, m, opens, admin, faults, leases) ==
    [idOf |-> ids, mode |-> Actions(m),
     budget |-> [opens |-> opens, admin |-> admin, faults |-> faults, leases |-> leases]]

\* Many administrative calls without work, or work with few of them and, in
\* some, with a store that rejects.
MCScenarios ==
    {Scenario(ids, "DELETE", 2, 2, 0, 0) : ids \in {Shared, Own}}
        \cup {Scenario(Own, "COMPENSATE", 2, 0, 0, 1), Scenario(Own, "MARK_FAIL", 2, 0, 1, 1)}
        \cup {Scenario(Own, m, 1, 0, 2, 1) : m \in {"DELETE", "COMPENSATE"}}
=============================================================================
