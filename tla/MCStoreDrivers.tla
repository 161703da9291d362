--------------------------- MODULE MCStoreDrivers ---------------------------
EXTENDS StoreDrivers

\* A transaction id is used once with MongoDB; with PostgreSQL it may be
\* deleted and created again.
MCScenarios ==
    {[driver |-> "postgres", creates |-> 2, ops |-> 6, crashes |-> 1, entries |-> 1],
     [driver |-> "mongodb", creates |-> 1, ops |-> 6, crashes |-> 1, entries |-> 2]}
=============================================================================
