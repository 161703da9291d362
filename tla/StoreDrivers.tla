---------------------------- MODULE StoreDrivers ----------------------------
(***************************************************************************)
(* The PostgreSQL and MongoDB drivers of StateStore                        *)
(* (store/postgres-store.ts, store/mongodb-store.ts): operations that take *)
(* several round trips to the server, issued by concurrent clients for one *)
(* transaction id.  They are to implement the atomic operations of         *)
(* TransactionStore, on which SagaActor builds.                            *)
(*                                                                         *)
(* PostgreSQL runs an update in BEGIN ... COMMIT on a connection of the    *)
(* pool: its UPDATE locks the row and what it wrote is seen by others when *)
(* it commits.  A MongoDB document with its stack is read and written      *)
(* atomically.  The fields of the row but its version are abstracted.      *)
(***************************************************************************)
EXTENDS Integers, Sequences, FiniteSets, FiniteSetsExt

CONSTANTS
    Clients,       \* concurrent callers, of one process or of several
    PoolSize,      \* connections of the PostgreSQL pool
    Scenarios      \* drivers, and bounds: creations of the id, operations,
                   \* crashes, and entries appended by one update

Drivers == {"postgres", "mongodb"}
NoClient == "none"

ASSUME DriverAssumption ==
    /\ NoClient \notin Clients
    /\ PoolSize \in Nat \ {0}
    /\ Scenarios \subseteq [driver : Drivers, creates : Nat, ops : Nat,
                            crashes : Nat, entries : Nat]

VARIABLES
    scenario,
    row,           \* committed version of the row or document, 0 if none
    nextSeq,       \* nextCompStepSeq of the document (MongoDB only)
    entries,       \* committed compensation entries in the order they came
    lock,          \* the client whose transaction holds the row (PostgreSQL)
    client,        \* the operation of each client
    creations,     \* history: how often the id was created
    wins           \* history: the updates acknowledged, <<creation, version>>

vars == <<scenario, row, nextSeq, entries, lock, client, creations, wins>>
db == <<row, nextSeq, entries>>

\* held: the version the client read or wrote last.  version, stack: what
\* getTransaction is putting together.
Idle == [op |-> "idle", pc |-> "", held |-> 0, n |-> 0, base |-> 0,
         version |-> 0, stack |-> {}, due |-> {}, creation |-> 0]

Entry(seq) == [seq |-> seq, done |-> FALSE]
Seqs == {entries[i].seq : i \in DOMAIN entries}

Init ==
    /\ scenario \in Scenarios
    /\ row = 0 /\ nextSeq = 1 /\ entries = <<>> /\ lock = NoClient
    /\ client = [c \in Clients |-> Idle]
    /\ creations = 0 /\ wins = {}

At(c, op, pc) == client[c].op = op /\ client[c].pc = pc
Postgres == scenario.driver = "postgres"
Mongo == scenario.driver = "mongodb"

\* An operation starts.
Spend == scenario.ops > 0 /\ scenario' = [scenario EXCEPT !.ops = @ - 1]

\* The client goes on, or its operation ends with it knowing version v.
GoOn(c, pc) == client' = [client EXCEPT ![c].pc = pc]
Ended(c, v) == [client EXCEPT ![c] = [Idle EXCEPT !.held = v]]
End(c, v) == client' = Ended(c, v)

\* The connections that transactions hold.
Connected == {c \in Clients : client[c].op = "update"
                 /\ client[c].pc \in {"row", "max", "commit", "rollback"}}

-----------------------------------------------------------------------------
(* createTransaction and deleteTransactions: one statement each. *)

CreateTransaction(c) ==
    /\ client[c].op = "idle" /\ row = 0 /\ creations < scenario.creates
    /\ Spend
    /\ row' = 1 /\ nextSeq' = 1 /\ entries' = <<>>
    /\ creations' = creations + 1
    /\ End(c, 1)
    /\ UNCHANGED <<lock, wins>>

\* No version is compared; PostgreSQL waits for a transaction on the row.
DeleteTransactions(c) ==
    /\ client[c].op = "idle" /\ row > 0 /\ lock = NoClient
    /\ Spend
    /\ row' = 0 /\ nextSeq' = 1 /\ entries' = <<>>
    /\ End(c, 0)
    /\ UNCHANGED <<lock, creations, wins>>

\* An entry is marked by its stepSeq; MongoDB marks the first that matches.
MarkCompensationExecuted(c) ==
    /\ client[c].op = "idle" /\ Spend
    /\ \E seq \in Seqs :
           LET i == CHOOSE j \in DOMAIN entries :
                        /\ entries[j].seq = seq
                        /\ \A k \in 1..(j - 1) : entries[k].seq # seq
           IN  entries' = [entries EXCEPT ![i].done = TRUE]
    /\ UNCHANGED <<row, nextSeq, lock, client, creations, wins>>

-----------------------------------------------------------------------------
(* getTransaction. *)

\* The row is read; PostgreSQL reads its stack with a second query.
ReadRow(c) ==
    /\ client[c].op = "idle" /\ Spend
    /\ IF Postgres /\ row > 0
       THEN client' = [client EXCEPT ![c] =
                [Idle EXCEPT !.op = "get", !.pc = "stack", !.version = row,
                             !.due = Seqs, !.creation = creations]]
       ELSE End(c, row)
    /\ UNCHANGED <<db, lock, creations, wins>>

\* Faulty variant: the stack is read first and the row after it.
ReadStackBeforeRow(c) ==
    /\ At(c, "get", "stack")
    /\ client' = [client EXCEPT ![c].pc = "return", ![c].stack = client[c].due,
                                ![c].due = Seqs, ![c].version = row]
    /\ UNCHANGED <<scenario, db, lock, creations, wins>>

ReadStack(c) ==
    /\ At(c, "get", "stack")
    /\ client' = [client EXCEPT ![c].pc = "return", ![c].stack = Seqs]
    /\ UNCHANGED <<scenario, db, lock, creations, wins>>

GetReturns(c) ==
    /\ At(c, "get", "return")
    /\ End(c, client[c].version)
    /\ UNCHANGED <<scenario, db, lock, creations, wins>>

-----------------------------------------------------------------------------
(* updateTransaction. *)

BeginUpdate(c) ==
    /\ client[c].op = "idle" /\ client[c].held > 0 /\ Spend
    /\ \E n \in 0..scenario.entries :
           client' = [client EXCEPT ![c].op = "update", ![c].n = n,
                          ![c].pc = IF Postgres THEN "connect"
                                    ELSE IF n > 0 THEN "find" ELSE "write"]
    /\ UNCHANGED <<db, lock, creations, wins>>

\* Faulty variant: the filter lacks the version.
AnyVersion(v) == row > 0

VersionMatches(v) == row = v

Stale(c) == End(c, 0) /\ UNCHANGED <<db, lock, wins>>

Acknowledged(c) == wins' = wins \cup {<<creations, client[c].held>>}

\* MongoDB: nextCompStepSeq is fetched if there is anything to append.
FindNextSeq(c) ==
    /\ Mongo /\ At(c, "update", "find")
    /\ IF VersionMatches(client[c].held)
       THEN /\ client' = [client EXCEPT ![c].pc = "write", ![c].base = nextSeq]
            /\ UNCHANGED <<db, lock, wins>>
       ELSE Stale(c)
    /\ UNCHANGED <<scenario, creations>>

Appended(c, base) == [i \in 1..client[c].n |-> Entry(base + i - 1)]

\* MongoDB: updateOne by id and version.
UpdateOne(c) ==
    /\ Mongo /\ At(c, "update", "write")
    /\ IF VersionMatches(client[c].held)
       THEN /\ row' = client[c].held + 1
            /\ entries' = entries \o Appended(c, client[c].base)
            /\ nextSeq' = IF client[c].n > 0 THEN client[c].base + client[c].n
                          ELSE nextSeq
            /\ End(c, client[c].held + 1)
            /\ Acknowledged(c)
            /\ UNCHANGED lock
       ELSE Stale(c)
    /\ UNCHANGED <<scenario, creations>>

\* Faulty variant: a connection beyond those of the pool.
ConnectAnyway(c) ==
    /\ Postgres /\ At(c, "update", "connect")
    /\ GoOn(c, "row")
    /\ UNCHANGED <<scenario, db, lock, creations, wins>>

\* PostgreSQL: a connection of the pool, BEGIN.
Connect(c) ==
    /\ Postgres /\ At(c, "update", "connect")
    /\ Cardinality(Connected) < PoolSize
    /\ GoOn(c, "row")
    /\ UNCHANGED <<scenario, db, lock, creations, wins>>

\* PostgreSQL: UPDATE ... WHERE transaction_id = ? AND version = ?, which
\* waits for the transaction that has the row and looks at what it left.
UpdateRow(c) ==
    /\ Postgres /\ At(c, "update", "row") /\ lock = NoClient
    /\ IF VersionMatches(client[c].held)
       THEN lock' = c /\ GoOn(c, IF client[c].n > 0 THEN "max" ELSE "commit")
       ELSE UNCHANGED lock /\ GoOn(c, "rollback")
    /\ UNCHANGED <<scenario, db, creations, wins>>

\* PostgreSQL: SELECT COALESCE(MAX(step_seq), 0), then the INSERTs.
SelectMax(c) ==
    /\ Postgres /\ At(c, "update", "max")
    /\ client' = [client EXCEPT ![c].pc = "commit",
                                ![c].base = 1 + Max(Seqs \cup {0})]
    /\ UNCHANGED <<scenario, db, lock, creations, wins>>

\* Faulty variant: the row is committed without the entries.
CommitRowOnly(c) ==
    /\ Postgres /\ At(c, "update", "commit")
    /\ row' = client[c].held + 1
    /\ UNCHANGED <<nextSeq, entries>>
    /\ lock' = NoClient
    /\ End(c, client[c].held + 1)
    /\ Acknowledged(c)
    /\ UNCHANGED <<scenario, creations>>

Commit(c) ==
    /\ Postgres /\ At(c, "update", "commit")
    /\ row' = client[c].held + 1
    /\ entries' = entries \o Appended(c, client[c].base)
    /\ lock' = NoClient
    /\ End(c, client[c].held + 1)
    /\ Acknowledged(c)
    /\ UNCHANGED <<scenario, nextSeq, creations>>

\* Faulty variant: the error leaves without releasing the connection.
RollbackKeepsConnection(c) ==
    /\ At(c, "update", "rollback")
    /\ UNCHANGED vars

\* The error is thrown after ROLLBACK and release().
Rollback(c) ==
    /\ At(c, "update", "rollback")
    /\ Stale(c)
    /\ UNCHANGED <<scenario, creations>>

\* The connection is lost after the server has committed: the update is applied,
\* and its caller is told that it failed.
ReplyLost(c) ==
    /\ scenario.crashes > 0
    /\ \/ Postgres /\ At(c, "update", "commit")
       \/ Mongo /\ At(c, "update", "write") /\ VersionMatches(client[c].held)
    /\ scenario' = [scenario EXCEPT !.crashes = @ - 1]
    /\ row' = client[c].held + 1
    /\ entries' = entries \o Appended(c, client[c].base)
    /\ nextSeq' = IF Mongo /\ client[c].n > 0 THEN client[c].base + client[c].n
                  ELSE nextSeq
    /\ lock' = NoClient
    /\ End(c, 0)
    /\ UNCHANGED <<creations, wins>>

\* The connection or the process is lost before that: the server rolls back.
Crash(c) ==
    /\ client[c].op # "idle" /\ scenario.crashes > 0
    /\ scenario' = [scenario EXCEPT !.crashes = @ - 1]
    /\ lock' = IF lock = c THEN NoClient ELSE lock
    /\ End(c, 0)
    /\ UNCHANGED <<db, creations, wins>>

-----------------------------------------------------------------------------
Begin(c) ==
    \/ CreateTransaction(c) \/ DeleteTransactions(c) \/ MarkCompensationExecuted(c)
    \/ ReadRow(c) \/ BeginUpdate(c)

GoesOn(c) ==
    \/ ReadStack(c) \/ GetReturns(c) \/ FindNextSeq(c) \/ UpdateOne(c)
    \/ Connect(c) \/ UpdateRow(c) \/ SelectMax(c) \/ Commit(c) \/ Rollback(c)

Fails(c) == ReplyLost(c) \/ Crash(c)

Next == \E c \in Clients : Begin(c) \/ GoesOn(c) \/ Fails(c)

\* The server answers, and grants a lock or a connection that is free.
Spec == Init /\ [][Next]_vars /\ \A c \in Clients : WF_vars(GoesOn(c))

-----------------------------------------------------------------------------
(* Properties. *)

\* The row and the stack as TransactionStore has them.
MappedStack == [i \in DOMAIN entries |-> [call |-> 1, done |-> entries[i].done]]
MappedRow == [version |-> row, state |-> "s", status |-> "IDLE", step |-> 0,
              ctx |-> {}, stale |-> FALSE]

T == INSTANCE TransactionStore WITH
        row <- MappedRow, stack <- MappedStack, States <- {"s", "e"},
        InitialState <- "s", FinalStates <- {}, ErrorState <- "e", MaxCalls <- 1

\* The drivers implement the atomic store: what others can see changes by
\* whole creations, updates, marks and deletions of TransactionStore.
ImplementsTransactionStore ==
    T!StoreInit /\ [][\/ T!CreateTransaction
                      \/ \E c \in Clients :
                             /\ client[c].op = "update"
                             /\ T!UpdateTransaction(client[c].held, MappedRow,
                                                    T!NewEntries(1, client[c].n))
                      \/ \E i \in DOMAIN entries : T!MarkCompensationExecuted(i)
                      \/ T!DeleteTransactions]_<<MappedRow, MappedStack>>

TypeOK ==
    /\ row \in Nat /\ nextSeq \in Nat
    /\ lock # NoClient => Postgres /\ client[lock].op = "update"
    /\ Cardinality(Connected) <= PoolSize
    /\ \A c \in Clients : client[c].op \in {"idle", "get", "update"}

\* The stepSeq of the entries is 1, 2, ... in the order they were appended,
\* whichever updates raced: TransactionStore uses it as the index, and LIFO
\* order and the marking of entries rest on it.
StepSeqDense == \A i \in DOMAIN entries : entries[i].seq = i

\* Of the updates from one version of one creation at most one is acknowledged:
\* two workers that read the same version cannot both advance the saga.
OneWinner ==
    [][\A c \in Clients :
          client[c].op = "update" /\ client'[c].held = client[c].held + 1
              => <<creations, client[c].held>> \notin wins]_vars

\* PostgreSQL: row and stack of a snapshot come from two queries; the stack
\* holds at least what the row's version had, unless the id was deleted since.
SnapshotNotBehind ==
    \A c \in Clients :
        At(c, "get", "return") /\ client[c].creation = creations /\ row > 0 =>
            client[c].due \subseteq client[c].stack

\* No operation waits forever, for the lock or for a connection.
OperationsReturn == \A c \in Clients : client[c].op # "idle" ~> client[c].op = "idle"

=============================================================================
