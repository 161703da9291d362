------------------------- MODULE StoreDriversProofs -------------------------
(***************************************************************************)
(* Proofs about the PostgreSQL and MongoDB drivers: they implement         *)
(* TransactionStore, at most one update from a version is acknowledged, a  *)
(* snapshot is never behind its row, and stepSeq counts the entries.       *)
(*                                                                         *)
(* The invariant IInv has one part per reason: the row lock gives its      *)
(* holder the row (LockOK), versions grow within one life of the id        *)
(* (LivesOK), a read can only be overtaken by marks and more entries       *)
(* (ReadOK), and the next stepSeq read under a version is still the next   *)
(* one when that version is replaced (NumberOK, CounterOK).                *)
(***************************************************************************)
EXTENDS StoreDrivers, SequenceTheorems, FiniteSetTheorems,
        WellFoundedInduction, TLAPS

Stored == [seq : Nat, done : BOOLEAN]

Labels == {"", "stack", "return", "find", "write",
           "connect", "row", "max", "commit", "rollback"}

Operations == [op : {"idle", "get", "update"}, pc : Labels, held : Nat,
               n : Nat, base : Nat, version : Nat, stack : SUBSET Nat,
               due : SUBSET Nat, creation : Nat]

Bounds == [driver : Drivers, creates : Nat, ops : Nat, crashes : Nat,
           entries : Nat]

Types ==
    /\ scenario \in Bounds
    /\ row \in Nat /\ nextSeq \in Nat /\ creations \in Nat
    /\ entries \in Seq(Stored)
    /\ lock \in Clients \cup {NoClient}
    /\ client \in [Clients -> Operations]
    /\ wins \subseteq Nat \X Nat

Attached(r) ==
    r.op = "update" /\ r.pc \in {"row", "max", "commit", "rollback"}

PoolOK == IsFiniteSet(Connected) /\ Cardinality(Connected) <= PoolSize

\* Whoever is past the UPDATE holds the lock, and the row still has the
\* version that it compared.
Writing(r) == r.op = "update" /\ r.pc \in {"max", "commit"}

LockOK ==
    /\ \A c \in Clients : Writing(client[c]) => lock = c
    /\ lock # NoClient =>
           Postgres /\ Writing(client[lock]) /\ row = client[lock].held

\* The updates acknowledged in this life of the id left lower versions behind.
LivesOK ==
    /\ row = 0 => entries = <<>>
    /\ row > 0 => creations > 0
    /\ \A w \in wins : w[1] <= creations
    /\ row > 0 => \A w \in wins : w[1] = creations => w[2] < row

\* MongoDB numbers entries by the counter that the document had when it was
\* found.  The version says that it is still that document only while the id
\* has had one life.
OneLife == Postgres \/ creations <= 1

CounterOK ==
    OneLife => StepSeqDense /\ (Mongo => nextSeq = Len(entries) + 1)

\* What an operation r has read, if the row it read is still there.
ReadOK(r) ==
    r.op = "get" =>
        /\ r.creation <= creations
        /\ r.creation = creations /\ row > 0 =>
               /\ r.pc = "stack" => r.due \subseteq Seqs
               /\ r.pc = "return" => r.due \subseteq r.stack

\* In the first life of the id nobody knows a version beyond the row's.
VersionOK(r) ==
    /\ r.op = "update" => r.held > 0
    /\ creations = 0 => r.held = 0 /\ r.version = 0
    /\ creations = 1 /\ row > 0 => r.held <= row /\ r.version <= row

\* The next stepSeq, read under a version, is still the next one when that
\* version is about to be replaced.
NumberOK(r) ==
    OneLife /\ r.op = "update" /\ r.n > 0 =>
        /\ r.pc = "commit" => r.base = Len(entries) + 1
        /\ Mongo /\ r.pc = "write" /\ row = r.held =>
               r.base = Len(entries) + 1

OperationOK(r) == ReadOK(r) /\ VersionOK(r) /\ NumberOK(r)

IInv ==
    /\ Types /\ PoolOK /\ LockOK /\ LivesOK /\ CounterOK
    /\ \A c \in Clients : OperationOK(client[c])

-----------------------------------------------------------------------------
(* The initial states. *)

LEMMA IdleOperation ==
    /\ Idle \in Operations /\ Idle.op = "idle"
    /\ Idle.held = 0 /\ Idle.version = 0
BY DEF Idle, Operations, Labels

LEMMA InitIInv == Init => IInv
<1> SUFFICES ASSUME Init PROVE IInv
    OBVIOUS
<1>1. client = [c \in Clients |-> Idle]
    BY DEF Init
<1>2. \A c \in Clients : client[c].op = "idle" /\ client[c].held = 0
                         /\ client[c].version = 0
    BY <1>1, IdleOperation
<1>3. Types
  <2>1. scenario \in Bounds
    BY DriverAssumption DEF Init, Bounds
  <2>2. client \in [Clients -> Operations]
    BY <1>1, IdleOperation
  <2> QED BY <2>1, <2>2 DEF Init, Types
<1>4. PoolOK
  <2>1. Connected = {}
    BY <1>2 DEF Connected
  <2> QED BY <2>1, FS_EmptySet, DriverAssumption DEF PoolOK
<1>5. LockOK /\ LivesOK /\ CounterOK
    BY <1>2 DEF Init, LockOK, Writing, LivesOK, CounterOK, StepSeqDense
<1>6. \A c \in Clients : OperationOK(client[c])
    BY <1>2 DEF Init, OperationOK, ReadOK, VersionOK, NumberOK
<1> QED BY <1>3, <1>4, <1>5, <1>6 DEF IInv

-----------------------------------------------------------------------------
(* A step of one client that leaves the row and its stack alone. *)

LEMMA PoolStep ==
    ASSUME PoolOK, NEW c \in Clients,
           \A d \in Clients \ {c} : client'[d] = client[d],
           Attached(client'[c]) =>
               Attached(client[c]) \/ Cardinality(Connected) < PoolSize
    PROVE  PoolOK'
<1>1. Connected = {d \in Clients : Attached(client[d])}
    BY DEF Connected, Attached
<1>2. Connected' = {d \in Clients : Attached(client'[d])}
    BY DEF Connected, Attached
<1>3. CASE Connected' \subseteq Connected
    BY <1>3, FS_Subset, FS_CardinalityType, DriverAssumption DEF PoolOK
<1>4. CASE ~(Connected' \subseteq Connected)
  <2>1. Attached(client'[c]) /\ ~Attached(client[c])
    BY <1>1, <1>2, <1>4
  <2>2. Connected' \subseteq Connected \cup {c} /\ c \notin Connected
    BY <1>1, <1>2, <2>1
  <2>3. /\ IsFiniteSet(Connected \cup {c})
        /\ Cardinality(Connected \cup {c}) = Cardinality(Connected) + 1
        /\ Cardinality(Connected) \in Nat
    BY <2>2, FS_AddElement, FS_CardinalityType DEF PoolOK
  <2>4. /\ IsFiniteSet(Connected')
        /\ Cardinality(Connected') <= Cardinality(Connected \cup {c})
    BY <2>2, <2>3, FS_Subset
  <2>5. Cardinality(Connected') \in Nat
    BY <2>4, FS_CardinalityType
  <2> QED BY <2>1, <2>3, <2>4, <2>5, DriverAssumption DEF PoolOK
<1> QED BY <1>3, <1>4

\* The lock passes between nobody and the client that steps, who writes exactly
\* while holding it.
LEMMA LockStep ==
    ASSUME Types, Types', LockOK, NEW c \in Clients,
           \A d \in Clients \ {c} : client'[d] = client[d],
           UNCHANGED row, scenario'.driver = scenario.driver,
           lock' = lock \/ lock \in {c, NoClient},
           lock' \in {lock, c, NoClient},
           lock' = c <=> Writing(client'[c]),
           Writing(client'[c]) => Postgres /\ row = client'[c].held
    PROVE  LockOK'
<1>1. ASSUME NEW d \in Clients, Writing(client'[d]) PROVE lock' = d
  <2>1. CASE d = c
    BY <1>1, <2>1
  <2>2. CASE d # c
    <3>1. Writing(client[d]) /\ lock = d
      BY <1>1, <2>2 DEF LockOK
    <3> QED BY <2>2, <3>1, DriverAssumption
  <2> QED BY <2>1, <2>2
<1>2. ASSUME lock' # NoClient
      PROVE  /\ Postgres' /\ Writing(client'[lock'])
             /\ row' = client'[lock'].held
  <2>1. CASE lock' = c
    BY <2>1 DEF Postgres
  <2>2. CASE lock' # c
    <3>1. lock' = lock /\ lock \in Clients \ {c}
      BY <1>2, <2>2 DEF Types
    <3> QED BY <1>2, <3>1 DEF LockOK, Postgres
  <2> QED BY <2>1, <2>2
<1> QED BY <1>1, <1>2 DEF LockOK

LEMMA LocalStep ==
    ASSUME IInv, Types', NEW c \in Clients,
           \A d \in Clients \ {c} : client'[d] = client[d],
           UNCHANGED <<db, creations, wins>>, scenario'.driver = scenario.driver,
           lock' = lock \/ lock \in {c, NoClient},
           lock' \in {lock, c, NoClient},
           lock' = c <=> Writing(client'[c]),
           Writing(client'[c]) => Postgres /\ row = client'[c].held,
           Attached(client'[c]) =>
               Attached(client[c]) \/ Cardinality(Connected) < PoolSize,
           OperationOK(client'[c])
    PROVE  IInv'
<1>1. PoolOK'
    BY PoolStep DEF IInv
<1>2. LockOK'
    BY LockStep DEF IInv, db
<1>3. LivesOK' /\ CounterOK'
    BY DEF IInv, LivesOK, CounterOK, OneLife, StepSeqDense, Postgres, Mongo, db
<1>4. \A d \in Clients : OperationOK(client'[d])
    BY DEF IInv
<1>5. \A d \in Clients : OperationOK(client[d])'
    BY <1>4 DEF OperationOK, ReadOK, VersionOK, NumberOK, OneLife, Postgres,
                Mongo, Seqs, db
<1> QED BY <1>1, <1>2, <1>3, <1>5 DEF IInv

\* What spends an operation or a crash keeps the driver.
Spent == scenario' \in Bounds /\ scenario'.driver = scenario.driver

LEMMA SpendSpent == ASSUME Types, Spend PROVE Spent
BY DEF Types, Spend, Spent, Bounds

LEMMA UnspentSpent == ASSUME Types, UNCHANGED scenario PROVE Spent
BY DEF Types, Spent

\* Only who is past the UPDATE has the lock.
LEMMA NotLocking ==
    ASSUME IInv, NEW c \in Clients, ~Writing(client[c])
    PROVE  lock # c
BY DriverAssumption DEF IInv, LockOK

LEMMA EndedOperation ==
    ASSUME NEW v \in Nat, NEW r, r = [Idle EXCEPT !.held = v]
    PROVE  r \in Operations /\ r.op = "idle" /\ r.held = v /\ r.version = 0
BY DEF Idle, Operations, Labels

\* An operation that leaves with a version that the row may have.
LEMMA EndStep ==
    ASSUME IInv, NEW c \in Clients, NEW v \in Nat, End(c, v), Spent,
           UNCHANGED <<db, creations, wins>>,
           lock' = IF lock = c THEN NoClient ELSE lock,
           creations = 0 => v = 0,
           creations = 1 /\ row > 0 => v <= row
    PROVE  IInv'
<1>1. /\ client' \in [Clients -> Operations]
      /\ \A d \in Clients \ {c} : client'[d] = client[d]
      /\ client'[c].op = "idle" /\ client'[c].held = v
      /\ client'[c].version = 0
  <2>1. [Idle EXCEPT !.held = v] \in Operations
    BY EndedOperation
  <2>2. /\ client' \in [Clients -> Operations]
        /\ \A d \in Clients \ {c} : client'[d] = client[d]
        /\ client'[c] = [Idle EXCEPT !.held = v]
    BY <2>1 DEF End, Ended, IInv, Types
  <2> QED BY <2>2, EndedOperation
<1>2. Types'
  <2>1. lock' \in Clients \cup {NoClient}
    BY DEF IInv, Types
  <2> QED BY <1>1, <2>1 DEF IInv, Types, Spent, db
<1>3. ~Writing(client'[c]) /\ ~Attached(client'[c])
    BY <1>1 DEF Writing, Attached
<1>4. OperationOK(client'[c])
    BY <1>1 DEF IInv, Types, OperationOK, ReadOK, VersionOK, NumberOK
<1>5. lock' # c
    BY DriverAssumption
<1> QED BY <1>1, <1>2, <1>3, <1>4, <1>5, LocalStep DEF Spent

LEMMA StaleStep ==
    ASSUME IInv, NEW c \in Clients, Stale(c), UNCHANGED <<scenario, creations>>,
           ~Writing(client[c])
    PROVE  IInv'
<1>1. lock # c
    BY NotLocking
<1>2. Spent
    BY UnspentSpent DEF IInv
<1> QED BY <1>1, <1>2, EndStep DEF Stale, IInv, Types

LEMMA CrashInv ==
    ASSUME IInv, NEW c \in Clients, Crash(c) PROVE IInv'
<1>1. Spent
    BY DEF Crash, Spent, IInv, Types, Bounds
<1> QED BY <1>1, EndStep DEF Crash, IInv, Types

LEMMA RollbackInv ==
    ASSUME IInv, NEW c \in Clients, Rollback(c) PROVE IInv'
<1>1. ~Writing(client[c])
    BY DEF Rollback, At, Writing
<1> QED BY <1>1, StaleStep DEF Rollback

LEMMA GetReturnsInv ==
    ASSUME IInv, NEW c \in Clients, GetReturns(c) PROVE IInv'
<1>1. ~Writing(client[c])
    BY DEF GetReturns, At, Writing
<1>2. lock # c
    BY <1>1, NotLocking
<1>3. /\ client[c].version \in Nat /\ row \in Nat
      /\ creations = 0 => client[c].version = 0
      /\ creations = 1 /\ row > 0 => client[c].version <= row
    BY DEF IInv, Types, Operations, OperationOK, VersionOK
<1>4. Spent
    BY UnspentSpent DEF IInv, GetReturns
<1> QED BY <1>2, <1>3, <1>4, EndStep DEF GetReturns

\* A step within an operation.
LEMMA GoOnFields ==
    ASSUME Types, NEW c \in Clients, NEW label \in Labels, GoOn(c, label)
    PROVE  /\ client' \in [Clients -> Operations]
           /\ \A d \in Clients \ {c} : client'[d] = client[d]
           /\ client'[c] = [client[c] EXCEPT !.pc = label]
           /\ client[c] \in Operations
           /\ client'[c].op = client[c].op /\ client'[c].pc = label
           /\ client'[c].held = client[c].held /\ client'[c].n = client[c].n
           /\ client'[c].base = client[c].base
           /\ client'[c].version = client[c].version
<1>1. client \in [Clients -> Operations] /\ client[c] \in Operations
    BY DEF Types
<1>2. [client[c] EXCEPT !.pc = label] \in Operations
    BY <1>1 DEF Operations
<1>3. /\ client' \in [Clients -> Operations]
      /\ \A d \in Clients \ {c} : client'[d] = client[d]
      /\ client'[c] = [client[c] EXCEPT !.pc = label]
    BY <1>1, <1>2 DEF GoOn
<1> QED BY <1>1, <1>3 DEF Operations

LEMMA ConnectInv ==
    ASSUME IInv, NEW c \in Clients, Connect(c) PROVE IInv'
<1> DEFINE label == "row"
<1>1. /\ GoOn(c, label) /\ UNCHANGED <<scenario, db, lock, creations, wins>>
      /\ label \in Labels /\ label \notin {"max", "commit", "write"}
      /\ client[c].op = "update" /\ client[c].pc = "connect"
      /\ Cardinality(Connected) < PoolSize
    BY DEF Connect, At, Labels
<1> HIDE DEF label
<1>2. /\ client' \in [Clients -> Operations]
      /\ \A d \in Clients \ {c} : client'[d] = client[d]
      /\ client'[c].op = "update" /\ client'[c].pc = label
      /\ client'[c].held = client[c].held
      /\ client'[c].version = client[c].version
    BY <1>1, GoOnFields DEF IInv
<1>3. Types'
    BY <1>1, <1>2 DEF IInv, Types, db
<1>4. ~Writing(client[c]) /\ ~Writing(client'[c])
    BY <1>1, <1>2 DEF Writing
<1>5. lock # c
    BY <1>4, NotLocking
<1>6. OperationOK(client'[c])
    BY <1>1, <1>2 DEF IInv, OperationOK, ReadOK, VersionOK, NumberOK
<1> QED BY <1>1, <1>2, <1>3, <1>4, <1>5, <1>6, LocalStep

LEMMA UpdateRowInv ==
    ASSUME IInv, NEW c \in Clients, UpdateRow(c) PROVE IInv'
<1> DEFINE label == IF ~VersionMatches(client[c].held) THEN "rollback"
                    ELSE IF client[c].n > 0 THEN "max" ELSE "commit"
<1>1. /\ GoOn(c, label) /\ UNCHANGED <<scenario, db, creations, wins>>
      /\ label \in Labels /\ label # "write"
      /\ label = "commit" => ~(client[c].n > 0)
      /\ label \in {"max", "commit"} <=> VersionMatches(client[c].held)
      /\ client[c].op = "update" /\ client[c].pc = "row"
      /\ Postgres /\ lock = NoClient
      /\ lock' = IF VersionMatches(client[c].held) THEN c ELSE lock
    BY DEF UpdateRow, At, Labels
<1> HIDE DEF label
<1>2. /\ client' \in [Clients -> Operations]
      /\ \A d \in Clients \ {c} : client'[d] = client[d]
      /\ client'[c].op = "update" /\ client'[c].pc = label
      /\ client'[c].held = client[c].held
      /\ client'[c].version = client[c].version
      /\ client'[c].n = client[c].n
    BY <1>1, GoOnFields DEF IInv
<1>3. Types'
    BY <1>1, <1>2 DEF IInv, Types, db
<1>4. /\ Writing(client'[c]) <=> VersionMatches(client[c].held)
      /\ Attached(client[c])
    BY <1>1, <1>2 DEF Writing, Attached
<1>5. lock' = c <=> Writing(client'[c])
    BY <1>1, <1>4, DriverAssumption
<1>6. Writing(client'[c]) => Postgres /\ row = client'[c].held
    BY <1>1, <1>2, <1>4 DEF VersionMatches
<1>7. OperationOK(client'[c])
    BY <1>1, <1>2 DEF IInv, OperationOK, ReadOK, VersionOK, NumberOK
<1> QED BY <1>1, <1>2, <1>3, <1>4, <1>5, <1>6, <1>7, LocalStep

\* With PostgreSQL MAX(step_seq) is the number of entries.
LEMMA MaxIsLength ==
    ASSUME IInv, Postgres
    PROVE  Len(entries) \in Nat /\ Max(Seqs \cup {0}) = Len(entries)
<1> DEFINE n == Len(entries)
           S == Seqs \cup {0}
<1>1. n \in Nat /\ DOMAIN entries = 1..n
    BY LenProperties DEF IInv, Types
<1>2. \A i \in DOMAIN entries : entries[i].seq = i
    BY DEF IInv, CounterOK, OneLife, StepSeqDense
<1>3. Seqs = 1..n
    BY <1>1, <1>2 DEF Seqs
<1>4. n \in S /\ (\A y \in S : y \in Nat /\ n >= y)
    BY <1>1, <1>3
<1>5. Max(S) \in S /\ \A y \in S : Max(S) >= y
    BY <1>4 DEF Max
<1> HIDE DEF S
<1>6. Max(S) = n
    BY <1>1, <1>4, <1>5
<1> QED BY <1>1, <1>6 DEF S

LEMMA SelectMaxInv ==
    ASSUME IInv, NEW c \in Clients, SelectMax(c) PROVE IInv'
<1> DEFINE next == 1 + Max(Seqs \cup {0})
           label == "commit"
<1>1. /\ client' = [client EXCEPT ![c].pc = label, ![c].base = next]
      /\ UNCHANGED <<scenario, db, lock, creations, wins>>
      /\ label \in Labels /\ label \in {"max", "commit"} /\ label # "write"
      /\ client[c].op = "update" /\ client[c].pc = "max" /\ Postgres
    BY DEF SelectMax, At, Labels
<1>2. next = Len(entries) + 1 /\ next \in Nat
    BY <1>1, MaxIsLength
<1> HIDE DEF next, label
<1>3. client \in [Clients -> Operations] /\ client[c] \in Operations
    BY DEF IInv, Types
<1>4. [client[c] EXCEPT !.pc = label, !.base = next] \in Operations
    BY <1>1, <1>2, <1>3 DEF Operations
<1>5. /\ client' \in [Clients -> Operations]
      /\ \A d \in Clients \ {c} : client'[d] = client[d]
      /\ client'[c] = [client[c] EXCEPT !.pc = label, !.base = next]
    BY <1>1, <1>3, <1>4
<1>6. /\ client'[c].op = "update" /\ client'[c].pc = label
      /\ client'[c].held = client[c].held /\ client'[c].base = next
      /\ client'[c].version = client[c].version
    BY <1>1, <1>3, <1>5 DEF Operations
<1>7. Types'
    BY <1>1, <1>5 DEF IInv, Types, db
<1>8. Writing(client[c]) /\ Writing(client'[c]) /\ Attached(client[c])
    BY <1>1, <1>6 DEF Writing, Attached
<1>9. lock = c /\ row = client'[c].held
    BY <1>6, <1>8, DriverAssumption DEF IInv, LockOK
<1>10. OperationOK(client'[c])
    BY <1>1, <1>2, <1>6 DEF IInv, OperationOK, ReadOK, VersionOK, NumberOK
<1> QED BY <1>1, <1>5, <1>7, <1>8, <1>9, <1>10, LocalStep

\* The first read of an update to a MongoDB document, and the first step of
\* any update.
LEMMA FindNextSeqInv ==
    ASSUME IInv, NEW c \in Clients, FindNextSeq(c) PROVE IInv'
<1> DEFINE label == "write"
<1>1. /\ client[c].op = "update" /\ client[c].pc = "find" /\ Mongo
      /\ UNCHANGED <<scenario, creations>>
      /\ label \in Labels
      /\ label \notin {"max", "commit", "row", "rollback", "find"}
    BY DEF FindNextSeq, At, Labels
<1>2. ~Writing(client[c])
    BY <1>1 DEF Writing
<1>3. lock # c
    BY <1>2, NotLocking
<1>4. CASE ~VersionMatches(client[c].held)
    BY <1>1, <1>2, <1>4, StaleStep DEF FindNextSeq
<1>5. CASE VersionMatches(client[c].held)
  <2>1. /\ client' = [client EXCEPT ![c].pc = label, ![c].base = nextSeq]
        /\ UNCHANGED <<db, lock, wins>>
    BY <1>5 DEF FindNextSeq
  <2> HIDE DEF label
  <2>2. client \in [Clients -> Operations] /\ client[c] \in Operations
        /\ nextSeq \in Nat
    BY DEF IInv, Types
  <2>3. [client[c] EXCEPT !.pc = label, !.base = nextSeq] \in Operations
    BY <1>1, <2>2 DEF Operations
  <2>4. /\ client' \in [Clients -> Operations]
        /\ \A d \in Clients \ {c} : client'[d] = client[d]
        /\ client'[c] = [client[c] EXCEPT !.pc = label, !.base = nextSeq]
    BY <2>1, <2>2, <2>3
  <2>5. /\ client'[c].op = "update" /\ client'[c].pc = label
        /\ client'[c].held = client[c].held /\ client'[c].base = nextSeq
        /\ client'[c].version = client[c].version
    BY <1>1, <2>2, <2>4 DEF Operations
  <2>6. Types'
    BY <1>1, <2>1, <2>4 DEF IInv, Types, db
  <2>7. ~Writing(client'[c]) /\ ~Attached(client'[c])
    BY <1>1, <2>5 DEF Writing, Attached
  <2>8. OperationOK(client'[c])
    BY <1>1, <2>5
       DEF IInv, CounterOK, OperationOK, ReadOK, VersionOK, NumberOK
  <2> QED BY <1>1, <1>3, <2>1, <2>4, <2>6, <2>7, <2>8, LocalStep
<1> QED BY <1>4, <1>5

LEMMA BeginUpdateInv ==
    ASSUME IInv, NEW c \in Clients, BeginUpdate(c) PROVE IInv'
<1>1. PICK n \in 0..scenario.entries :
          client' = [client EXCEPT ![c].op = "update", ![c].n = n,
                         ![c].pc = IF Postgres THEN "connect"
                                   ELSE IF n > 0 THEN "find" ELSE "write"]
    BY DEF BeginUpdate
<1> DEFINE label == IF Postgres THEN "connect"
                    ELSE IF n > 0 THEN "find" ELSE "write"
           update == "update"
<1>2. /\ client' = [client EXCEPT ![c].op = update, ![c].n = n,
                                  ![c].pc = label]
      /\ label \in Labels
      /\ label \notin {"row", "max", "commit", "rollback"}
      /\ n > 0 => label # "write"
      /\ update \in {"idle", "get", "update"} /\ update # "get"
    BY <1>1 DEF Labels
<1>3. /\ UNCHANGED <<db, lock, creations, wins>> /\ Spent
      /\ client[c].op = "idle" /\ client[c].held > 0
    BY SpendSpent DEF BeginUpdate, IInv
<1> HIDE DEF label, update
<1>4. /\ client \in [Clients -> Operations] /\ client[c] \in Operations
      /\ n \in Nat
    BY DEF IInv, Types, Bounds
<1>5. [client[c] EXCEPT !.op = update, !.n = n, !.pc = label] \in Operations
    BY <1>2, <1>4 DEF Operations
<1>6. /\ client' \in [Clients -> Operations]
      /\ \A d \in Clients \ {c} : client'[d] = client[d]
      /\ client'[c] = [client[c] EXCEPT !.op = update, !.n = n, !.pc = label]
    BY <1>2, <1>4, <1>5
<1>7. /\ client'[c].op = update /\ client'[c].pc = label
      /\ client'[c].held = client[c].held /\ client'[c].n = n
      /\ client'[c].version = client[c].version
    BY <1>4, <1>6 DEF Operations
<1>8. Types'
    BY <1>3, <1>6 DEF IInv, Types, Spent, db
<1>9. ~Writing(client[c]) /\ ~Writing(client'[c]) /\ ~Attached(client'[c])
    BY <1>2, <1>3, <1>7 DEF Writing, Attached
<1>10. lock # c
    BY <1>9, NotLocking
<1>11. OperationOK(client'[c])
    BY <1>2, <1>3, <1>4, <1>7
       DEF IInv, OperationOK, ReadOK, VersionOK, NumberOK
<1> QED BY <1>3, <1>6, <1>8, <1>9, <1>10, <1>11, LocalStep DEF Spent

-----------------------------------------------------------------------------
(* getTransaction. *)

LEMMA SeqsType == ASSUME Types PROVE Seqs \in SUBSET Nat
<1>1. entries \in Seq(Stored)
    BY DEF Types
<1>2. ASSUME NEW i \in DOMAIN entries PROVE entries[i].seq \in Nat
  <2>1. entries[i] \in Stored
    BY <1>1
  <2> QED BY <2>1 DEF Stored
<1> QED BY <1>2 DEF Seqs

LEMMA ReadRowInv ==
    ASSUME IInv, NEW c \in Clients, ReadRow(c) PROVE IInv'
<1>1. /\ client[c].op = "idle" /\ Spent
      /\ UNCHANGED <<db, lock, creations, wins>>
    BY SpendSpent DEF ReadRow, IInv
<1>2. ~Writing(client[c])
    BY <1>1 DEF Writing
<1>3. lock # c
    BY <1>2, NotLocking
<1>4. CASE ~(Postgres /\ row > 0)
  <2>1. End(c, row) /\ row \in Nat /\ (creations = 0 => row = 0)
    BY <1>4 DEF ReadRow, IInv, Types, LivesOK
  <2> QED BY <1>1, <1>3, <2>1, EndStep
<1>5. CASE Postgres /\ row > 0
  <2> DEFINE get == "get"
             label == "stack"
             r == [Idle EXCEPT !.op = get, !.pc = label, !.version = row,
                               !.due = Seqs, !.creation = creations]
  <2>1. /\ client' = [client EXCEPT ![c] = r]
        /\ get \in {"idle", "get", "update"} /\ get # "update"
        /\ label \in Labels /\ label # "return"
    BY <1>5 DEF ReadRow, Labels
  <2>2. row \in Nat /\ creations \in Nat /\ Seqs \in SUBSET Nat
    BY SeqsType DEF IInv, Types
  <2>3. r = [Idle EXCEPT !.op = get, !.pc = label, !.version = row,
                         !.due = Seqs, !.creation = creations]
    OBVIOUS
  <2> HIDE DEF r, get, label
  <2>4. /\ r \in Operations /\ r.op = get /\ r.pc = label /\ r.held = 0
        /\ r.version = row /\ r.due = Seqs /\ r.creation = creations
    BY <2>1, <2>2, <2>3 DEF Idle, Operations
  <2>5. /\ client' \in [Clients -> Operations]
        /\ \A d \in Clients \ {c} : client'[d] = client[d]
        /\ client'[c] = r
    BY <2>1, <2>4 DEF IInv, Types
  <2>6. Types'
    BY <1>1, <2>5 DEF IInv, Types, Spent, db
  <2>7. ~Writing(client'[c]) /\ ~Attached(client'[c])
    BY <2>1, <2>4, <2>5 DEF Writing, Attached
  <2>8. OperationOK(r)
    BY <1>5, <2>1, <2>2, <2>4
       DEF IInv, LivesOK, OperationOK, ReadOK, VersionOK, NumberOK
  <2> QED BY <1>1, <1>3, <2>5, <2>6, <2>7, <2>8, LocalStep DEF Spent
<1> QED BY <1>4, <1>5

LEMMA ReadStackInv ==
    ASSUME IInv, NEW c \in Clients, ReadStack(c) PROVE IInv'
<1> DEFINE label == "return"
<1>1. /\ client' = [client EXCEPT ![c].pc = label, ![c].stack = Seqs]
      /\ UNCHANGED <<scenario, db, lock, creations, wins>>
      /\ label \in Labels /\ label # "stack"
      /\ client[c].op = "get" /\ client[c].pc = "stack"
    BY DEF ReadStack, At, Labels
<1> HIDE DEF label
<1>2. client \in [Clients -> Operations] /\ client[c] \in Operations
    BY DEF IInv, Types
<1>3. Seqs \in SUBSET Nat
    BY SeqsType DEF IInv
<1>4. [client[c] EXCEPT !.pc = label, !.stack = Seqs] \in Operations
    BY <1>1, <1>2, <1>3 DEF Operations
<1>5. /\ client' \in [Clients -> Operations]
      /\ \A d \in Clients \ {c} : client'[d] = client[d]
      /\ client'[c] = [client[c] EXCEPT !.pc = label, !.stack = Seqs]
    BY <1>1, <1>2, <1>4
<1>6. /\ client'[c].op = "get" /\ client'[c].pc = label
      /\ client'[c].held = client[c].held /\ client'[c].stack = Seqs
      /\ client'[c].version = client[c].version
      /\ client'[c].due = client[c].due
      /\ client'[c].creation = client[c].creation
    BY <1>1, <1>2, <1>5 DEF Operations
<1>7. Types'
    BY <1>1, <1>5 DEF IInv, Types, db
<1>8. ~Writing(client[c]) /\ ~Writing(client'[c]) /\ ~Attached(client'[c])
    BY <1>1, <1>6 DEF Writing, Attached
<1>9. lock # c
    BY <1>8, NotLocking
<1>10. OperationOK(client'[c])
    BY <1>1, <1>6 DEF IInv, OperationOK, ReadOK, VersionOK, NumberOK
<1> QED BY <1>1, <1>5, <1>7, <1>8, <1>9, <1>10, LocalStep

-----------------------------------------------------------------------------
(* The steps that change the row or its stack. *)

\* An update appends its entries at base, base + 1, ...
LEMMA AppendedEntries ==
    ASSUME Types, NEW c \in Clients,
           entries' = entries \o Appended(c, client[c].base)
    PROVE  /\ entries' \in Seq(Stored)
           /\ Len(entries) \in Nat /\ Len(entries') = Len(entries) + client[c].n
           /\ \A i \in 1..Len(entries) : entries'[i] = entries[i]
           /\ \A i \in (Len(entries) + 1)..Len(entries') :
                  /\ entries'[i].seq = client[c].base + (i - Len(entries)) - 1
                  /\ entries'[i].done = FALSE
           /\ Seqs \subseteq Seqs'
<1> DEFINE n == client[c].n
           base == client[c].base
           es == Appended(c, base)
<1>1. n \in Nat /\ base \in Nat /\ entries \in Seq(Stored)
    BY DEF Types, Operations
<1>2. /\ es = [i \in 1..n |-> Entry(base + i - 1)]
      /\ entries' = entries \o es
    BY DEF Appended
<1> HIDE DEF es, n, base
<1>3. ASSUME NEW i \in 1..n
      PROVE  /\ Entry(base + i - 1) \in Stored
             /\ Entry(base + i - 1).seq = base + i - 1
             /\ Entry(base + i - 1).done = FALSE
    BY <1>1 DEF Entry, Stored
<1>4. es \in Seq(Stored) /\ Len(es) = n
  <2>1. es \in [1..n -> Stored]
    BY <1>2, <1>3
  <2> QED BY <1>1, <2>1
<1>5. /\ entries' \in Seq(Stored) /\ Len(entries') = Len(entries) + Len(es)
      /\ \A i \in 1..(Len(entries) + Len(es)) :
             entries'[i] = IF i <= Len(entries) THEN entries[i]
                           ELSE es[i - Len(entries)]
    BY <1>1, <1>2, <1>4, ConcatProperties
<1>6. Len(entries) \in Nat /\ Len(entries') = Len(entries) + n
    BY <1>1, <1>4, <1>5, LenProperties
<1>7. \A i \in 1..Len(entries) : entries'[i] = entries[i]
    BY <1>1, <1>5, <1>6
<1>8. ASSUME NEW i \in (Len(entries) + 1)..Len(entries')
      PROVE  /\ entries'[i].seq = base + (i - Len(entries)) - 1
             /\ entries'[i].done = FALSE
  <2>1. /\ i \in 1..(Len(entries) + n) /\ ~(i <= Len(entries))
        /\ i - Len(entries) \in 1..n
    BY <1>1, <1>6
  <2>2. entries'[i] = es[i - Len(entries)]
    BY <1>4, <1>5, <2>1
  <2>3. entries'[i] = Entry(base + (i - Len(entries)) - 1)
    BY <1>2, <2>1, <2>2
  <2> QED BY <1>3, <2>1, <2>3
<1>9. Seqs \subseteq Seqs'
  <2>1. DOMAIN entries = 1..Len(entries) /\ DOMAIN entries' = 1..Len(entries')
    BY <1>1, <1>5
  <2> QED BY <1>1, <1>6, <1>7, <2>1 DEF Seqs
<1> QED BY <1>5, <1>6, <1>7, <1>8, <1>9 DEF n, base

\* An update that is applied: its version was the row's, and is replaced.  The
\* client knows, unless the reply is lost.
LEMMA UpdateStep ==
    ASSUME IInv, NEW c \in Clients, client[c].op = "update",
           row = client[c].held, row' = row + 1,
           entries' = entries \o Appended(c, client[c].base),
           OneLife /\ client[c].n > 0 => client[c].base = Len(entries) + 1,
           nextSeq' = IF Mongo /\ client[c].n > 0
                      THEN client[c].base + client[c].n ELSE nextSeq,
           NEW v \in {0, row + 1}, End(c, v), wins' = wins \/ Acknowledged(c),
           Spent, UNCHANGED creations, lock \in {c, NoClient}, lock' = NoClient
    PROVE  IInv'
<1>1. /\ row \in Nat /\ row > 0 /\ creations \in Nat /\ creations > 0
      /\ client[c] \in Operations /\ client[c].n \in Nat
      /\ client[c].base \in Nat /\ nextSeq \in Nat
    BY DEF IInv, Types, Operations, OperationOK, VersionOK, LivesOK
<1>2. /\ client' \in [Clients -> Operations]
      /\ \A d \in Clients \ {c} : client'[d] = client[d]
      /\ client'[c].op = "idle" /\ client'[c].held = v
      /\ client'[c].version = 0
  <2> DEFINE r == [Idle EXCEPT !.held = v]
  <2>1. v \in Nat
    BY <1>1
  <2>2. r \in Operations /\ r.op = "idle" /\ r.held = v /\ r.version = 0
    BY <2>1, EndedOperation
  <2>3. client' = [client EXCEPT ![c] = r]
    BY DEF End, Ended
  <2> HIDE DEF r
  <2>4. /\ client' \in [Clients -> Operations]
        /\ \A d \in Clients \ {c} : client'[d] = client[d]
        /\ client'[c] = r
    BY <2>2, <2>3 DEF IInv, Types
  <2> QED BY <2>2, <2>4
<1>3. /\ entries' \in Seq(Stored)
      /\ Len(entries) \in Nat /\ Len(entries') = Len(entries) + client[c].n
      /\ \A i \in 1..Len(entries) : entries'[i] = entries[i]
      /\ \A i \in (Len(entries) + 1)..Len(entries') :
             entries'[i].seq = client[c].base + (i - Len(entries)) - 1
      /\ Seqs \subseteq Seqs'
    BY AppendedEntries DEF IInv
<1>4. Types'
  <2>1. wins' \subseteq Nat \X Nat
    BY <1>1 DEF IInv, Types, Acknowledged
  <2>2. row' \in Nat /\ nextSeq' \in Nat
    BY <1>1
  <2> QED BY <1>2, <1>3, <2>1, <2>2 DEF IInv, Types, Spent
<1>5. ~Writing(client'[c]) /\ ~Attached(client'[c])
    BY <1>2 DEF Writing, Attached
<1>6. PoolOK'
    BY <1>2, <1>5, PoolStep DEF IInv
<1>7. \A d \in Clients : ~Writing(client'[d])
    BY <1>2, <1>5, DriverAssumption DEF IInv, LockOK
<1>8. LockOK'
    BY <1>7 DEF LockOK
<1>9. LivesOK'
  <2>1. \A w \in wins : w[1] <= creations /\ (w[1] = creations => w[2] < row)
                        /\ w[2] \in Nat
    BY <1>1 DEF IInv, LivesOK, Types
  <2>2. wins' = wins \/ wins' = wins \cup {<<creations, row>>}
    BY DEF Acknowledged
  <2> QED BY <1>1, <2>1, <2>2 DEF LivesOK
<1>10. CounterOK'
  <2> SUFFICES ASSUME OneLife
               PROVE  StepSeqDense' /\ (Mongo => nextSeq' = Len(entries') + 1)
    BY DEF CounterOK, OneLife, Mongo, Postgres, Spent
  <2>1. StepSeqDense /\ (Mongo => nextSeq = Len(entries) + 1)
    BY DEF IInv, CounterOK
  <2>2. DOMAIN entries = 1..Len(entries) /\ DOMAIN entries' = 1..Len(entries')
    BY <1>3 DEF IInv, Types
  <2>3. ASSUME NEW i \in 1..Len(entries') PROVE entries'[i].seq = i
    <3>1. CASE i <= Len(entries)
      <4>1. i \in 1..Len(entries)
        BY <1>3, <3>1
      <4> QED BY <1>3, <2>1, <2>2, <4>1 DEF StepSeqDense
    <3>2. CASE ~(i <= Len(entries))
      <4>1. i \in (Len(entries) + 1)..Len(entries') /\ client[c].n > 0
        BY <1>1, <1>3, <3>2
      <4>2. entries'[i].seq = client[c].base + (i - Len(entries)) - 1
        BY <1>3, <4>1
      <4> QED BY <1>3, <4>1, <4>2
    <3> QED BY <3>1, <3>2
  <2>4. StepSeqDense'
    BY <2>2, <2>3 DEF StepSeqDense
  <2>5. Mongo => nextSeq' = Len(entries') + 1
    <3>1. CASE client[c].n > 0
      <4>1. client[c].base = Len(entries) + 1
        BY <3>1
      <4>2. Mongo => nextSeq' = client[c].base + client[c].n
        BY <3>1
      <4>3. /\ Len(entries) \in Nat /\ client[c].n \in Nat
            /\ Len(entries') = Len(entries) + client[c].n
        BY <1>1, <1>3
      <4>4. client[c].base + client[c].n = Len(entries') + 1
        BY ONLY <4>1, <4>3
      <4> QED BY ONLY <4>2, <4>4
    <3>2. CASE ~(client[c].n > 0)
      <4>1. client[c].n = 0 /\ nextSeq' = nextSeq
        BY <1>1, <3>2
      <4> QED BY <1>1, <1>3, <2>1, <4>1
    <3> QED BY <3>1, <3>2
  <2> QED BY <2>4, <2>5
<1>11. ASSUME NEW d \in Clients PROVE OperationOK(client[d])'
  <2>1. CASE d = c
    BY <1>1, <1>2, <2>1 DEF OperationOK, ReadOK, VersionOK, NumberOK
  <2>2. CASE d # c
    <3>1. client'[d] = client[d] /\ OperationOK(client[d])
          /\ client[d] \in Operations
      BY <1>2, <2>2 DEF IInv, Types
    <3>2. ReadOK(client[d])'
      BY <1>1, <1>3, <3>1 DEF OperationOK, ReadOK
    <3>3. VersionOK(client[d])'
      <4>1. client[d].held \in Nat /\ client[d].version \in Nat /\ VersionOK(client[d])
        BY <3>1 DEF OperationOK, Operations
      <4> QED BY ONLY <1>1, <3>1, <4>1, row' = row + 1, creations' = creations
              DEF VersionOK
    <3>4. NumberOK(client[d])'
      <4>1. ~Writing(client[d])
        BY <1>7, <3>1
      <4>2. client[d].held \in Nat /\ VersionOK(client[d])
        BY <3>1 DEF OperationOK, Operations
      <4>3. creations = 1 => row' # client[d].held
        BY ONLY <1>1, <4>2, row' = row + 1 DEF VersionOK
      <4>4. Mongo /\ OneLife => row' # client[d].held
        BY <1>1, <4>3 DEF OneLife, Mongo, Postgres
      <4> QED BY <3>1, <4>1, <4>4
              DEF NumberOK, Writing, OneLife, Mongo, Postgres, Spent
    <3> QED BY <3>1, <3>2, <3>3, <3>4 DEF OperationOK
  <2> QED BY <2>1, <2>2
<1> QED BY <1>4, <1>6, <1>8, <1>9, <1>10, <1>11 DEF IInv

LEMMA CommitInv ==
    ASSUME IInv, NEW c \in Clients, Commit(c) PROVE IInv'
<1>1. /\ client[c].op = "update" /\ client[c].pc = "commit" /\ Postgres
      /\ row' = client[c].held + 1
      /\ entries' = entries \o Appended(c, client[c].base)
      /\ lock' = NoClient /\ End(c, client[c].held + 1) /\ Acknowledged(c)
      /\ UNCHANGED <<scenario, nextSeq, creations>>
    BY DEF Commit, At
<1>2. lock = c /\ row = client[c].held
    BY <1>1, DriverAssumption DEF IInv, LockOK, Writing
<1>3. OneLife /\ client[c].n > 0 => client[c].base = Len(entries) + 1
    BY <1>1 DEF IInv, OperationOK, NumberOK
<1>4. ~Mongo /\ Spent
    BY <1>1, UnspentSpent DEF Mongo, Postgres, IInv
<1> QED BY <1>1, <1>2, <1>3, <1>4, UpdateStep

LEMMA UpdateOneInv ==
    ASSUME IInv, NEW c \in Clients, UpdateOne(c) PROVE IInv'
<1>1. /\ client[c].op = "update" /\ client[c].pc = "write" /\ Mongo
      /\ UNCHANGED <<scenario, creations>>
    BY DEF UpdateOne, At
<1>2. ~Writing(client[c])
    BY <1>1 DEF Writing
<1>3. CASE ~VersionMatches(client[c].held)
    BY <1>1, <1>2, <1>3, StaleStep DEF UpdateOne
<1>4. CASE VersionMatches(client[c].held)
  <2>1. /\ row = client[c].held /\ row' = client[c].held + 1
        /\ entries' = entries \o Appended(c, client[c].base)
        /\ nextSeq' = IF client[c].n > 0 THEN client[c].base + client[c].n
                      ELSE nextSeq
        /\ End(c, client[c].held + 1) /\ Acknowledged(c) /\ UNCHANGED lock
    BY <1>4 DEF UpdateOne, VersionMatches
  <2>2. lock = NoClient
    BY <1>1, DriverAssumption DEF IInv, Types, LockOK, Mongo, Postgres
  <2>3. OneLife /\ client[c].n > 0 => client[c].base = Len(entries) + 1
    BY <1>1, <2>1 DEF IInv, OperationOK, NumberOK
  <2>4. Spent
    BY <1>1, UnspentSpent DEF IInv
  <2> QED BY <1>1, <2>1, <2>2, <2>3, <2>4, UpdateStep
<1> QED BY <1>3, <1>4

LEMMA ReplyLostInv ==
    ASSUME IInv, NEW c \in Clients, ReplyLost(c) PROVE IInv'
<1>1. /\ client[c].op = "update" /\ row' = client[c].held + 1
      /\ entries' = entries \o Appended(c, client[c].base)
      /\ nextSeq' = IF Mongo /\ client[c].n > 0
                    THEN client[c].base + client[c].n ELSE nextSeq
      /\ lock' = NoClient /\ End(c, 0) /\ UNCHANGED <<creations, wins>>
    BY DEF ReplyLost, At
<1>2. Spent
    BY DEF ReplyLost, Spent, IInv, Types, Bounds
<1>3. CASE Postgres /\ client[c].pc = "commit"
  <2>1. lock = c /\ row = client[c].held
    BY <1>1, <1>3, DriverAssumption DEF IInv, LockOK, Writing
  <2>2. OneLife /\ client[c].n > 0 => client[c].base = Len(entries) + 1
    BY <1>1, <1>3 DEF IInv, OperationOK, NumberOK
  <2> QED BY <1>1, <1>2, <2>1, <2>2, UpdateStep
<1>4. CASE Mongo /\ client[c].pc = "write" /\ row = client[c].held
  <2>1. lock = NoClient
    BY <1>4, DriverAssumption DEF IInv, Types, LockOK, Mongo, Postgres
  <2>2. OneLife /\ client[c].n > 0 => client[c].base = Len(entries) + 1
    BY <1>1, <1>4 DEF IInv, OperationOK, NumberOK
  <2> QED BY <1>1, <1>2, <1>4, <2>1, <2>2, UpdateStep
<1> QED BY <1>3, <1>4 DEF ReplyLost, At, VersionMatches

\* A creation begins a life of the id in which nothing is known.
LEMMA CreateTransactionInv ==
    ASSUME IInv, NEW c \in Clients, CreateTransaction(c) PROVE IInv'
<1>1. /\ client[c].op = "idle" /\ row = 0 /\ Spent
      /\ row' = 1 /\ nextSeq' = 1 /\ entries' = <<>>
      /\ creations' = creations + 1 /\ creations \in Nat
      /\ client' = [client EXCEPT ![c] = [Idle EXCEPT !.held = 1]]
      /\ UNCHANGED <<lock, wins>>
    BY SpendSpent DEF CreateTransaction, End, Ended, IInv, Types
<1> DEFINE r == [Idle EXCEPT !.held = 1]
<1>2. r \in Operations /\ r.op = "idle" /\ r.held = 1 /\ r.version = 0
    BY EndedOperation
<1>3. client' = [client EXCEPT ![c] = r]
    BY <1>1
<1> HIDE DEF r
<1>4. /\ client' \in [Clients -> Operations]
      /\ \A d \in Clients \ {c} : client'[d] = client[d]
      /\ client'[c].op = "idle" /\ client'[c].held = 1
      /\ client'[c].version = 0
    BY <1>2, <1>3 DEF IInv, Types
<1>5. Types'
    BY <1>1, <1>4 DEF IInv, Types, Spent
<1>6. ~Writing(client'[c]) /\ ~Attached(client'[c]) /\ ~Writing(client[c])
    BY <1>1, <1>4 DEF Writing, Attached
<1>7. PoolOK'
    BY <1>4, <1>6, PoolStep DEF IInv
<1>8. lock = NoClient
  <2> SUFFICES ASSUME lock # NoClient PROVE FALSE
    OBVIOUS
  <2>1. lock \in Clients /\ Writing(client[lock]) /\ client[lock].held = 0
    BY <1>1 DEF IInv, Types, LockOK
  <2> QED BY <2>1 DEF IInv, OperationOK, VersionOK, Writing
<1>9. LockOK'
  <2>1. \A d \in Clients : ~Writing(client'[d])
    BY <1>4, <1>6, <1>8, DriverAssumption DEF IInv, LockOK
  <2> QED BY <1>1, <1>8, <2>1 DEF LockOK
<1>10. LivesOK'
  <2>1. \A w \in wins : w[1] \in Nat /\ w[1] <= creations
    BY DEF IInv, LivesOK, Types
  <2> QED BY <1>1, <2>1 DEF LivesOK
<1>11. CounterOK'
    BY <1>1 DEF CounterOK, StepSeqDense
<1>12. ASSUME NEW d \in Clients PROVE OperationOK(client[d])'
  <2>1. CASE d = c
    BY <1>1, <1>4, <2>1 DEF OperationOK, ReadOK, VersionOK, NumberOK
  <2>2. CASE d # c
    <3>1. client'[d] = client[d] /\ OperationOK(client[d])
          /\ client[d] \in Operations
      BY <1>4, <2>2 DEF IInv, Types
    <3>2. ReadOK(client[d])'
      BY <1>1, <3>1 DEF OperationOK, ReadOK, Operations
    <3>3. VersionOK(client[d])'
      BY <1>1, <3>1 DEF OperationOK, VersionOK, Operations
    <3>4. NumberOK(client[d])'
      <4>1. ~Writing(client[d])
        BY <1>8, <3>1, DriverAssumption DEF IInv, LockOK
      <4>2. Mongo' /\ OneLife' /\ client[d].op = "update" =>
                row' # client[d].held
        <5>1. Mongo' /\ OneLife' => creations = 0
          BY <1>1 DEF OneLife, Mongo, Postgres
        <5> QED BY <3>1, <5>1 DEF OperationOK, VersionOK
      <4> QED BY <3>1, <4>1, <4>2 DEF NumberOK, Writing
    <3> QED BY <3>2, <3>3, <3>4 DEF OperationOK
  <2> QED BY <2>1, <2>2
<1> QED BY <1>5, <1>7, <1>9, <1>10, <1>11, <1>12 DEF IInv

LEMMA DeleteTransactionsInv ==
    ASSUME IInv, NEW c \in Clients, DeleteTransactions(c) PROVE IInv'
<1>1. /\ client[c].op = "idle" /\ row > 0 /\ lock = NoClient /\ Spent
      /\ row' = 0 /\ nextSeq' = 1 /\ entries' = <<>>
      /\ UNCHANGED <<lock, creations, wins>> /\ creations \in Nat
      /\ client' = [client EXCEPT ![c] = [Idle EXCEPT !.held = 0]]
    BY SpendSpent DEF DeleteTransactions, End, Ended, IInv, Types
<1> DEFINE r == [Idle EXCEPT !.held = 0]
<1>2. r \in Operations /\ r.op = "idle" /\ r.held = 0 /\ r.version = 0
    BY EndedOperation
<1>3. client' = [client EXCEPT ![c] = r]
    BY <1>1
<1> HIDE DEF r
<1>4. /\ client' \in [Clients -> Operations]
      /\ \A d \in Clients \ {c} : client'[d] = client[d]
      /\ client'[c].op = "idle" /\ client'[c].held = 0
      /\ client'[c].version = 0
    BY <1>2, <1>3 DEF IInv, Types
<1>5. Types'
    BY <1>1, <1>4 DEF IInv, Types, Spent
<1>6. ~Writing(client'[c]) /\ ~Attached(client'[c])
    BY <1>1, <1>4 DEF Writing, Attached
<1>7. PoolOK'
    BY <1>4, <1>6, PoolStep DEF IInv
<1>8. \A d \in Clients : ~Writing(client'[d])
    BY <1>1, <1>4, <1>6, DriverAssumption DEF IInv, LockOK
<1>9. LockOK'
    BY <1>1, <1>8 DEF LockOK
<1>10. LivesOK' /\ CounterOK'
    BY <1>1 DEF IInv, LivesOK, CounterOK, StepSeqDense
<1>11. ASSUME NEW d \in Clients PROVE OperationOK(client[d])'
  <2>1. CASE d = c
    BY <1>1, <1>4, <2>1 DEF OperationOK, ReadOK, VersionOK, NumberOK
  <2>2. CASE d # c
    <3>1. client'[d] = client[d] /\ OperationOK(client[d])
          /\ client[d] \in Operations
      BY <1>4, <2>2 DEF IInv, Types
    <3>2. ReadOK(client[d])'
      BY <1>1, <3>1 DEF OperationOK, ReadOK, Operations
    <3>3. VersionOK(client[d])'
      BY <1>1, <3>1 DEF OperationOK, VersionOK, Operations
    <3>4. NumberOK(client[d])'
      <4>1. ~Writing(client[d]) /\ (client[d].op = "update" => row' # client[d].held)
        BY <1>1, <1>8, <3>1 DEF OperationOK, VersionOK
      <4> QED BY <3>1, <4>1 DEF NumberOK, Writing
    <3> QED BY <3>2, <3>3, <3>4 DEF OperationOK
  <2> QED BY <2>1, <2>2
<1> QED BY <1>5, <1>7, <1>9, <1>10, <1>11 DEF IInv

\* The first entry with a stepSeq exists.
LEMMA FirstEntry ==
    ASSUME Types, NEW seq \in Seqs
    PROVE  \E j \in DOMAIN entries :
               /\ entries[j].seq = seq
               /\ \A k \in 1..(j - 1) : entries[k].seq # seq
<1> DEFINE S == {j \in DOMAIN entries : entries[j].seq = seq}
<1>1. DOMAIN entries = 1..Len(entries) /\ Len(entries) \in Nat
    BY LenProperties DEF Types
<1>2. S \subseteq Nat /\ S # {}
    BY <1>1 DEF Seqs
<1>3. PICK j \in S : \A k \in S : ~(<<k, j>> \in OpToRel(<, Nat))
  <2> HIDE DEF S
  <2> QED BY <1>2, NatLessThanWellFounded, WFMin
<1>4. \A k \in S : ~(k < j)
    BY <1>2, <1>3 DEF OpToRel
<1>5. ASSUME NEW k \in 1..(j - 1) PROVE entries[k].seq # seq
  <2>1. k \in DOMAIN entries /\ k < j
    BY <1>1
  <2> QED BY <1>4, <2>1
<1> QED BY <1>5

\* Marking an entry changes no stepSeq.
LEMMA MarkedEntries ==
    ASSUME Types, NEW c \in Clients, MarkCompensationExecuted(c)
    PROVE  \E i \in DOMAIN entries :
               /\ entries' = [entries EXCEPT ![i].done = TRUE]
               /\ entries' \in Seq(Stored)
               /\ DOMAIN entries' = DOMAIN entries
               /\ Len(entries') = Len(entries)
               /\ \A j \in DOMAIN entries : entries'[j].seq = entries[j].seq
<1>1. PICK seq \in Seqs :
          LET i == CHOOSE j \in DOMAIN entries :
                       /\ entries[j].seq = seq
                       /\ \A k \in 1..(j - 1) : entries[k].seq # seq
          IN  entries' = [entries EXCEPT ![i].done = TRUE]
    BY DEF MarkCompensationExecuted
<1> DEFINE i == CHOOSE j \in DOMAIN entries :
                    /\ entries[j].seq = seq
                    /\ \A k \in 1..(j - 1) : entries[k].seq # seq
<1>2. i \in DOMAIN entries
    BY FirstEntry
<1>3. entries' = [entries EXCEPT ![i].done = TRUE]
    BY <1>1
<1> HIDE DEF i
<1>4. entries \in Seq(Stored) /\ entries[i] \in Stored
    BY <1>2 DEF Types
<1>5. /\ [entries[i] EXCEPT !.done = TRUE] \in Stored
      /\ [entries[i] EXCEPT !.done = TRUE].seq = entries[i].seq
    BY <1>4 DEF Stored
<1>6. entries' = [entries EXCEPT ![i] = [entries[i] EXCEPT !.done = TRUE]]
    BY <1>3
<1>7. entries' \in Seq(Stored) /\ Len(entries') = Len(entries)
    BY <1>2, <1>4, <1>5, <1>6, ExceptSeq
<1>8. /\ DOMAIN entries' = DOMAIN entries
      /\ \A j \in DOMAIN entries : entries'[j].seq = entries[j].seq
    BY <1>4, <1>5, <1>6
<1> QED BY <1>2, <1>3, <1>7, <1>8

LEMMA MarkInv ==
    ASSUME IInv, NEW c \in Clients, MarkCompensationExecuted(c) PROVE IInv'
<1>1. Spent /\ UNCHANGED <<row, nextSeq, lock, client, creations, wins>>
    BY SpendSpent DEF MarkCompensationExecuted, IInv
<1>2. /\ entries' \in Seq(Stored)
      /\ DOMAIN entries' = DOMAIN entries /\ Len(entries') = Len(entries)
      /\ \A j \in DOMAIN entries : entries'[j].seq = entries[j].seq
    BY MarkedEntries DEF IInv
<1>3. Types'
    BY <1>1, <1>2 DEF IInv, Types, Spent
<1>4. PoolOK' /\ LockOK'
    BY <1>1 DEF IInv, PoolOK, LockOK, Connected, Spent, Postgres
<1>5. LivesOK'
  <2>1. row = 0 => entries' = <<>>
    BY <1>2 DEF IInv, LivesOK
  <2> QED BY <1>1, <2>1 DEF IInv, LivesOK
<1>6. CounterOK'
    BY <1>1, <1>2
       DEF IInv, CounterOK, StepSeqDense, OneLife, Mongo, Postgres, Spent
<1>7. Seqs' = Seqs
    BY <1>2 DEF Seqs
<1>8. \A d \in Clients : OperationOK(client[d])'
    BY <1>1, <1>2, <1>7
       DEF IInv, OperationOK, ReadOK, VersionOK, NumberOK, OneLife, Mongo,
           Postgres, Spent
<1> QED BY <1>3, <1>4, <1>5, <1>6, <1>8 DEF IInv

-----------------------------------------------------------------------------
(* The theorems. *)

LEMMA StutterInv == ASSUME IInv, UNCHANGED vars PROVE IInv'
BY DEF IInv, vars, Types, PoolOK, Connected, LockOK, LivesOK, CounterOK,
       StepSeqDense, OperationOK, ReadOK, VersionOK, NumberOK, OneLife, Mongo,
       Postgres, Seqs

LEMMA NextIInv == IInv /\ [Next]_vars => IInv'
<1> SUFFICES ASSUME IInv, [Next]_vars PROVE IInv'
    OBVIOUS
<1>1. CASE UNCHANGED vars
    BY <1>1, StutterInv
<1>2. ASSUME NEW c \in Clients, Begin(c) PROVE IInv'
    BY <1>2, CreateTransactionInv, DeleteTransactionsInv, MarkInv, ReadRowInv,
       BeginUpdateInv DEF Begin
<1>3. ASSUME NEW c \in Clients, GoesOn(c) PROVE IInv'
    BY <1>3, ReadStackInv, GetReturnsInv, FindNextSeqInv, UpdateOneInv,
       ConnectInv, UpdateRowInv, SelectMaxInv, CommitInv, RollbackInv
       DEF GoesOn
<1>4. ASSUME NEW c \in Clients, Fails(c) PROVE IInv'
    BY <1>4, ReplyLostInv, CrashInv DEF Fails
<1> QED BY <1>1, <1>2, <1>3, <1>4 DEF Next

\* The inductive invariant of the drivers: what an operation has read is true
\* of the row as long as the row has the version it was read with.
THEOREM DriversInductive == Spec => []IInv
<1>1. Init => IInv
    BY InitIInv
<1>2. IInv /\ [Next]_vars => IInv'
    BY NextIInv
<1> QED BY <1>1, <1>2, PTL DEF Spec

\* Types are kept, the lock is a PostgreSQL update's, and the transactions
\* never hold more connections than the pool has: client.release() in each
\* path of updateTransaction.
THEOREM DriversTypeCorrect == Spec => []TypeOK
<1>1. IInv => TypeOK
    BY DEF IInv, Types, Operations, PoolOK, LockOK, Writing, TypeOK
<1> QED BY <1>1, DriversInductive, PTL

\* getTransaction reads the row before its stack: the stack it returns has all
\* that the row's version had, unless the id was deleted in between.
THEOREM SnapshotsComplete == Spec => []SnapshotNotBehind
<1>1. IInv => SnapshotNotBehind
    BY DEF IInv, OperationOK, ReadOK, SnapshotNotBehind, At
<1> QED BY <1>1, DriversInductive, PTL

\* The stepSeq of updateTransaction counts the entries: with PostgreSQL always,
\* with MongoDB as long as the id was created once.
THEOREM NumberingDense ==
    Spec => [](Postgres \/ creations <= 1 => StepSeqDense)
<1>1. IInv => (Postgres \/ creations <= 1 => StepSeqDense)
    BY DEF IInv, CounterOK, OneLife
<1> QED BY <1>1, DriversInductive, PTL

-----------------------------------------------------------------------------
(* Two updates from one version. *)

NoSecondWin ==
    \A c \in Clients :
        client[c].op = "update" /\ client'[c].held = client[c].held + 1 =>
            <<creations, client[c].held>> \notin wins

\* A client's step is its own.
LEMMA OthersKeep ==
    ASSUME Types, NEW c \in Clients, Begin(c) \/ GoesOn(c) \/ Fails(c),
           NEW d \in Clients \ {c}
    PROVE  client'[d] = client[d]
<1>1. client \in [Clients -> Operations]
    BY DEF Types
<1>2. ASSUME NEW v, End(c, v) PROVE client'[d] = client[d]
    BY <1>1, <1>2 DEF End, Ended
<1>3. ASSUME Begin(c) PROVE client'[d] = client[d]
  <2>1. CASE CreateTransaction(c) \/ DeleteTransactions(c)
    BY <1>2, <2>1 DEF CreateTransaction, DeleteTransactions
  <2>2. CASE MarkCompensationExecuted(c)
    BY <2>2 DEF MarkCompensationExecuted
  <2>3. CASE ReadRow(c)
    BY <1>1, <1>2, <2>3 DEF ReadRow
  <2>4. CASE BeginUpdate(c)
    BY <1>1, <2>4 DEF BeginUpdate
  <2> QED BY <1>3, <2>1, <2>2, <2>3, <2>4 DEF Begin
<1>4. ASSUME GoesOn(c) PROVE client'[d] = client[d]
  <2>1. CASE ReadStack(c) \/ SelectMax(c)
    BY <1>1, <2>1 DEF ReadStack, SelectMax
  <2>2. CASE GetReturns(c) \/ Commit(c) \/ Rollback(c)
    BY <1>2, <2>2 DEF GetReturns, Commit, Rollback, Stale
  <2>3. CASE FindNextSeq(c) \/ UpdateOne(c)
    BY <1>1, <1>2, <2>3 DEF FindNextSeq, UpdateOne, Stale
  <2>4. CASE Connect(c) \/ UpdateRow(c)
    BY <1>1, <2>4 DEF Connect, UpdateRow, GoOn
  <2> QED BY <1>4, <2>1, <2>2, <2>3, <2>4 DEF GoesOn
<1>5. ASSUME Fails(c) PROVE client'[d] = client[d]
    BY <1>2, <1>5 DEF Fails, ReplyLost, Crash
<1> QED BY <1>3, <1>4, <1>5

\* The version that an update replaces has not been replaced in this life.
LEMMA ReplacedOnce ==
    ASSUME IInv, NEW c \in Clients, client[c].op = "update",
           row = client[c].held
    PROVE  <<creations, client[c].held>> \notin wins
<1>1. row \in Nat /\ row > 0
    BY DEF IInv, Types, OperationOK, VersionOK
<1>2. ASSUME <<creations, row>> \in wins PROVE FALSE
  <2>1. row < row
    BY <1>1, <1>2 DEF IInv, LivesOK
  <2> QED BY <1>1, <2>1
<1> QED BY <1>2

\* The version a client knows grows only when its update is acknowledged.
LEMMA OnlyUpdatesGrow ==
    ASSUME IInv, NEW c \in Clients, client[c].op = "update",
           Begin(c) \/ GoesOn(c) \/ Fails(c),
           client'[c].held = client[c].held + 1
    PROVE  row = client[c].held
<1>1. client \in [Clients -> Operations] /\ client[c].held \in Nat
    BY DEF IInv, Types, Operations
<1>2. client'[c].held # client[c].held /\ client'[c].held # 0
    BY <1>1
<1>3. ~End(c, 0)
  <2>1. End(c, 0) => client'[c] = [Idle EXCEPT !.held = 0]
    BY <1>1 DEF End, Ended
  <2> QED BY <1>2, <2>1, EndedOperation
<1>4. ~Begin(c) \/ MarkCompensationExecuted(c)
    BY DEF Begin, CreateTransaction, DeleteTransactions, ReadRow, BeginUpdate
<1>5. ~MarkCompensationExecuted(c)
    BY <1>2 DEF MarkCompensationExecuted
<1>6. GoesOn(c)
    BY <1>3, <1>4, <1>5 DEF Fails, ReplyLost, Crash
<1>7. ~(\E label \in Labels : GoOn(c, label))
    BY <1>2, GoOnFields DEF IInv
<1>8. ~Connect(c) /\ ~UpdateRow(c)
    BY <1>7 DEF Connect, UpdateRow, Labels
<1>9. ~ReadStack(c) /\ ~GetReturns(c)
    BY DEF ReadStack, GetReturns, At
<1>10. ~SelectMax(c)
    BY <1>1, <1>2 DEF SelectMax, Operations, IInv, Types
<1>11. ~Rollback(c)
    BY <1>3 DEF Rollback, Stale
<1>12. ~FindNextSeq(c)
    BY <1>1, <1>2, <1>3 DEF FindNextSeq, Stale, Operations, IInv, Types
<1>13. CASE UpdateOne(c)
    BY <1>3, <1>13 DEF UpdateOne, Stale, VersionMatches
<1>14. CASE Commit(c)
    BY <1>14, DriverAssumption DEF Commit, At, IInv, LockOK, Writing
<1> QED BY <1>6, <1>8, <1>9, <1>10, <1>11, <1>12, <1>13, <1>14 DEF GoesOn

\* Of the updates from one version, in one life of the id, at most one is
\* acknowledged: the WHERE ... AND version = ? of both drivers.
THEOREM UpdatesExclusive == Spec => OneWinner
<1>1. IInv /\ [Next]_vars => [NoSecondWin]_vars
  <2> SUFFICES ASSUME IInv, Next, NEW c \in Clients,
                      client[c].op = "update",
                      client'[c].held = client[c].held + 1
               PROVE  <<creations, client[c].held>> \notin wins
    BY DEF NoSecondWin
  <2>1. PICK d \in Clients : Begin(d) \/ GoesOn(d) \/ Fails(d)
    BY DEF Next
  <2>2. client[c].held \in Nat
    BY DEF IInv, Types, Operations
  <2>3. d = c
    BY <2>1, <2>2, OthersKeep DEF IInv
  <2> QED BY <2>1, <2>3, OnlyUpdatesGrow, ReplacedOnce
<1> QED BY <1>1, DriversInductive, PTL DEF Spec, OneWinner, NoSecondWin

-----------------------------------------------------------------------------
(* The refinement of TransactionStore. *)

\* A step of the drivers as the atomic store sees it.
StoreStep ==
    [\/ T!CreateTransaction
     \/ \E c \in Clients :
            /\ client[c].op = "update"
            /\ T!UpdateTransaction(client[c].held, MappedRow,
                                   T!NewEntries(1, client[c].n))
     \/ \E i \in DOMAIN entries : T!MarkCompensationExecuted(i)
     \/ T!DeleteTransactions]_<<MappedRow, MappedStack>>

\* The row that the store has, by its version.
RowOf(v) == [version |-> v, state |-> "s", status |-> "IDLE", step |-> 0,
             ctx |-> {}, stale |-> FALSE]

LEMMA RowsOf ==
    ASSUME NEW u, NEW v
    PROVE  /\ RowOf(u).version = u
           /\ [RowOf(u) EXCEPT !.version = v, !.status = "IDLE"] = RowOf(v)
           /\ [RowOf(u) EXCEPT !.version = v, !.stale = FALSE] = RowOf(v)
<1> DEFINE state == "s"
           status == "IDLE"
           step == 0
           ctx == {}
           stale == FALSE
           r == RowOf(u)
           t == [r EXCEPT !.version = v]
<1>1. /\ r = [version |-> u, state |-> state, status |-> status,
              step |-> step, ctx |-> ctx, stale |-> stale]
      /\ RowOf(v) = [version |-> v, state |-> state, status |-> status,
                     step |-> step, ctx |-> ctx, stale |-> stale]
    BY DEF RowOf
<1>2. /\ [RowOf(u) EXCEPT !.version = v, !.status = "IDLE"]
             = [t EXCEPT !.status = status]
      /\ [RowOf(u) EXCEPT !.version = v, !.stale = FALSE]
             = [t EXCEPT !.stale = stale]
      /\ t = [r EXCEPT !.version = v] /\ r = RowOf(u)
    OBVIOUS
<1> HIDE DEF state, status, step, ctx, stale, r, t
<1>3. t = [version |-> v, state |-> state, status |-> status,
           step |-> step, ctx |-> ctx, stale |-> stale]
    BY <1>1, <1>2
<1>4. [t EXCEPT !.status = status] = t /\ [t EXCEPT !.stale = stale] = t
    BY <1>3
<1>5. r.version = u
    BY <1>1
<1> QED BY <1>1, <1>2, <1>3, <1>4, <1>5

LEMMA MappedRows ==
    T!NoRow = RowOf(0) /\ MappedRow = RowOf(row) /\ MappedRow' = RowOf(row')
BY DEF MappedRow, RowOf, T!NoRow, T!NoStep

LEMMA MappedStacks ==
    /\ entries = <<>> => MappedStack = <<>>
    /\ entries' = <<>> => MappedStack' = <<>>
BY DEF MappedStack

LEMMA InitMaps == Init => T!StoreInit
BY MappedRows, MappedStacks DEF Init, T!StoreInit

\* What leaves the row and its stack alone is invisible.
LEMMA InvisibleStep == ASSUME UNCHANGED db PROVE StoreStep
BY DEF db, StoreStep, MappedRow, MappedStack

LEMMA CreateMaps ==
    ASSUME NEW c \in Clients, CreateTransaction(c) PROVE StoreStep
<1>1. row = 0 /\ row' = 1 /\ entries' = <<>>
    BY DEF CreateTransaction
<1>2. T!SettledStatus("s") = "IDLE"
    BY Zenon DEF T!SettledStatus
<1>3. RowOf(row).version = 0
  <2>1. RowOf(row).version = row
    BY RowsOf
  <2> QED BY <1>1, <2>1
<1>4. [RowOf(0) EXCEPT !.version = 1, !.status = "IDLE"] = RowOf(1)
    BY RowsOf
<1>5. T!CreateTransaction
  <2>1. ~T!Exists
    BY <1>3, MappedRows DEF T!Exists
  <2>2. MappedRow' = [T!NoRow EXCEPT !.version = 1,
                                     !.status = T!SettledStatus("s")]
    BY <1>1, <1>2, <1>4, MappedRows
  <2>3. MappedStack' = <<>>
    BY <1>1, MappedStacks
  <2> QED BY <2>1, <2>2, <2>3 DEF T!CreateTransaction
<1> QED BY <1>5 DEF StoreStep

LEMMA DeleteMaps ==
    ASSUME NEW c \in Clients, DeleteTransactions(c) PROVE StoreStep
<1>1. T!DeleteTransactions
    BY MappedRows, MappedStacks DEF DeleteTransactions, T!DeleteTransactions
<1> QED BY <1>1 DEF StoreStep

LEMMA MarkMaps ==
    ASSUME Types, NEW c \in Clients, MarkCompensationExecuted(c)
    PROVE  StoreStep
<1>1. PICK i \in DOMAIN entries :
          /\ entries' = [entries EXCEPT ![i].done = TRUE]
          /\ DOMAIN entries' = DOMAIN entries
    BY MarkedEntries
<1>2. entries[i] \in Stored /\ entries \in Seq(Stored)
    BY DEF Types
<1>3. \A j \in DOMAIN entries :
          entries'[j].done = IF j = i THEN TRUE ELSE entries[j].done
    BY <1>1, <1>2 DEF Stored
<1>4. MappedStack' = [MappedStack EXCEPT ![i].done = TRUE]
  <2>1. MappedStack' = [j \in DOMAIN entries |->
                          [call |-> 1, done |-> entries'[j].done]]
    BY <1>1 DEF MappedStack
  <2> DEFINE m == MappedStack
             r == m[i]
             marked == TRUE
  <2>2. /\ m = [j \in DOMAIN entries |->
                   [call |-> 1, done |-> entries[j].done]]
        /\ r = m[i] /\ marked = TRUE
        /\ [MappedStack EXCEPT ![i].done = TRUE]
               = [m EXCEPT ![i] = [r EXCEPT !.done = marked]]
    BY DEF MappedStack
  <2> HIDE DEF m, r, marked
  <2>3. [r EXCEPT !.done = marked] = [call |-> 1, done |-> marked]
    <3>1. r = [call |-> 1, done |-> entries[i].done]
      BY <2>2
    <3> QED BY <3>1
  <2>4. [m EXCEPT ![i] = [call |-> 1, done |-> marked]]
            = [j \in DOMAIN entries |->
                  [call |-> 1,
                   done |-> IF j = i THEN marked ELSE entries[j].done]]
    BY <2>2
  <2>5. \A j \in DOMAIN entries :
            entries'[j].done = IF j = i THEN marked ELSE entries[j].done
    BY <1>3, <2>2
  <2> QED BY <2>1, <2>2, <2>3, <2>4, <2>5
<1>5. UNCHANGED MappedRow
    BY DEF MarkCompensationExecuted, MappedRow
<1>6. i \in DOMAIN MappedStack
    BY DEF MappedStack
<1>7. T!MarkCompensationExecuted(i)
    BY <1>4, <1>5, <1>6 DEF T!MarkCompensationExecuted
<1> QED BY <1>7 DEF StoreStep

LEMMA AppliedMaps ==
    ASSUME Types, NEW c \in Clients, client[c].op = "update",
           row = client[c].held, row' = row + 1,
           entries' = entries \o Appended(c, client[c].base)
    PROVE  StoreStep
<1> DEFINE n == client[c].n
           L == Len(entries)
           new == T!NewEntries(1, n)
<1>1. /\ entries \in Seq(Stored) /\ entries' \in Seq(Stored)
      /\ L \in Nat /\ n \in Nat /\ Len(entries') = L + n
      /\ \A i \in 1..L : entries'[i] = entries[i]
      /\ \A i \in (L + 1)..Len(entries') : entries'[i].done = FALSE
    BY AppendedEntries DEF Types, Operations
<1> HIDE DEF n, L
<1>2. DOMAIN entries = 1..L /\ DOMAIN entries' = 1..(L + n)
    BY <1>1 DEF L
<1>3. /\ MappedStack \in Seq(T!Entries) /\ Len(MappedStack) = L
      /\ \A i \in 1..L : MappedStack[i] = [call |-> 1, done |-> entries[i].done]
  <2>1. MappedStack = [i \in 1..L |-> [call |-> 1, done |-> entries[i].done]]
    BY <1>2 DEF MappedStack
  <2>2. ASSUME NEW i \in 1..L
        PROVE  [call |-> 1, done |-> entries[i].done] \in T!Entries
    <3>1. entries[i] \in Stored
      BY <1>1, <1>2
    <3> QED BY <3>1 DEF Stored, T!Entries, T!Calls
  <2>3. MappedStack \in [1..L -> T!Entries]
    BY <2>1, <2>2
  <2>4. MappedStack \in Seq(T!Entries) /\ Len(MappedStack) = L
    BY <1>1, <2>3
  <2> QED BY <2>1, <2>4
<1>4. /\ new \in Seq(T!Entries) /\ Len(new) = n
      /\ \A i \in 1..n : new[i] = [call |-> 1, done |-> FALSE]
  <2>1. new = [i \in 1..n |-> [call |-> 1, done |-> FALSE]]
    BY DEF T!NewEntries
  <2>2. [call |-> 1, done |-> FALSE] \in T!Entries
    BY DEF T!Entries, T!Calls
  <2> HIDE DEF new
  <2>3. new \in [1..n -> T!Entries]
    BY <2>1, <2>2
  <2>4. new \in Seq(T!Entries) /\ Len(new) = n
    BY <1>1, <2>3
  <2> QED BY <2>1, <2>4
<1>5. /\ MappedStack' \in Seq(T!Entries) /\ Len(MappedStack') = L + n
      /\ \A i \in 1..(L + n) :
             MappedStack'[i] = [call |-> 1, done |-> entries'[i].done]
  <2>1. MappedStack' = [i \in 1..(L + n) |->
                            [call |-> 1, done |-> entries'[i].done]]
    BY <1>2 DEF MappedStack
  <2>2. ASSUME NEW i \in 1..(L + n)
        PROVE  [call |-> 1, done |-> entries'[i].done] \in T!Entries
    <3>1. entries'[i] \in Stored
      BY <1>1, <1>2
    <3>2. entries'[i].done \in BOOLEAN
      BY <3>1 DEF Stored
    <3> DEFINE done == entries'[i].done
    <3>3. done \in BOOLEAN
      BY Zenon, <3>2
    <3> HIDE DEF done
    <3>4. [call |-> 1, done |-> done] \in T!Entries
      BY <3>3 DEF T!Entries, T!Calls
    <3> QED BY <3>4 DEF done
  <2>3. MappedStack' \in [1..(L + n) -> T!Entries]
    BY <2>1, <2>2
  <2>4. L + n \in Nat
    BY <1>1
  <2>5. MappedStack' \in Seq(T!Entries) /\ Len(MappedStack') = L + n
    BY <2>3, <2>4
  <2> QED BY <2>1, <2>5
<1> HIDE DEF new
<1>6. /\ MappedStack \o new \in Seq(T!Entries)
      /\ Len(MappedStack \o new) = L + n
      /\ \A i \in 1..(L + n) :
             (MappedStack \o new)[i] = IF i <= L THEN MappedStack[i]
                                       ELSE new[i - L]
  <2>1. /\ MappedStack \in Seq(T!Entries) /\ Len(MappedStack) = L
        /\ new \in Seq(T!Entries) /\ Len(new) = n
    BY <1>3, <1>4
  <2> QED BY ONLY <2>1, ConcatProperties
<1>7. ASSUME NEW i \in 1..(L + n)
      PROVE  MappedStack'[i] = (MappedStack \o new)[i]
  <2>1. CASE i <= L
    <3>1. i \in 1..L
      BY <1>1, <2>1
    <3>2. entries'[i] = entries[i]
      BY <1>1, <3>1
    <3> QED BY <1>3, <1>5, <1>6, <2>1, <3>1, <3>2
  <2>2. CASE ~(i <= L)
    <3>1. i \in (L + 1)..Len(entries') /\ i - L \in 1..n
      BY <1>1, <2>2
    <3>2. entries'[i].done = FALSE
      BY <1>1, <3>1
    <3> QED BY <1>4, <1>5, <1>6, <2>2, <3>1, <3>2
  <2> QED BY <2>1, <2>2
<1>8. MappedStack' = MappedStack \o new
    BY <1>5, <1>6, <1>7, SeqEqual
<1>9. T!UpdateTransaction(client[c].held, MappedRow, new)
  <2>1. RowOf(row).version = row
    BY RowsOf
  <2>2. [RowOf(row) EXCEPT !.version = row + 1, !.stale = FALSE] = RowOf(row + 1)
    BY RowsOf
  <2>3. T!VersionMatches(client[c].held)
    BY <2>1, MappedRows DEF T!VersionMatches
  <2>4. MappedRow' = [MappedRow EXCEPT !.version = MappedRow.version + 1,
                                       !.stale = FALSE]
    BY <2>1, <2>2, MappedRows
  <2> QED BY <1>8, <2>3, <2>4 DEF T!UpdateTransaction
<1> QED BY <1>9 DEF StoreStep, new, n

\* A committed update is one update of the store; whatever else a client does
\* within an operation is invisible.
LEMMA NextMaps == ASSUME IInv, [Next]_vars PROVE StoreStep
<1>1. CASE UNCHANGED vars
    BY <1>1, InvisibleStep DEF vars, db
<1>2. ASSUME NEW c \in Clients, Begin(c) PROVE StoreStep
  <2>1. CASE ReadRow(c) \/ BeginUpdate(c)
    BY <2>1, InvisibleStep DEF ReadRow, BeginUpdate
  <2> QED BY <1>2, <2>1, CreateMaps, DeleteMaps, MarkMaps DEF Begin, IInv
<1>3. ASSUME NEW c \in Clients, GoesOn(c) PROVE StoreStep
  <2>1. CASE Commit(c)
    <3>1. row = client[c].held
      BY <2>1, DriverAssumption DEF Commit, At, IInv, LockOK, Writing
    <3> QED BY <2>1, <3>1, AppliedMaps DEF Commit, At, IInv
  <2>2. CASE UpdateOne(c) /\ VersionMatches(client[c].held)
    BY <2>2, AppliedMaps DEF UpdateOne, VersionMatches, At, IInv
  <2>3. CASE UpdateOne(c) /\ ~VersionMatches(client[c].held)
    BY <2>3, InvisibleStep DEF UpdateOne, Stale
  <2>4. CASE FindNextSeq(c) \/ Rollback(c)
    BY <2>4, InvisibleStep DEF FindNextSeq, Rollback, Stale
  <2>5. CASE ReadStack(c) \/ GetReturns(c) \/ Connect(c) \/ UpdateRow(c)
             \/ SelectMax(c)
    BY <2>5, InvisibleStep DEF ReadStack, GetReturns, Connect, UpdateRow, SelectMax
  <2> QED BY <1>3, <2>1, <2>2, <2>3, <2>4, <2>5 DEF GoesOn
<1>4. ASSUME NEW c \in Clients, ReplyLost(c) PROVE StoreStep
  <2>1. client[c].op = "update" /\ row = client[c].held
    BY <1>4, DriverAssumption DEF ReplyLost, VersionMatches, At, IInv, LockOK, Writing
  <2> QED BY <1>4, <2>1, AppliedMaps DEF ReplyLost, IInv
<1>5. ASSUME NEW c \in Clients, Crash(c) PROVE StoreStep
    BY <1>5, InvisibleStep DEF Crash
<1> QED BY <1>1, <1>2, <1>3, <1>4, <1>5 DEF Next, Fails

\* The drivers implement TransactionStore: interleaved at every round trip,
\* with updates that wait, lose their version, crash or are applied unheard, what others can see
\* changes by whole operations of the atomic store.
THEOREM DriversImplementStore == Spec => ImplementsTransactionStore
<1>1. Init => T!StoreInit
    BY InitMaps
<1>2. IInv /\ [Next]_vars => StoreStep
    BY NextMaps
<1> QED BY <1>1, <1>2, DriversInductive, PTL
        DEF Spec, ImplementsTransactionStore, StoreStep

=============================================================================
