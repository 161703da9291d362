------------------------ MODULE ActorLifecycleProofs ------------------------
(***************************************************************************)
(* Proofs about the actors of a registry, their schedulers and the         *)
(* recovery sweeps, for any number of actors, tasks and transactions.      *)
(*                                                                         *)
(* The invariant IInv has one part per reason.  RowsOK: a row has one      *)
(* place in the order by updated_at, so that a batch is one.  TasksOK: an  *)
(* item that a sweep still holds is in flight unless its version moved on. *)
(* CountsOK: a transaction in flight has been reported fewer times than it *)
(* was put in flight, which the version check then keeps.  SchedulersOK:   *)
(* sweepInProgress is set exactly while one task of the timer runs.        *)
(***************************************************************************)
EXTENDS ActorLifecycle, SequenceTheorems, FiniteSetTheorems,
        WellFoundedInduction, TLAPS

\* Every row has one place in the order.
Ordered == age \in Seq(Transactions) /\ IsInjective(age)

-----------------------------------------------------------------------------
(* The order of the rows.                                                  *)

\* Removing one element of a sequence.
LEMMA Removed ==
    ASSUME NEW S, NEW s \in Seq(S), NEW p \in 1..Len(s)
    PROVE  /\ RemoveAt(s, p) \in Seq(S)
           /\ Len(RemoveAt(s, p)) = Len(s) - 1
           /\ \A i \in 1..(Len(s) - 1) :
                  RemoveAt(s, p)[i] = IF i < p THEN s[i] ELSE s[i + 1]
<1> DEFINE u == SubSeq(s, 1, p - 1)
           v == SubSeq(s, p + 1, Len(s))
<1>1. Len(s) \in Nat /\ \A i \in 1..Len(s) : s[i] \in S
    BY LenProperties, ElementOfSeq
<1>2. /\ u \in Seq(S) /\ Len(u) = p - 1
      /\ \A i \in 1..(p - 1) : u[i] = s[i]
  <2>1. \A i \in 1..(p - 1) : s[i] \in S
      BY <1>1
  <2>2. 1 \in Int /\ p - 1 \in Int
      BY <1>1
  <2> QED BY ONLY <1>1, <2>1, <2>2, SubSeqProperties, p \in 1..Len(s)
<1>3. /\ v \in Seq(S) /\ Len(v) = Len(s) - p
      /\ \A i \in 1..(Len(s) - p) : v[i] = s[p + i]
  <2>1. \A i \in (p + 1)..Len(s) : s[i] \in S
      BY <1>1
  <2>2. p + 1 \in Int /\ Len(s) \in Int
      BY <1>1
  <2>3. /\ v \in Seq(S)
        /\ Len(v) = IF p + 1 <= Len(s) THEN Len(s) - (p + 1) + 1 ELSE 0
        /\ \A i \in 1..(Len(s) - (p + 1) + 1) : v[i] = s[(p + 1) + i - 1]
      BY ONLY <2>1, <2>2, SubSeqProperties
  <2> HIDE DEF v
  <2> QED BY <1>1, <2>3
<1>4. RemoveAt(s, p) = u \o v
    BY DEF RemoveAt
<1> HIDE DEF u, v
<1>5. /\ u \o v \in Seq(S)
      /\ Len(u \o v) = Len(u) + Len(v)
      /\ \A i \in 1..(Len(u) + Len(v)) :
             (u \o v)[i] = IF i <= Len(u) THEN u[i] ELSE v[i - Len(u)]
    BY ONLY <1>2, <1>3, ConcatProperties
<1>6. ASSUME NEW i \in 1..(Len(s) - 1)
      PROVE  (u \o v)[i] = IF i < p THEN s[i] ELSE s[i + 1]
  <2>1. (u \o v)[i] = IF i <= p - 1 THEN u[i] ELSE v[i - (p - 1)]
      BY <1>1, <1>2, <1>3, <1>5
  <2>2. CASE i < p
      BY <1>1, <1>2, <2>1, <2>2
  <2>3. CASE ~(i < p)
    <3>1. i - (p - 1) \in 1..(Len(s) - p) /\ p + (i - (p - 1)) = i + 1
        BY <1>1, <2>3
    <3>2. v[i - (p - 1)] = s[i + 1]
        BY <1>3, <3>1
    <3> QED BY <1>1, <2>1, <2>3, <3>2
  <2> QED BY <2>2, <2>3
<1> QED BY <1>1, <1>2, <1>3, <1>4, <1>5, <1>6

\* An injective sequence without one of its elements.
LEMMA WithoutOrdered ==
    ASSUME Ordered, NEW t \in Transactions
    PROVE  /\ Without(t) \in Seq(Transactions) /\ IsInjective(Without(t))
           /\ Range(Without(t)) = Range(age) \ {t}
<1>1. CASE t \notin Range(age)
    BY <1>1 DEF Ordered, Without
<1>2. CASE t \in Range(age)
  <2> DEFINE p == CHOOSE i \in DOMAIN age : age[i] = t
             w == RemoveAt(age, p)
  <2>1. age \in Seq(Transactions) /\ DOMAIN age = 1..Len(age) /\ Len(age) \in Nat
      BY LenProperties DEF Ordered
  <2>2. p \in 1..Len(age) /\ age[p] = t
      BY <1>2, <2>1 DEF Range
  <2>3. Without(t) = w
      BY <1>2 DEF Without
  <2> HIDE DEF p
  <2>4. /\ w \in Seq(Transactions) /\ Len(w) = Len(age) - 1
        /\ \A i \in 1..(Len(age) - 1) :
               w[i] = IF i < p THEN age[i] ELSE age[i + 1]
      BY ONLY <2>1, <2>2, Removed
  <2> HIDE DEF w
  <2>5. DOMAIN w = 1..(Len(age) - 1)
      BY <2>4, LenProperties
  <2>6. \A i, j \in 1..Len(age) : age[i] = age[j] => i = j
      BY <2>1 DEF Ordered, IsInjective
  <2>7. IsInjective(w)
    <3> SUFFICES ASSUME NEW i \in 1..(Len(age) - 1), NEW j \in 1..(Len(age) - 1),
                        w[i] = w[j]
                 PROVE  i = j
        BY <2>5 DEF IsInjective
    <3> QED BY <2>1, <2>2, <2>4, <2>6
  <2>8. ASSUME NEW x \in Range(w) PROVE x \in Range(age) \ {t}
    <3>1. PICK i \in 1..(Len(age) - 1) : w[i] = x
        BY <2>5 DEF Range
    <3>2. PICK j \in 1..Len(age) : j # p /\ age[j] = x
        BY <2>1, <2>2, <2>4, <3>1
    <3> QED BY <2>1, <2>2, <2>6, <3>2 DEF Range
  <2>9. ASSUME NEW x \in Range(age), x # t PROVE x \in Range(w)
    <3>1. PICK j \in 1..Len(age) : age[j] = x
        BY <2>1 DEF Range
    <3>2. j # p
        BY <2>2, <2>9, <3>1
    <3>3. \E i \in 1..(Len(age) - 1) : w[i] = x
      <4>1. CASE j < p
          BY <2>1, <2>2, <2>4, <3>1, <4>1
      <4>2. CASE j > p
        <5>1. j - 1 \in 1..(Len(age) - 1) /\ ~(j - 1 < p) /\ (j - 1) + 1 = j
            BY <2>1, <2>2, <4>2
        <5>2. w[j - 1] = age[j]
            BY <2>4, <5>1
        <5> QED BY <3>1, <5>1, <5>2
      <4> QED BY <2>2, <3>2, <4>1, <4>2
    <3> QED BY <2>5, <3>3 DEF Range
  <2> QED BY <2>3, <2>4, <2>7, <2>8, <2>9
<1> QED BY <1>1, <1>2

\* A written row is the youngest, and keeps no older place.
LEMMA TouchedOrdered ==
    ASSUME Ordered, NEW t \in Transactions
    PROVE  /\ Touched(t) \in Seq(Transactions) /\ IsInjective(Touched(t))
           /\ Range(Touched(t)) = Range(age) \cup {t}
<1> DEFINE w == Without(t)
           s == Append(w, t)
<1>1. w \in Seq(Transactions) /\ IsInjective(w) /\ Range(w) = Range(age) \ {t}
    BY WithoutOrdered
<1>2. Touched(t) = s
    BY DEF Touched
<1> HIDE DEF w
<1>3. /\ s \in Seq(Transactions) /\ Len(s) = Len(w) + 1 /\ s[Len(w) + 1] = t
      /\ \A i \in 1..Len(w) : s[i] = w[i]
    BY <1>1, AppendProperties
<1> HIDE DEF s
<1>4. /\ Len(w) \in Nat /\ DOMAIN w = 1..Len(w)
      /\ DOMAIN s = 1..(Len(w) + 1)
    BY <1>1, <1>3, LenProperties
<1>5. \A i \in 1..Len(w) : w[i] # t
    BY <1>1, <1>4 DEF Range
<1>6. \A i \in 1..(Len(w) + 1) : i = Len(w) + 1 \/ i \in 1..Len(w)
    BY <1>4
<1>7. IsInjective(s)
  <2> SUFFICES ASSUME NEW i \in DOMAIN s, NEW j \in DOMAIN s, s[i] = s[j]
               PROVE  i = j
      BY DEF IsInjective
  <2>1. \A k, m \in 1..Len(w) : w[k] = w[m] => k = m
      BY <1>1, <1>4 DEF IsInjective
  <2> QED BY <1>3, <1>4, <1>5, <1>6, <2>1
<1>8. Range(s) = Range(w) \cup {t}
  <2>1. ASSUME NEW x \in Range(s) PROVE x \in Range(w) \cup {t}
      BY <1>3, <1>4, <1>6, <2>1 DEF Range
  <2>2. ASSUME NEW x \in Range(w) PROVE x \in Range(s)
    <3>1. PICK i \in 1..Len(w) : w[i] = x
        BY <1>4 DEF Range
    <3>2. i \in DOMAIN s /\ s[i] = x
        BY <1>3, <1>4, <3>1
    <3> QED BY <3>2 DEF Range
  <2>3. t \in Range(s)
    <3>1. Len(w) + 1 \in DOMAIN s
        BY <1>4
    <3> QED BY <1>3, <3>1 DEF Range
  <2> QED BY <2>1, <2>2, <2>3
<1> QED BY <1>1, <1>2, <1>3, <1>7, <1>8

\* As many places as rows.
LEMMA AgeCount ==
    ASSUME Ordered
    PROVE  IsFiniteSet(Range(age)) /\ Cardinality(Range(age)) = Len(age)
<1>1. Len(age) \in Nat /\ DOMAIN age = 1..Len(age)
    BY LenProperties DEF Ordered
<1>2. age \in Bijection(1..Len(age), Range(age))
  <2>1. age \in [1..Len(age) -> Range(age)]
      BY <1>1, LenProperties DEF Ordered, Range
  <2>2. \A x \in Range(age) : \E i \in 1..Len(age) : age[i] = x
      BY <1>1 DEF Range
  <2>3. age \in Injection(1..Len(age), Range(age))
      BY <2>1 DEF Injection, Ordered
  <2>4. age \in Surjection(1..Len(age), Range(age))
      BY <2>1, <2>2 DEF Surjection
  <2> QED BY <2>3, <2>4 DEF Bijection
<1>3. IsFiniteSet(1..Len(age)) /\ Cardinality(1..Len(age)) = Len(age)
  <2>1. 1 \in Int /\ Len(age) \in Int
      BY <1>1
  <2>2. /\ IsFiniteSet(1..Len(age))
        /\ Cardinality(1..Len(age)) = IF 1 > Len(age) THEN 0 ELSE Len(age) - 1 + 1
      BY ONLY <2>1, FS_Interval
  <2>3. Cardinality(1..Len(age)) = Len(age)
      BY <1>1, <2>2
  <2> QED BY <2>2, <2>3
<1>4. ExistsBijection(1..Len(age), Range(age))
    BY <1>2 DEF ExistsBijection
<1> QED BY <1>3, <1>4, FS_Bijection

\* Of some rows, one is the youngest.
LEMMA Youngest ==
    ASSUME Ordered, NEW B \in SUBSET Range(age), B # {}
    PROVE  \E t \in B : \A u \in B \ {t} : Older(u, t)
<1> DEFINE P == {Len(age) - i : i \in {j \in 1..Len(age) : age[j] \in B}}
<1>1. Len(age) \in Nat /\ DOMAIN age = 1..Len(age)
    BY LenProperties DEF Ordered
<1>2. P \subseteq Nat /\ P # {}
  <2>1. PICK j \in 1..Len(age) : age[j] \in B
      BY <1>1 DEF Range
  <2> QED BY <1>1, <2>1
<1>3. PICK m \in P : \A k \in P : ~(<<k, m>> \in OpToRel(<, Nat))
  <2> HIDE DEF P
  <2> QED BY <1>2, NatLessThanWellFounded, WFMin
<1>4. \A k \in P : ~(k < m)
    BY <1>2, <1>3 DEF OpToRel
<1>5. PICK i \in 1..Len(age) : age[i] \in B /\ m = Len(age) - i
    OBVIOUS
<1>6. ASSUME NEW u \in B, u # age[i] PROVE Older(u, age[i])
  <2>1. PICK j \in 1..Len(age) : age[j] = u
      BY <1>1 DEF Range
  <2>2. Len(age) - j \in P
      BY <2>1
  <2>3. ~(Len(age) - j < Len(age) - i)
      BY <1>4, <1>5, <2>2
  <2>4. j < i
      BY <1>1, <1>6, <2>1, <2>3
  <2> QED BY <1>1, <2>1, <2>4 DEF Older
<1> QED BY <1>5, <1>6

-----------------------------------------------------------------------------
(* Types, and what each row promises.                                      *)

Statuses ==
    {"IDLE", "IN_FLIGHT", "COMPENSATING", "FAILED", "COMPLETED", "COMPENSATED"}

StoredRow == [status : Statuses, version : Nat, stuck : BOOLEAN]

Item == [tx : Transactions, version : Nat]

TaskState == [pc : {"idle", "opening", "query", "sweep"}, items : Seq(Item),
              stops : BOOLEAN, ver : Nat]

ActorFields == [built : BOOLEAN, initialized : BOOLEAN, stopped : BOOLEAN,
                enabled : BOOLEAN, timer : BOOLEAN, nextRun : BOOLEAN,
                sweeping : BOOLEAN]

Types ==
    /\ idOf \in [Actors -> Ids]
    /\ rows \in [Transactions -> StoredRow]
    /\ actor \in [Actors -> ActorFields]
    /\ task \in [Actors -> [Tasks -> TaskState]]
    /\ registered \in [Ids -> Actors \cup {NoActor}]
    /\ episodes \in [Transactions -> Nat]
    /\ recovered \in [Transactions -> Nat]

\* The rows that exist are ordered; only work in flight goes stale.
RowOK(t) ==
    /\ rows[t].version > 0 <=> t \in Range(age)
    /\ rows[t].stuck => InFlight(t)
    /\ InFlight(t) => rows[t].version > 0

RowsOK == Ordered /\ \A t \in Transactions : RowOK(t)

\* The rows in flight that are among the n oldest of them are at most n.
LEMMA OldestBound ==
    ASSUME RowsOK, NEW n \in Nat \ {0}
    PROVE  IsFiniteSet(Oldest(n)) /\ Cardinality(Oldest(n)) <= n
<1> DEFINE B == Oldest(n)
<1>1. IsFiniteSet(Range(age))
    BY AgeCount DEF RowsOK
<1>2. B \subseteq Range(age)
    BY DEF Oldest, RowsOK, RowOK
<1>3. IsFiniteSet(B)
    BY <1>1, <1>2, FS_Subset
<1>4. CASE B = {}
    BY <1>4, FS_EmptySet
<1>5. CASE B # {}
  <2>1. PICK t \in B : \A u \in B \ {t} : Older(u, t)
    <3> HIDE DEF B
    <3> QED BY <1>2, <1>5, Youngest DEF RowsOK
  <2> DEFINE O == {u \in Transactions : InFlight(u) /\ Older(u, t)}
  <2>2. Cardinality(O) < n /\ B \ {t} \subseteq O
      BY <2>1 DEF Oldest
  <2>3. O \subseteq Range(age)
      BY DEF RowsOK, RowOK
  <2> HIDE DEF B, O
  <2>4. IsFiniteSet(O) /\ Cardinality(O) \in Nat
      BY <1>1, <2>3, FS_Subset, FS_CardinalityType
  <2>5. Cardinality(B \ {t}) <= Cardinality(O)
      BY <2>2, <2>4, FS_Subset
  <2>6. Cardinality(B \ {t}) = Cardinality(B) - 1
      BY <1>3, <2>1, FS_RemoveElement
  <2>7. Cardinality(B) \in Nat
      BY <1>3, FS_CardinalityType
  <2>8. Cardinality(B) <= n
      BY <2>2, <2>4, <2>5, <2>6, <2>7
  <2> QED BY <1>3, <2>8 DEF B
<1> QED BY <1>3, <1>4, <1>5
-----------------------------------------------------------------------------
(* The scheduler of one actor.                                             *)

\* Starting, stopping and patching leave nextRun and timer alike, and do not
\* touch sweepInProgress.
Scheduled(c, d) ==
    /\ d \in ActorFields
    /\ d.nextRun = d.timer
    /\ d.sweeping = c.sweeping

LEMMA StartScheduled ==
    ASSUME NEW c \in ActorFields, c.nextRun = c.timer
    PROVE  Scheduled(c, StartScheduler(c))
BY DEF Scheduled, StartScheduler, ActorFields

LEMMA StopScheduled ==
    ASSUME NEW c \in ActorFields
    PROVE  Scheduled(c, StopScheduler(c))
BY DEF Scheduled, StopScheduler, ActorFields

LEMMA PatchScheduled ==
    ASSUME NEW c \in ActorFields, NEW enabled \in BOOLEAN
    PROVE  Scheduled(c, UpdateSchedulerConfig(c, enabled))
<1> DEFINE s == StopScheduler(c)
           p == [s EXCEPT !.enabled = enabled]
<1>1. Scheduled(c, s)
    BY StopScheduled
<1> HIDE DEF s
<1>2. p \in ActorFields /\ p.nextRun = p.timer /\ p.sweeping = c.sweeping
    BY <1>1 DEF Scheduled, ActorFields
<1>3. UpdateSchedulerConfig(c, enabled) = IF enabled THEN StartScheduler(p) ELSE p
    BY DEF UpdateSchedulerConfig, s
<1> HIDE DEF p
<1>4. Scheduled(p, StartScheduler(p))
    BY <1>2, StartScheduled
<1> QED BY <1>2, <1>3, <1>4 DEF Scheduled

\* The end of a sweep clears sweepInProgress if it was the timer's.
LEMMA SweepScheduled ==
    ASSUME NEW c \in ActorFields, c.nextRun = c.timer, NEW k \in Tasks,
           NEW rejected \in BOOLEAN
    PROVE  LET d == AfterSweep(c, k, rejected)
           IN  /\ d \in ActorFields
               /\ d.nextRun = d.timer
               /\ k \notin TimerTasks => d.sweeping = c.sweeping
               /\ k \in TimerTasks => d.sweeping = FALSE
               /\ rejected => d.timer = c.timer
<1> DEFINE d == AfterSweep(c, k, rejected)
<1>1. CASE k \in Openers
  <2>1. k \notin TimerTasks
      BY <1>1, LifecycleAssumption
  <2>2. d = IF ~rejected /\ c.enabled THEN StartScheduler(c) ELSE c
      BY <1>1, <2>1 DEF AfterSweep
  <2>3. Scheduled(c, StartScheduler(c))
      BY StartScheduled
  <2> HIDE DEF d
  <2>4. Scheduled(c, d) /\ (rejected => d = c)
      BY <2>2, <2>3 DEF Scheduled
  <2> QED BY <2>1, <2>4 DEF Scheduled, d
<1>2. CASE k \in TimerTasks
  <2>1. k \notin Openers
      BY <1>2, LifecycleAssumption
  <2>2. d = [c EXCEPT !.sweeping = FALSE,
                      !.nextRun = IF c.timer THEN TRUE ELSE @]
      BY <1>2, <2>1 DEF AfterSweep
  <2> HIDE DEF d
  <2>3. /\ d \in ActorFields /\ d.nextRun = d.timer /\ d.sweeping = FALSE
        /\ d.timer = c.timer
      BY <2>2 DEF ActorFields
  <2> QED BY <1>2, <2>3 DEF d
<1>3. CASE k \notin Openers \cup TimerTasks
  <2>1. d = c
      BY <1>3 DEF AfterSweep
  <2> QED BY <1>3, <2>1
<1> QED BY <1>1, <1>2, <1>3
-----------------------------------------------------------------------------
(* The inductive invariant.                                                *)

\* An item that a sweep holds, with the version it was found or last written
\* with: the row has moved on, or is in flight.
Current(t, version) ==
    /\ version <= rows[t].version
    /\ version = rows[t].version => InFlight(t)

Counted(t) == mode[t] \in {"MARK_FAIL", "COMPENSATE"}

\* A task that is no sweep over items holds none; the version it wrote is
\* about the first of them.
TaskOK(r) ==
    /\ r.pc # "sweep" => r.items = <<>> /\ r.ver = 0
    /\ Len(r.items) <= BatchSize
    /\ r.ver # 0 => r.items # <<>>
    /\ \A i \in 1..Len(r.items) :
           Counted(r.items[i].tx) => Current(r.items[i].tx, r.items[i].version)
    /\ r.ver # 0 /\ Counted(r.items[1].tx) => Current(r.items[1].tx, r.ver)

TasksOK == \A a \in Actors, k \in Tasks : TaskOK(task[a][k])

\* An episode is counted when it begins; while it lasts it is not reported.
CountOK(t) ==
    Counted(t) => /\ recovered[t] <= episodes[t]
                  /\ InFlight(t) => recovered[t] < episodes[t]

CountsOK == \A t \in Transactions : CountOK(t)

\* One sweep of the timer at a time, and sweepInProgress while there is one.
Running(a) == {k \in TimerTasks : task[a][k].pc # "idle"}

ExclusiveOK(a) ==
    /\ actor[a].sweeping = (Running(a) # {})
    /\ \A j, k \in Running(a) : j = k

SchedulersOK ==
    \A a \in Actors : actor[a].nextRun = actor[a].timer /\ ExclusiveOK(a)

IInv ==
    /\ Types /\ RowsOK /\ TasksOK /\ CountsOK /\ SchedulersOK
    /\ UnregisteredHasNoTimer

-----------------------------------------------------------------------------
(* What a write does to the rows, and to the sweeps that hold items.       *)

\* Versions of counted transactions only grow, and with an old version the
\* row stays in flight.
Grows ==
    \A t \in Transactions : Counted(t) =>
        /\ rows[t].version <= rows'[t].version
        /\ rows[t].version = rows'[t].version /\ InFlight(t) => InFlight(t)'

Written(t, status) ==
    /\ rows' \in [Transactions -> StoredRow]
    /\ rows'[t].version = rows[t].version + 1
    /\ rows'[t].status = status
    /\ rows'[t].stuck = FALSE
    /\ \A u \in Transactions \ {t} : rows'[u] = rows[u]

LEMMA WriteRows ==
    ASSUME Types, RowsOK, NEW t \in Transactions, NEW status \in Statuses,
           Write(t, status)
    PROVE  Written(t, status) /\ RowsOK' /\ (mode' = mode => Grows)
<1> DEFINE r == [status |-> status, version |-> rows[t].version + 1, stuck |-> FALSE]
<1>1. rows \in [Transactions -> StoredRow] /\ rows[t].version \in Nat
    BY DEF Types, StoredRow
<1>2. r \in StoredRow
    BY <1>1 DEF StoredRow
<1>3. rows' = [rows EXCEPT ![t] = r]
    BY DEF Write
<1>4. /\ r.version = rows[t].version + 1 /\ r.status = status /\ r.stuck = FALSE
    OBVIOUS
<1> HIDE DEF r
<1>5. /\ rows' \in [Transactions -> StoredRow] /\ rows'[t] = r
      /\ \A u \in Transactions \ {t} : rows'[u] = rows[u]
    BY <1>1, <1>2, <1>3
<1>6. Written(t, status)
    BY <1>4, <1>5 DEF Written
<1>7. Ordered' /\ Range(age') = Range(age) \cup {t}
    BY TouchedOrdered DEF RowsOK, Ordered, Write
<1>8. ASSUME NEW u \in Transactions PROVE RowOK(u)'
  <2>1. CASE u = t
      BY <1>1, <1>4, <1>5, <1>7, <2>1 DEF RowOK, InFlight
  <2>2. CASE u # t
      BY <1>5, <1>7, <2>2 DEF RowsOK, RowOK, InFlight
  <2> QED BY <2>1, <2>2
<1>9. ASSUME mode' = mode PROVE Grows
  <2> SUFFICES ASSUME NEW u \in Transactions
               PROVE  /\ rows[u].version <= rows'[u].version
                      /\ rows[u].version = rows'[u].version /\ InFlight(u)
                             => InFlight(u)'
      BY DEF Grows
  <2>1. rows[u].version \in Nat
      BY DEF Types, StoredRow
  <2>2. CASE u = t
      BY <1>1, <1>4, <1>5, <2>2
  <2>3. CASE u # t
      BY <1>5, <2>1, <2>3 DEF InFlight
  <2> QED BY <2>2, <2>3
<1> QED BY <1>6, <1>7, <1>8, <1>9 DEF RowsOK

\* Items stay current.
LEMMA TaskKept ==
    ASSUME Types, Grows, mode' = mode, rows' \in [Transactions -> StoredRow],
           NEW r \in TaskState, TaskOK(r)
    PROVE  TaskOK(r)'
<1>1. ASSUME NEW t \in Transactions, NEW v \in Nat, Counted(t), Current(t, v)
      PROVE  Current(t, v)'
  <2>1. rows[t].version \in Nat /\ rows'[t].version \in Nat
      BY DEF Types, StoredRow
  <2>2. /\ rows[t].version <= rows'[t].version
        /\ rows[t].version = rows'[t].version /\ InFlight(t) => InFlight(t)'
      BY <1>1 DEF Grows
  <2> QED BY <1>1, <2>1, <2>2 DEF Current
<1>2. \A t : Counted(t)' <=> Counted(t)
    BY DEF Counted
<1>3. r.items \in Seq(Item) /\ r.ver \in Nat
    BY ONLY r \in TaskState DEF TaskState
<1>4. \A i \in 1..Len(r.items) :
          r.items[i].tx \in Transactions /\ r.items[i].version \in Nat
  <2>1. \A i \in 1..Len(r.items) : r.items[i] \in Item
      BY <1>3, ElementOfSeq
  <2> QED BY <2>1 DEF Item
<1>5. r.ver # 0 => r.items[1].tx \in Transactions
  <2>1. r.items # <<>> => 1 \in 1..Len(r.items)
      BY <1>3, EmptySeq
  <2> QED BY <1>4, <2>1 DEF TaskOK
<1> QED BY <1>1, <1>2, <1>3, <1>4, <1>5 DEF TaskOK
\* Every other task keeps the items it had, and they stay current.
Others(a, k) ==
    \A b \in Actors, j \in Tasks : b # a \/ j # k => task'[b][j] = task[b][j]

LEMMA OneTask ==
    ASSUME Types, TasksOK, Grows, mode' = mode, rows' \in [Transactions -> StoredRow],
           NEW a, NEW k, Others(a, k),
           a \in Actors /\ k \in Tasks => TaskOK(task[a][k])'
    PROVE  TasksOK'
<1> SUFFICES ASSUME NEW b \in Actors, NEW j \in Tasks, b # a \/ j # k
             PROVE  TaskOK(task[b][j])'
    BY DEF TasksOK
<1>1. PICK r \in TaskState : r = task[b][j] /\ TaskOK(r)
    BY DEF Types, TasksOK
<1>2. TaskOK(r)'
    BY <1>1, TaskKept
<1>3. r = task'[b][j]
    BY <1>1 DEF Others
<1> QED BY <1>2, <1>3 DEF TaskOK

LEMMA TasksKept ==
    ASSUME Types, TasksOK, Grows, mode' = mode, task' = task,
           rows' \in [Transactions -> StoredRow]
    PROVE  TasksOK'
<1> SUFFICES ASSUME NEW b \in Actors, NEW j \in Tasks
             PROVE  TaskOK(task[b][j])'
    BY DEF TasksOK
<1>1. PICK r \in TaskState : r = task[b][j] /\ TaskOK(r)
    BY DEF Types, TasksOK
<1>2. TaskOK(r)'
    BY <1>1, TaskKept
<1> QED BY <1>1, <1>2 DEF TaskOK

-----------------------------------------------------------------------------
(* Rows, sweeps and counts, one lemma for each action.                     *)

RowsInv == RowsOK /\ TasksOK /\ CountsOK

\* A counted episode begins only when the row is not in flight.
LEMMA LeaseRows ==
    ASSUME Types, RowsInv, NEW t \in Transactions, Lease(t)
    PROVE  RowsInv' /\ rows' \in [Transactions -> StoredRow]
<1>1. "IN_FLIGHT" \in Statuses /\ Write(t, "IN_FLIGHT") /\ mode' = mode
    BY DEF Statuses, Lease, registryVars
<1>2. Written(t, "IN_FLIGHT") /\ RowsOK' /\ Grows
    BY <1>1, WriteRows DEF RowsInv
<1>3. TasksOK'
    BY <1>1, <1>2, TasksKept DEF RowsInv, Written, Lease
<1>4. ASSUME NEW u \in Transactions PROVE CountOK(u)'
  <2>1. /\ ~InFlight(t) /\ recovered' = recovered
        /\ episodes' = [episodes EXCEPT ![t] = @ + 1]
      BY DEF Lease
  <2>2. recovered[u] \in Nat /\ episodes[u] \in Nat /\ CountOK(u)
      BY DEF Types, RowsInv, CountsOK
  <2>3. CASE u = t
    <3>1. episodes'[u] = episodes[u] + 1
        BY <2>1, <2>3 DEF Types
    <3> QED BY <1>1, <2>1, <2>2, <3>1 DEF CountOK, Counted
  <2>4. CASE u # t
    <3>1. episodes'[u] = episodes[u] /\ rows'[u] = rows[u]
        BY <1>2, <2>1, <2>4 DEF Types, Written
    <3> QED BY <1>1, <2>1, <2>2, <3>1 DEF CountOK, Counted, InFlight
  <2> QED BY <2>3, <2>4
<1> QED BY <1>2, <1>3, <1>4 DEF RowsInv, CountsOK, Written

LEMMA CallEndsRows ==
    ASSUME Types, RowsInv, NEW t \in Transactions, CallEnds(t)
    PROVE  RowsInv' /\ rows' \in [Transactions -> StoredRow]
<1>1. PICK s \in {"IDLE", "COMPLETED"} : Write(t, s)
    BY DEF CallEnds
<1>2. s \in Statuses /\ mode' = mode /\ task' = task
      /\ recovered' = recovered /\ episodes' = episodes
    BY DEF Statuses, CallEnds, registryVars
<1>3. Written(t, s) /\ RowsOK' /\ Grows
    BY <1>1, <1>2, WriteRows DEF RowsInv
<1>4. TasksOK'
    BY <1>2, <1>3, TasksKept DEF RowsInv, Written
<1>5. ASSUME NEW u \in Transactions PROVE CountOK(u)'
  <2>1. CountOK(u)
      BY DEF RowsInv, CountsOK
  <2>2. InFlight(u)' => InFlight(u)
      BY <1>3 DEF InFlight, Written
  <2> QED BY <1>2, <2>1, <2>2 DEF CountOK, Counted
<1> QED BY <1>3, <1>4, <1>5 DEF RowsInv, CountsOK, Written

\* Going stale changes neither version nor status.
LEMMA ElapseRows ==
    ASSUME Types, RowsInv, NEW t \in Transactions, Elapse(t)
    PROVE  RowsInv' /\ rows' \in [Transactions -> StoredRow]
<1>1. /\ rows' \in [Transactions -> StoredRow]
      /\ \A u \in Transactions :
             rows'[u].version = rows[u].version /\ rows'[u].status = rows[u].status
      /\ \A u \in Transactions \ {t} : rows'[u] = rows[u]
    BY DEF Elapse, Types, StoredRow
<1>2. /\ mode' = mode /\ task' = task /\ age' = age /\ InFlight(t)
      /\ recovered' = recovered /\ episodes' = episodes
    BY DEF Elapse, registryVars
<1>3. \A u \in Transactions : InFlight(u)' <=> InFlight(u)
    BY <1>1 DEF InFlight
<1>4. RowsOK'
  <2>1. Ordered'
      BY <1>2 DEF Ordered, RowsInv, RowsOK
  <2>2. ASSUME NEW u \in Transactions PROVE RowOK(u)'
    <3>1. RowOK(u)
        BY DEF RowsInv, RowsOK
    <3>2. CASE u = t
        BY <1>1, <1>2, <1>3, <3>1, <3>2 DEF RowOK
    <3>3. CASE u # t
        BY <1>1, <1>2, <1>3, <3>1, <3>3 DEF RowOK
    <3> QED BY <3>2, <3>3
  <2> QED BY <2>1, <2>2 DEF RowsOK
<1>5. Grows
  <2>1. \A u \in Transactions : rows[u].version \in Nat
      BY DEF Types, StoredRow
  <2> QED BY <1>1, <1>3, <2>1 DEF Grows
<1>6. TasksOK'
    BY <1>1, <1>2, <1>5, TasksKept DEF RowsInv
<1>7. CountsOK'
    BY <1>2, <1>3 DEF RowsInv, CountsOK, CountOK, Counted
<1> QED BY <1>1, <1>4, <1>6, <1>7 DEF RowsInv

-----------------------------------------------------------------------------
(* Rows, sweeps and counts under the steps of a task.                      *)

LEMMA StillGrows ==
    ASSUME Types, rows' = rows
    PROVE  Grows /\ rows' \in [Transactions -> StoredRow]
<1>1. \A t \in Transactions : rows[t].version \in Nat
    BY DEF Types, StoredRow
<1> QED BY <1>1 DEF Grows, InFlight, Types

LEMMA StillRowsOK ==
    ASSUME RowsOK, rows' = rows, age' = age
    PROVE  RowsOK'
BY DEF RowsOK, Ordered, RowOK, InFlight

LEMMA StillCountsOK ==
    ASSUME CountsOK, rows' = rows, mode' = mode, episodes' = episodes,
           recovered' = recovered
    PROVE  CountsOK'
BY DEF CountsOK, CountOK, Counted, InFlight

\* A task that goes to a label and holds nothing.
Holding(a, k, label) ==
    /\ task' \in [Actors -> [Tasks -> TaskState]]
    /\ Others(a, k)
    /\ a \in Actors /\ k \in Tasks =>
           /\ task'[a][k].pc = label
           /\ task'[a][k].items = <<>> /\ task'[a][k].ver = 0

LEMMA HoldingRows ==
    ASSUME Types, RowsInv, NEW a, NEW k, NEW label, Holding(a, k, label),
           label # "sweep", UNCHANGED <<storeVars, mode>>
    PROVE  RowsInv'
<1>1. rows' = rows /\ age' = age /\ mode' = mode /\ episodes' = episodes
      /\ recovered' = recovered
    BY DEF storeVars
<1>2. ASSUME a \in Actors, k \in Tasks PROVE TaskOK(task[a][k])'
  <2>1. BatchSize \in Nat
      BY LifecycleAssumption
  <2>2. Len(<<>>) = 0 /\ 1..0 = {}
      OBVIOUS
  <2> QED BY <1>2, <2>1, <2>2 DEF Holding, TaskOK
<1>3. TasksOK'
    BY <1>1, <1>2, StillGrows, OneTask DEF RowsInv, Holding
<1> QED BY <1>1, <1>3, StillRowsOK, StillCountsOK DEF RowsInv

\* The items of a query are at most a batch, found with the versions they have.
LEMMA QueryRows ==
    ASSUME Types, RowsInv, NEW a \in Actors, NEW k \in Tasks, Query(a, k)
    PROVE  /\ RowsInv'
           /\ task' \in [Actors -> [Tasks -> TaskState]] /\ Others(a, k)
           /\ task'[a][k].pc = "sweep" /\ task[a][k].pc = "query"
<1> DEFINE stuck == {t \in Batch : rows[t].stuck}
<1>1. IsFiniteSet(stuck) /\ Cardinality(stuck) \in Nat
      /\ Cardinality(stuck) <= BatchSize
  <2>1. BatchSize \in Nat \ {0}
      BY LifecycleAssumption
  <2>2. IsFiniteSet(Batch) /\ Cardinality(Batch) <= BatchSize
      BY <2>1, OldestBound DEF RowsInv, Batch
  <2>3. stuck \subseteq Batch
      OBVIOUS
  <2> HIDE DEF stuck
  <2>4. IsFiniteSet(stuck) /\ Cardinality(stuck) <= Cardinality(Batch)
      BY <2>2, <2>3, FS_Subset
  <2>5. Cardinality(stuck) \in Nat /\ Cardinality(Batch) \in Nat
      BY <2>2, <2>4, FS_CardinalityType
  <2> QED BY <2>1, <2>2, <2>4, <2>5
<1> DEFINE n == Cardinality(stuck)
<1>2. PICK found \in [1..n -> stuck] :
          task' = [task EXCEPT ![a][k].pc = "sweep",
                               ![a][k].items = [i \in DOMAIN found |->
                                   [tx |-> found[i], version |-> rows[found[i]].version]]]
    BY DEF Query
<1>0. PICK items :
          items = [i \in 1..n |-> [tx |-> found[i], version |-> rows[found[i]].version]]
    OBVIOUS
<1>3. \A t \in stuck : t \in Transactions /\ InFlight(t) /\ rows[t].version \in Nat
  <2>1. \A t \in Transactions : rows[t].version \in Nat
      BY DEF Types, StoredRow
  <2> QED BY <2>1 DEF Batch, Oldest
<1>4. DOMAIN found = 1..n
    BY <1>2
<1>5. task' = [task EXCEPT ![a][k].pc = "sweep", ![a][k].items = items]
    BY <1>0, <1>2, <1>4
<1> HIDE DEF stuck
<1>6. n \in Nat /\ n <= BatchSize
    BY <1>1
<1> HIDE DEF n
<1>7. /\ items \in Seq(Item) /\ Len(items) = n
      /\ \A i \in 1..n : /\ items[i].tx \in Transactions /\ InFlight(items[i].tx)
                         /\ items[i].version = rows[items[i].tx].version
  <2>1. \A i \in 1..n : found[i] \in stuck
      BY <1>2
  <2>2. \A i \in 1..n : [tx |-> found[i], version |-> rows[found[i]].version] \in Item
      BY <1>3, <2>1 DEF Item
  <2>3. items \in [1..n -> Item]
      BY <1>0, <2>2
  <2>4. items \in Seq(Item)
      BY <1>6, <2>3, SeqDef
  <2>5. Len(items) = n
    <3>1. DOMAIN items = 1..n
        BY <2>3
    <3>2. Len(items) \in Nat /\ DOMAIN items = 1..Len(items)
        BY <2>4, LenProperties
    <3> QED BY ONLY <1>6, <3>1, <3>2
  <2> QED BY <1>0, <1>3, <2>1, <2>4, <2>5
<1>8. task[a][k] \in TaskState /\ task[a][k].pc = "query" /\ TaskOK(task[a][k])
    BY DEF Types, Query, RowsInv, TasksOK
<1>9. task[a][k].ver = 0
    BY <1>8 DEF TaskOK
<1>10. /\ task'[a][k].pc = "sweep" /\ task'[a][k].items = items /\ task'[a][k].ver = 0
       /\ task'[a][k] \in TaskState /\ Others(a, k)
       /\ task' \in [Actors -> [Tasks -> TaskState]]
    BY <1>5, <1>7, <1>8, <1>9 DEF Types, TaskState, Others
<1>11. rows' = rows /\ age' = age /\ mode' = mode /\ episodes' = episodes
       /\ recovered' = recovered
    BY DEF Query, storeVars, registryVars
<1>12. TaskOK(task[a][k])'
  <2>1. \A i \in 1..n : Current(items[i].tx, items[i].version)'
    <3>1. \A t \in Transactions : rows[t].version \in Nat
        BY DEF Types, StoredRow
    <3> QED BY <1>7, <1>11, <3>1 DEF Current, InFlight
  <2> QED BY <1>6, <1>7, <1>10, <2>1 DEF TaskOK
<1>13. TasksOK'
    BY <1>10, <1>11, <1>12, StillGrows, OneTask DEF RowsInv
<1> QED BY <1>8, <1>10, <1>11, <1>13, StillRowsOK, StillCountsOK DEF RowsInv

\* An item that is done goes, with the version written for it.
NextItem(a, k) ==
    /\ task' \in [Actors -> [Tasks -> TaskState]] /\ Others(a, k)
    /\ task'[a][k].pc = "sweep" /\ task'[a][k].ver = 0
    /\ task'[a][k].items = Tail(task[a][k].items)

LEMMA DroppedItem ==
    ASSUME Types, NEW a \in Actors, NEW k \in Tasks,
           task[a][k].pc = "sweep", task[a][k].items # <<>>,
           \/ task' = Dropped(a, k)
           \/ task' = [Dropped(a, k) EXCEPT ![a][k].stops = TRUE]
    PROVE  NextItem(a, k)
<1>1. task[a][k] \in TaskState /\ task[a][k].items \in Seq(Item)
  <2>1. task[a][k] \in TaskState
      BY DEF Types
  <2> QED BY ONLY <2>1 DEF TaskState
<1>2. Tail(task[a][k].items) \in Seq(Item)
    BY <1>1, HeadTailProperties
<1>3. PICK tail \in Seq(Item) : tail = Tail(task[a][k].items)
    BY <1>2
<1>4. Dropped(a, k) = [task EXCEPT ![a][k].items = tail, ![a][k].ver = 0]
    BY <1>3 DEF Dropped
<1>5. PICK d : d = Dropped(a, k)
    OBVIOUS
<1>6. /\ d \in [Actors -> [Tasks -> TaskState]]
      /\ \A b \in Actors, j \in Tasks : b # a \/ j # k => d[b][j] = task[b][j]
      /\ d[a][k].pc = "sweep" /\ d[a][k].ver = 0 /\ d[a][k].items = tail
  <2>1. PICK e : e = [task EXCEPT ![a][k].items = tail]
      OBVIOUS
  <2>2. /\ e \in [Actors -> [Tasks -> TaskState]]
        /\ \A b \in Actors, j \in Tasks : b # a \/ j # k => e[b][j] = task[b][j]
        /\ e[a][k].pc = "sweep" /\ e[a][k].items = tail
      BY <1>1, <2>1 DEF Types, TaskState
  <2>3. d = [e EXCEPT ![a][k].ver = 0]
      BY <1>4, <1>5, <2>1
  <2>4. e[a][k] \in TaskState
      BY <2>2
  <2>5. /\ d \in [Actors -> [Tasks -> TaskState]]
        /\ \A b \in Actors, j \in Tasks : b # a \/ j # k => d[b][j] = e[b][j]
        /\ d[a][k].pc = e[a][k].pc /\ d[a][k].items = e[a][k].items
        /\ d[a][k].ver = 0
      BY <2>2, <2>3, <2>4 DEF TaskState
  <2> QED BY <2>2, <2>5
<1>7. CASE task' = d
    BY <1>3, <1>6, <1>7 DEF NextItem, Others
<1>8. CASE task' = [d EXCEPT ![a][k].stops = TRUE]
  <2>1. d[a][k] \in TaskState
      BY <1>6
  <2>2. /\ task' \in [Actors -> [Tasks -> TaskState]]
        /\ \A b \in Actors, j \in Tasks : b # a \/ j # k => task'[b][j] = d[b][j]
        /\ task'[a][k].pc = d[a][k].pc /\ task'[a][k].ver = d[a][k].ver
        /\ task'[a][k].items = d[a][k].items
      BY <1>6, <1>8, <2>1 DEF TaskState
  <2> QED BY <1>3, <1>6, <2>2 DEF NextItem, Others
<1> QED BY <1>5, <1>7, <1>8

LEMMA DroppedTasks ==
    ASSUME Types, TasksOK, Grows, mode' = mode, rows' \in [Transactions -> StoredRow],
           NEW a \in Actors, NEW k \in Tasks,
           task[a][k].items # <<>>, NextItem(a, k)
    PROVE  TasksOK'
<1>1. PICK r \in TaskState : r = task[a][k] /\ TaskOK(r)
    BY DEF Types, TasksOK
<1>2. TaskOK(r)'
    BY <1>1, TaskKept
<1>3. r.items \in Seq(Item) /\ r.items # <<>>
  <2>1. r.items \in Seq(Item)
      BY ONLY r \in TaskState DEF TaskState
  <2> QED BY <1>1, <2>1
<1>4. PICK tail \in Seq(Item) :
          /\ tail = task'[a][k].items /\ Len(tail) = Len(r.items) - 1
          /\ \A i \in 1..Len(tail) : tail[i] = r.items[i + 1]
  <2>1. PICK q \in Seq(Item) : q = r.items
      BY <1>3
  <2>2. /\ Tail(q) \in Seq(Item) /\ Len(Tail(q)) = Len(q) - 1
        /\ \A i \in 1..Len(Tail(q)) : Tail(q)[i] = q[i + 1]
      BY <1>3, <2>1, HeadTailProperties
  <2>3. task'[a][k].items = Tail(q)
      BY <1>1, <2>1 DEF NextItem
  <2> QED BY <2>1, <2>2, <2>3
<1>5. Len(r.items) \in Nat /\ Len(tail) \in Nat /\ BatchSize \in Nat
    BY <1>3, LenProperties, LifecycleAssumption
<1>6. TaskOK(task[a][k])'
  <2>1. Len(tail) <= BatchSize
      BY <1>2, <1>4, <1>5 DEF TaskOK
  <2>2. ASSUME NEW i \in 1..Len(tail), Counted(tail[i].tx)'
        PROVE  Current(tail[i].tx, tail[i].version)'
    <3>1. i + 1 \in 1..Len(r.items) /\ tail[i] = r.items[i + 1]
        BY <1>4, <1>5
    <3> QED BY <1>2, <2>2, <3>1 DEF TaskOK
  <2> QED BY <1>4, <2>1, <2>2 DEF TaskOK, NextItem
<1> QED BY <1>6, OneTask DEF NextItem

\* A version that matches is the current one: the episode goes on.
LEMMA HeldCurrent ==
    ASSUME Types, RowsInv, NEW a \in Actors, NEW k \in Tasks,
           task[a][k].items # <<>>
    PROVE  LET items == task[a][k].items
               t == Head(items).tx
               held == IF task[a][k].ver = 0 THEN Head(items).version
                       ELSE task[a][k].ver
           IN  /\ t \in Transactions /\ held \in Nat
               /\ Counted(t) => Current(t, held)
<1>1. PICK r \in TaskState : r = task[a][k] /\ TaskOK(r)
    BY DEF Types, TasksOK, RowsInv
<1>2. r.items \in Seq(Item) /\ r.ver \in Nat
    BY ONLY r \in TaskState DEF TaskState
<1>3. PICK q \in Seq(Item) : q = r.items
    BY <1>2
<1>4. q # <<>> /\ 1 \in 1..Len(q) /\ Head(q) = q[1]
    BY <1>1, <1>3, EmptySeq
<1>5. q[1] \in Item
    BY <1>4, ElementOfSeq
<1>6. q[1].tx \in Transactions /\ q[1].version \in Nat
    BY <1>5 DEF Item
<1>7. Counted(q[1].tx) => Current(q[1].tx, q[1].version)
    BY <1>1, <1>3, <1>4 DEF TaskOK
<1>8. r.ver # 0 /\ Counted(q[1].tx) => Current(q[1].tx, r.ver)
    BY <1>1, <1>3, <1>4 DEF TaskOK
<1> QED BY <1>1, <1>2, <1>3, <1>4, <1>6, <1>7, <1>8

Handled(a, k) ==
    /\ rows' \in [Transactions -> StoredRow]
    /\ recovered' \in [Transactions -> Nat]
    /\ task' \in [Actors -> [Tasks -> TaskState]] /\ Others(a, k)
    /\ task'[a][k].pc = "sweep"

\* The last write of a recovery takes the row out of flight; it is reported if
\* the store's answer arrives.
LEMMA ReportedRows ==
    ASSUME Types, RowsInv, NEW a \in Actors, NEW k \in Tasks,
           task[a][k].items # <<>>, NextItem(a, k),
           NEW t \in Transactions, NEW held \in Nat, Counted(t), Current(t, held),
           VersionMatches(t, held), NEW status \in {"FAILED", "COMPENSATED"},
           Write(t, status), Reported(t) \/ recovered' = recovered,
           mode' = mode, episodes' = episodes
    PROVE  RowsInv' /\ Handled(a, k)
<1>1. status \in Statuses
    BY DEF Statuses
<1>2. Written(t, status) /\ RowsOK' /\ Grows
    BY <1>1, WriteRows DEF RowsInv
<1>3. TasksOK'
    BY <1>2, DroppedTasks DEF RowsInv, Written
<1>4. InFlight(t)
    BY DEF Current, VersionMatches
<1>5. /\ recovered' \in [Transactions -> Nat]
      /\ recovered'[t] \in {recovered[t], recovered[t] + 1}
      /\ \A u \in Transactions \ {t} : recovered'[u] = recovered[u]
    BY DEF Reported, Types
<1>6. ASSUME NEW u \in Transactions PROVE CountOK(u)'
  <2>1. recovered[u] \in Nat /\ episodes[u] \in Nat /\ CountOK(u)
      BY DEF Types, RowsInv, CountsOK
  <2>2. CASE u = t
    <3>1. ~InFlight(u)'
        BY <1>2, <2>2 DEF InFlight, Written
    <3> QED BY <1>4, <1>5, <2>1, <2>2, <3>1 DEF CountOK, Counted
  <2>3. CASE u # t
    <3>1. InFlight(u)' <=> InFlight(u)
        BY <1>2, <2>3 DEF InFlight, Written
    <3> QED BY <1>5, <2>1, <2>3, <3>1 DEF CountOK, Counted
  <2> QED BY <2>2, <2>3
<1> QED BY <1>2, <1>3, <1>5, <1>6 DEF RowsInv, CountsOK, Handled, Written, NextItem

\* The write that begins a compensation: the sweep holds the version it wrote.
LEMMA BegunRows ==
    ASSUME Types, RowsInv, NEW a \in Actors, NEW k \in Tasks,
           task[a][k].pc = "sweep", task[a][k].items # <<>>,
           NEW t \in Transactions, t = Head(task[a][k].items).tx,
           NEW held \in Nat, Counted(t), Current(t, held), VersionMatches(t, held),
           Write(t, "COMPENSATING"), task' = [task EXCEPT ![a][k].ver = held + 1],
           mode' = mode, episodes' = episodes, recovered' = recovered
    PROVE  RowsInv' /\ Handled(a, k)
<1>1. "COMPENSATING" \in Statuses
    BY DEF Statuses
<1>2. Written(t, "COMPENSATING") /\ RowsOK' /\ Grows
    BY <1>1, WriteRows DEF RowsInv
<1>3. PICK r \in TaskState : r = task[a][k] /\ TaskOK(r)
    BY DEF Types, TasksOK, RowsInv
<1>4. TaskOK(r)'
    BY <1>2, <1>3, TaskKept DEF Written
<1>5. /\ task' \in [Actors -> [Tasks -> TaskState]] /\ Others(a, k)
      /\ task'[a][k].pc = "sweep" /\ task'[a][k].ver = held + 1
      /\ task'[a][k].items = r.items
  <2>1. PICK w \in Nat : w = held + 1
      OBVIOUS
  <2>2. /\ task \in [Actors -> [Tasks -> TaskState]] /\ task[a][k] = r
        /\ task' = [task EXCEPT ![a][k].ver = w] /\ r.pc = "sweep"
      BY <1>3, <2>1 DEF Types
  <2>3. /\ task' \in [Actors -> [Tasks -> TaskState]] /\ Others(a, k)
        /\ task'[a][k].pc = "sweep" /\ task'[a][k].ver = w
        /\ task'[a][k].items = r.items
      BY ONLY a \in Actors, k \in Tasks, r \in TaskState, <2>2, w \in Nat
         DEF TaskState, Others
  <2> QED BY <2>1, <2>3
<1>6. r.items \in Seq(Item) /\ r.items # <<>> /\ Head(r.items) = r.items[1]
  <2>1. r.items \in Seq(Item)
      BY ONLY r \in TaskState DEF TaskState
  <2> QED BY <1>3, <2>1
<1>7. Current(t, held + 1)'
  <2>1. rows'[t].version = held + 1 /\ InFlight(t)'
      BY <1>2 DEF Written, InFlight, VersionMatches
  <2> QED BY <2>1 DEF Current
<1>8. TaskOK(task[a][k])'
    BY <1>3, <1>4, <1>5, <1>6, <1>7 DEF TaskOK
<1>9. TasksOK'
    BY <1>2, <1>5, <1>8, OneTask DEF RowsInv, Written
<1>10. InFlight(t)
    BY DEF Current, VersionMatches
<1>11. ASSUME NEW u \in Transactions PROVE CountOK(u)'
  <2>1. InFlight(u)' => InFlight(u)
      BY <1>2, <1>10 DEF InFlight, Written
  <2> QED BY <2>1 DEF CountOK, Counted, RowsInv, CountsOK
<1> QED BY <1>2, <1>5, <1>9, <1>11 DEF RowsInv, CountsOK, Handled, Written, Types

\* DELETE asks for no version; its rows are not counted.
LEMMA DeletedRows ==
    ASSUME Types, RowsInv, NEW a \in Actors, NEW k \in Tasks,
           task[a][k].items # <<>>, NextItem(a, k),
           NEW t \in Transactions, mode[t] = "DELETE",
           rows' = [rows EXCEPT ![t] = [status |-> "IDLE", version |-> 0,
                                        stuck |-> FALSE]],
           age' = Without(t), Reported(t) \/ recovered' = recovered,
           mode' = mode, episodes' = episodes
    PROVE  RowsInv' /\ Handled(a, k)
<1>1. /\ rows' \in [Transactions -> StoredRow]
      /\ rows'[t].version = 0 /\ rows'[t].status = "IDLE" /\ rows'[t].stuck = FALSE
      /\ \A u \in Transactions \ {t} : rows'[u] = rows[u]
  <2>1. [status |-> "IDLE", version |-> 0, stuck |-> FALSE] \in StoredRow
      BY DEF StoredRow, Statuses
  <2> QED BY <2>1 DEF Types
<1>2. Ordered' /\ Range(age') = Range(age) \ {t}
    BY WithoutOrdered DEF RowsInv, RowsOK, Ordered
<1>3. RowsOK'
  <2>1. ASSUME NEW u \in Transactions PROVE RowOK(u)'
    <3>1. CASE u = t
        BY <1>1, <1>2, <3>1 DEF RowOK, InFlight
    <3>2. CASE u # t
        BY <1>1, <1>2, <3>2 DEF RowOK, InFlight, RowsInv, RowsOK
    <3> QED BY <3>1, <3>2
  <2> QED BY <1>2, <2>1 DEF RowsOK
<1>4. Grows
  <2>1. \A u \in Transactions : rows[u].version \in Nat
      BY DEF Types, StoredRow
  <2>2. ~Counted(t)
      BY DEF Counted
  <2> QED BY <1>1, <2>1, <2>2 DEF Grows, InFlight
<1>5. TasksOK'
    BY <1>1, <1>4, DroppedTasks DEF RowsInv
<1>6. ASSUME NEW u \in Transactions PROVE CountOK(u)'
  <2>1. CASE u = t
      BY <2>1 DEF CountOK, Counted
  <2>2. CASE u # t
    <3>1. recovered'[u] = recovered[u] /\ (InFlight(u)' <=> InFlight(u))
        BY <1>1, <2>2 DEF Reported, Types, InFlight
    <3> QED BY <3>1 DEF CountOK, Counted, RowsInv, CountsOK
  <2> QED BY <2>1, <2>2
<1>7. recovered' \in [Transactions -> Nat]
    BY DEF Reported, Types
<1> QED BY <1>1, <1>3, <1>5, <1>6, <1>7 DEF RowsInv, CountsOK, Handled, NextItem

\* An item passed over: STOP, a version that moved on, a store that rejects.
LEMMA PassedRows ==
    ASSUME Types, RowsInv, NEW a \in Actors, NEW k \in Tasks,
           task[a][k].items # <<>>, NextItem(a, k), UNCHANGED storeVars, mode' = mode
    PROVE  RowsInv' /\ Handled(a, k)
<1>1. rows' = rows /\ age' = age /\ episodes' = episodes /\ recovered' = recovered
    BY DEF storeVars
<1>2. TasksOK'
    BY <1>1, StillGrows, DroppedTasks DEF RowsInv
<1> QED BY <1>1, <1>2, StillRowsOK, StillCountsOK
        DEF RowsInv, Handled, NextItem, Types

\* The write that begins a compensation took place, but the store rejects.
LEMMA RefusedRows ==
    ASSUME Types, RowsInv, NEW a \in Actors, NEW k \in Tasks,
           task[a][k].items # <<>>, NextItem(a, k),
           NEW t \in Transactions, NEW held \in Nat, Counted(t), Current(t, held),
           VersionMatches(t, held), Write(t, "COMPENSATING"),
           mode' = mode, episodes' = episodes, recovered' = recovered
    PROVE  RowsInv' /\ Handled(a, k)
<1>1. "COMPENSATING" \in Statuses
    BY DEF Statuses
<1>2. Written(t, "COMPENSATING") /\ RowsOK' /\ Grows
    BY <1>1, WriteRows DEF RowsInv
<1>3. TasksOK'
    BY <1>2, DroppedTasks DEF RowsInv, Written
<1>4. InFlight(t)
    BY DEF Current, VersionMatches
<1>5. ASSUME NEW u \in Transactions PROVE CountOK(u)'
  <2>1. InFlight(u)' => InFlight(u)
      BY <1>2, <1>4 DEF InFlight, Written
  <2> QED BY <2>1 DEF CountOK, Counted, RowsInv, CountsOK
<1> QED BY <1>2, <1>3, <1>5 DEF RowsInv, CountsOK, Handled, Written, NextItem, Types

LEMMA HandleItemRows ==
    ASSUME Types, RowsInv, NEW a \in Actors, NEW k \in Tasks, HandleItem(a, k)
    PROVE  RowsInv' /\ Handled(a, k)
<1> DEFINE items == task[a][k].items
           t == Head(items).tx
           held == IF task[a][k].ver = 0 THEN Head(items).version
                   ELSE task[a][k].ver
<1>1. task[a][k].pc = "sweep" /\ items # <<>> /\ mode' = mode /\ episodes' = episodes
    BY DEF HandleItem, registryVars
<1>2. t \in Transactions /\ held \in Nat /\ (Counted(t) => Current(t, held))
    BY <1>1, HeldCurrent
<1>3. \/ /\ UNCHANGED storeVars
         /\ \/ task' = Dropped(a, k)
            \/ task' = [Dropped(a, k) EXCEPT ![a][k].stops = TRUE]
      \/ /\ mode[t] = "DELETE"
         /\ rows' = [rows EXCEPT ![t] = [status |-> "IDLE", version |-> 0,
                                         stuck |-> FALSE]]
         /\ age' = Without(t) /\ task' = Dropped(a, k)
         /\ Reported(t) \/ recovered' = recovered
      \/ /\ Counted(t) /\ VersionMatches(t, held)
         /\ \E status \in {"FAILED", "COMPENSATED"} : Write(t, status)
         /\ task' = Dropped(a, k) /\ (Reported(t) \/ recovered' = recovered)
      \/ /\ Counted(t) /\ VersionMatches(t, held)
         /\ Write(t, "COMPENSATING") /\ recovered' = recovered
         /\ \/ task' = [task EXCEPT ![a][k].ver = held + 1]
            \/ task' = Dropped(a, k)
    BY DEF HandleItem, Ended, Counted
<1>4. PICK x \in Transactions, v \in Nat : x = t /\ v = held
    BY <1>2
<1>5. x = Head(task[a][k].items).tx
    BY <1>4
<1> HIDE DEF t, held
<1>6. \/ task' = Dropped(a, k)
      \/ task' = [Dropped(a, k) EXCEPT ![a][k].stops = TRUE]
      => NextItem(a, k)
    BY <1>1, DroppedItem
<1>7. CASE UNCHANGED storeVars /\ NextItem(a, k)
    BY <1>1, <1>7, PassedRows
<1>8. CASE /\ mode[x] = "DELETE"
           /\ rows' = [rows EXCEPT ![x] = [status |-> "IDLE", version |-> 0,
                                           stuck |-> FALSE]]
           /\ age' = Without(x) /\ NextItem(a, k)
           /\ Reported(x) \/ recovered' = recovered
    BY <1>1, <1>8, DeletedRows
<1>9. CASE /\ Counted(x) /\ VersionMatches(x, v) /\ NextItem(a, k)
           /\ Reported(x) \/ recovered' = recovered
           /\ \E status \in {"FAILED", "COMPENSATED"} : Write(x, status)
  <2>1. Current(x, v)
      BY <1>2, <1>4, <1>9
  <2> QED BY <1>1, <1>9, <2>1, ReportedRows
<1>10. CASE /\ Counted(x) /\ VersionMatches(x, v) /\ Write(x, "COMPENSATING")
            /\ task' = [task EXCEPT ![a][k].ver = v + 1] /\ recovered' = recovered
  <2>1. Current(x, v)
      BY <1>2, <1>4, <1>10
  <2> QED BY <1>1, <1>5, <1>10, <2>1, BegunRows
<1>11. CASE /\ Counted(x) /\ VersionMatches(x, v) /\ Write(x, "COMPENSATING")
            /\ NextItem(a, k) /\ recovered' = recovered
  <2>1. Current(x, v)
      BY <1>2, <1>4, <1>11
  <2> QED BY <1>1, <1>11, <2>1, RefusedRows
<1> QED BY <1>3, <1>4, <1>6, <1>7, <1>8, <1>9, <1>10, <1>11

-----------------------------------------------------------------------------
(* Tasks that begin, and tasks that end.                                   *)

LEMMA PcHolding ==
    ASSUME Types, TasksOK, NEW a \in Actors, NEW k \in Tasks,
           task[a][k].pc # "sweep", NEW label \in {"opening", "query"},
           task' = [task EXCEPT ![a][k].pc = label]
    PROVE  Holding(a, k, label)
<1>1. PICK r \in TaskState : r = task[a][k] /\ TaskOK(r)
    BY DEF Types, TasksOK
<1>2. r.items = <<>> /\ r.ver = 0
    BY <1>1 DEF TaskOK
<1>3. task \in [Actors -> [Tasks -> TaskState]] /\ task[a][k] = r
    BY <1>1 DEF Types
<1> QED BY ONLY a \in Actors, k \in Tasks, label \in {"opening", "query"},
                r \in TaskState, <1>2, <1>3, task' = [task EXCEPT ![a][k].pc = label]
        DEF Holding, Others, TaskState

LEMMA NoTaskHolding ==
    ASSUME Types, NEW a \in Actors, NEW k \in Tasks,
           task' = [task EXCEPT ![a][k] = NoTask]
    PROVE  Holding(a, k, "idle")
<1>1. <<>> \in Seq(Item)
    BY EmptySeq
<1>2. NoTask \in TaskState /\ NoTask.pc = "idle" /\ NoTask.items = <<>> /\ NoTask.ver = 0
    BY <1>1 DEF NoTask, TaskState
<1> QED BY <1>2 DEF Types, Holding, Others

\* The timer's tasks that run in an actor are the same, as far as one task goes.
SameRunning == \A b \in Actors : Running(b)' = Running(b)

LEMMA RunningOthers ==
    ASSUME NEW a \in Actors, NEW k \in Tasks, Others(a, k)
    PROVE  /\ \A b \in Actors \ {a} : Running(b)' = Running(b)
           /\ \A j \in TimerTasks \ {k} : j \in Running(a)' <=> j \in Running(a)
           /\ k \notin TimerTasks => SameRunning
           /\ (task'[a][k].pc = "idle" <=> task[a][k].pc = "idle") => SameRunning
<1>1. TimerTasks \subseteq Tasks
    BY DEF Tasks
<1>2. \A b \in Actors, j \in TimerTasks : b # a \/ j # k => task'[b][j] = task[b][j]
    BY <1>1 DEF Others
<1> QED BY <1>2 DEF Running, SameRunning

LEMMA SchedulersKept ==
    ASSUME SchedulersOK, SameRunning,
           \A b \in Actors : /\ actor'[b].nextRun = actor'[b].timer
                             /\ actor'[b].sweeping = actor[b].sweeping
    PROVE  SchedulersOK'
<1> SUFFICES ASSUME NEW b \in Actors
             PROVE  (actor'[b].nextRun = actor'[b].timer) /\ ExclusiveOK(b)'
    BY DEF SchedulersOK
<1>1. ExclusiveOK(b) /\ Running(b)' = Running(b)
    BY DEF SchedulersOK, SameRunning
<1>2. actor'[b].sweeping = actor[b].sweeping
    OBVIOUS
<1> QED BY <1>1, <1>2 DEF ExclusiveOK

\* One actor changes its record.
LEMMA OneActor ==
    ASSUME Types, SchedulersOK, NEW a, NEW d, SameRunning,
           actor' = [actor EXCEPT ![a] = d],
           a \in Actors => /\ d \in ActorFields /\ d.nextRun = d.timer
                           /\ d.sweeping = actor[a].sweeping
    PROVE  SchedulersOK' /\ actor' \in [Actors -> ActorFields]
<1>1. actor' \in [Actors -> ActorFields]
    BY DEF Types
<1>2. ASSUME NEW b \in Actors
      PROVE  /\ actor'[b].nextRun = actor'[b].timer
             /\ actor'[b].sweeping = actor[b].sweeping
  <2>1. actor'[b] = IF b = a THEN d ELSE actor[b]
      BY DEF Types
  <2>2. actor[b].nextRun = actor[b].timer
      BY DEF SchedulersOK
  <2> QED BY <2>1, <2>2
<1> QED BY <1>1, <1>2, SchedulersKept

\* The end of a sweep, whoever began it.
LEMMA EndedScheduler ==
    ASSUME Types, SchedulersOK, NEW a \in Actors, NEW k \in Tasks,
           task[a][k].pc # "idle", Others(a, k), task'[a][k].pc = "idle",
           NEW d \in ActorFields, d.nextRun = d.timer,
           k \notin TimerTasks => d.sweeping = actor[a].sweeping,
           k \in TimerTasks => d.sweeping = FALSE,
           actor' = [actor EXCEPT ![a] = d]
    PROVE  SchedulersOK' /\ actor' \in [Actors -> ActorFields]
<1>1. CASE k \notin TimerTasks
    BY <1>1, RunningOthers, OneActor
<1>2. CASE k \in TimerTasks
  <2>1. actor' \in [Actors -> ActorFields] /\ actor'[a] = d
        /\ \A b \in Actors \ {a} : actor'[b] = actor[b]
      BY DEF Types
  <2>2. Running(a)' = {}
    <3>1. k \in Running(a) /\ k \notin Running(a)'
        BY <1>2 DEF Running
    <3>2. \A j \in Running(a) : j = k
        BY <3>1 DEF SchedulersOK, ExclusiveOK
    <3>3. Running(a)' \subseteq TimerTasks
        BY DEF Running
    <3> QED BY <3>1, <3>2, <3>3, RunningOthers
  <2>3. ASSUME NEW b \in Actors
        PROVE  (actor'[b].nextRun = actor'[b].timer) /\ ExclusiveOK(b)'
    <3>1. CASE b = a
      <4>1. actor'[a].sweeping = FALSE
          BY <1>2, <2>1
      <4> QED BY <2>1, <2>2, <3>1, <4>1 DEF ExclusiveOK
    <3>2. CASE b # a
      <4>1. /\ actor'[b] = actor[b] /\ Running(b)' = Running(b) /\ ExclusiveOK(b)
            /\ actor[b].nextRun = actor[b].timer
          BY <2>1, <3>2, RunningOthers DEF SchedulersOK
      <4> QED BY <4>1 DEF ExclusiveOK
    <3> QED BY <3>1, <3>2
  <2> QED BY <2>1, <2>3 DEF SchedulersOK
<1> QED BY <1>1, <1>2

\* The interval elapses: the first sweep, as none runs.
LEMMA TickScheduler ==
    ASSUME Types, TasksOK, SchedulersOK, NEW a \in Actors, Tick(a)
    PROVE  /\ SchedulersOK' /\ actor' \in [Actors -> ActorFields]
           /\ \E k \in Tasks : Holding(a, k, "query")
           /\ \A b \in Actors : actor'[b].timer = actor[b].timer
<1> DEFINE k == IdleTask(a, TimerTasks)
<1>1. Running(a) = {}
    BY DEF Tick, SchedulersOK, ExclusiveOK
<1>2. k \in TimerTasks /\ task[a][k].pc = "idle"
  <2>1. PICK j \in TimerTasks : TRUE
      BY LifecycleAssumption
  <2>2. task[a][j].pc = "idle"
      BY <1>1 DEF Running
  <2> QED BY <2>2 DEF IdleTask
<1>3. k \in Tasks
    BY <1>2 DEF Tasks
<1>4. task' = [task EXCEPT ![a][k].pc = "query"]
    BY DEF Tick
<1>5. actor' = [actor EXCEPT ![a].sweeping = TRUE]
    BY DEF Tick
<1> HIDE DEF k
<1>6. Holding(a, k, "query")
    BY <1>2, <1>3, <1>4, PcHolding
<1>7. Others(a, k) /\ task'[a][k].pc = "query"
    BY <1>3, <1>6 DEF Holding
<1>8. /\ actor' \in [Actors -> ActorFields] /\ actor'[a].sweeping = TRUE
      /\ actor'[a].timer = actor[a].timer /\ actor'[a].nextRun = actor[a].nextRun
      /\ \A b \in Actors \ {a} : actor'[b] = actor[b]
    BY <1>5 DEF Types, ActorFields
<1>9. Running(a)' = {k}
  <2>1. k \in Running(a)'
      BY <1>2, <1>7 DEF Running
  <2>2. Running(a)' \subseteq TimerTasks
      BY DEF Running
  <2> QED BY <1>1, <1>3, <1>7, <2>1, <2>2, RunningOthers
<1>10. ASSUME NEW b \in Actors
       PROVE  (actor'[b].nextRun = actor'[b].timer) /\ ExclusiveOK(b)'
  <2>1. CASE b = a
    <3>1. actor[a].nextRun = actor[a].timer
        BY DEF SchedulersOK
    <3> QED BY <1>8, <1>9, <2>1, <3>1 DEF ExclusiveOK
  <2>2. CASE b # a
    <3>1. /\ actor'[b] = actor[b] /\ Running(b)' = Running(b) /\ ExclusiveOK(b)
          /\ actor[b].nextRun = actor[b].timer
        BY <1>3, <1>7, <1>8, <2>2, RunningOthers DEF SchedulersOK
    <3> QED BY <3>1 DEF ExclusiveOK
  <2> QED BY <2>1, <2>2
<1> QED BY <1>3, <1>6, <1>8, <1>10 DEF SchedulersOK

-----------------------------------------------------------------------------
(* The registry.                                                           *)

\* No timer is set in this step, and the registry stays as it is.
LEMMA UnregisteredKept ==
    ASSUME UnregisteredHasNoTimer, idOf' = idOf, registered' = registered,
           loose' = loose, \A b \in Actors : actor'[b].timer = actor[b].timer
    PROVE  UnregisteredHasNoTimer'
BY DEF UnregisteredHasNoTimer

\* An actor that gains a timer without being registered counts as loose.
LEMMA StartedKept ==
    ASSUME UnregisteredHasNoTimer, NEW a \in Actors, Started(a), idOf' = idOf,
           registered' = registered,
           \A b \in Actors \ {a} : actor'[b] = actor[b]
    PROVE  UnregisteredHasNoTimer'
<1> SUFFICES ASSUME NEW b \in Actors, actor'[b].timer, registered[idOf[b]] # b
             PROVE  b \in loose'
    BY DEF UnregisteredHasNoTimer
<1>1. loose \subseteq loose'
    BY DEF Started
<1>2. CASE b = a /\ ~actor[a].timer
    BY <1>2 DEF Started
<1>3. CASE ~(b = a /\ ~actor[a].timer)
  <2>1. actor[b].timer
      BY <1>3
  <2> QED BY <1>1, <2>1 DEF UnregisteredHasNoTimer
<1> QED BY <1>2, <1>3

\* A closed actor has no timer; whoever else had the id is lost.
LEMMA CloseKept ==
    ASSUME Types, SchedulersOK, UnregisteredHasNoTimer, NEW a, CloseActor(a),
           idOf' = idOf, task' = task
    PROVE  /\ SchedulersOK' /\ UnregisteredHasNoTimer'
           /\ actor' \in [Actors -> ActorFields]
           /\ registered' \in [Ids -> Actors \cup {NoActor}]
<1> DEFINE d == StopScheduler(actor[a])
<1>1. actor' = [actor EXCEPT ![a] = d]
    BY DEF CloseActor
<1>2. a \in Actors => Scheduled(actor[a], d) /\ d.timer = FALSE
  <2>1. ASSUME a \in Actors PROVE actor[a] \in ActorFields
      BY <2>1 DEF Types
  <2>2. ASSUME a \in Actors PROVE d.timer = FALSE
      BY <2>1, <2>2 DEF StopScheduler, ActorFields
  <2> QED BY <2>1, <2>2, StopScheduled
<1> HIDE DEF d
<1>3. SameRunning
    BY DEF SameRunning, Running
<1>4. SchedulersOK' /\ actor' \in [Actors -> ActorFields]
    BY <1>1, <1>2, <1>3, OneActor DEF Scheduled
<1>5. /\ registered' = [registered EXCEPT ![idOf[a]] = NoActor]
      /\ loose' = (loose \ {a}) \cup ({registered[idOf[a]]} \ {a, NoActor})
    BY DEF CloseActor
<1>6. registered' \in [Ids -> Actors \cup {NoActor}]
    BY <1>5 DEF Types
<1>7. UnregisteredHasNoTimer'
  <2> SUFFICES ASSUME NEW b \in Actors, actor'[b].timer, registered'[idOf[b]] # b
               PROVE  b \in loose'
      BY DEF UnregisteredHasNoTimer
  <2>1. b # a
    <3>1. a \in Actors => actor'[a] = d
        BY <1>1 DEF Types
    <3> QED BY <1>2, <3>1
  <2>2. actor[b].timer
      BY <1>1, <2>1 DEF Types
  <2>3. idOf[b] \in Ids /\ b # NoActor
      BY LifecycleAssumption DEF Types
  <2>4. CASE registered[idOf[b]] = b
    <3>1. idOf[b] = idOf[a]
        BY <1>5, <2>3, <2>4 DEF Types
    <3> QED BY <1>5, <2>1, <2>3, <2>4, <3>1
  <2>5. CASE registered[idOf[b]] # b
      BY <1>5, <2>1, <2>2, <2>5 DEF UnregisteredHasNoTimer
  <2> QED BY <2>4, <2>5
<1> QED BY <1>4, <1>6, <1>7

\* A new actor takes the id; the one that had it is lost.
LEMMA BuildKept ==
    ASSUME Types, SchedulersOK, UnregisteredHasNoTimer, NEW a \in Actors,
           BuildActorSync(a)
    PROVE  /\ SchedulersOK' /\ UnregisteredHasNoTimer'
           /\ actor' \in [Actors -> ActorFields]
           /\ registered' \in [Ids -> Actors \cup {NoActor}]
<1>1. PICK d : d = [actor[a] EXCEPT !.built = TRUE]
    OBVIOUS
<1>2. actor[a] \in ActorFields /\ actor[a].nextRun = actor[a].timer
    BY DEF Types, SchedulersOK
<1>3. /\ d \in ActorFields /\ d.nextRun = actor[a].nextRun /\ d.timer = actor[a].timer
      /\ d.sweeping = actor[a].sweeping
    BY <1>1, <1>2 DEF ActorFields
<1>4. actor' = [actor EXCEPT ![a] = d]
    BY <1>1 DEF BuildActorSync
<1>5. SameRunning
    BY DEF SameRunning, Running, BuildActorSync
<1>6. SchedulersOK' /\ actor' \in [Actors -> ActorFields]
    BY <1>2, <1>3, <1>4, <1>5, OneActor
<1>7. /\ registered' = [registered EXCEPT ![idOf[a]] = a] /\ idOf' = idOf
      /\ loose' = loose \cup ({registered[idOf[a]]} \ {NoActor})
    BY DEF BuildActorSync
<1>8. registered' \in [Ids -> Actors \cup {NoActor}]
    BY <1>7 DEF Types
<1>9. UnregisteredHasNoTimer'
  <2> SUFFICES ASSUME NEW b \in Actors, actor'[b].timer, registered'[idOf[b]] # b
               PROVE  b \in loose'
      BY <1>7 DEF UnregisteredHasNoTimer
  <2>1. actor[b].timer
    <3>1. actor'[b] = IF b = a THEN d ELSE actor[b]
        BY <1>4 DEF Types
    <3> QED BY <1>3, <3>1
  <2>2. idOf[b] \in Ids /\ b # NoActor
      BY LifecycleAssumption DEF Types
  <2>3. CASE registered[idOf[b]] = b
    <3>1. idOf[b] = idOf[a]
        BY <1>7, <2>2, <2>3 DEF Types
    <3> QED BY <1>7, <2>2, <2>3, <3>1
  <2>4. CASE registered[idOf[b]] # b
      BY <1>7, <2>1, <2>4 DEF UnregisteredHasNoTimer
  <2> QED BY <2>3, <2>4
<1> QED BY <1>6, <1>8, <1>9

\* The map is cleared: whoever was in it is lost.
LEMMA ClearKept ==
    ASSUME Types, UnregisteredHasNoTimer, ShutdownClear
    PROVE  /\ UnregisteredHasNoTimer'
           /\ registered' \in [Ids -> Actors \cup {NoActor}]
<1>1. /\ registered' = [i \in Ids |-> NoActor] /\ idOf' = idOf /\ actor' = actor
      /\ loose' = loose \cup ({registered[i] : i \in Ids} \ {NoActor})
    BY DEF ShutdownClear
<1>2. ASSUME NEW b \in Actors, actor'[b].timer PROVE b \in loose'
  <2>1. idOf[b] \in Ids /\ b # NoActor
      BY LifecycleAssumption DEF Types
  <2>2. CASE registered[idOf[b]] = b
      BY <1>1, <2>1, <2>2
  <2>3. CASE registered[idOf[b]] # b
      BY <1>1, <1>2, <2>3 DEF UnregisteredHasNoTimer
  <2> QED BY <2>2, <2>3
<1> QED BY <1>1, <1>2 DEF UnregisteredHasNoTimer

-----------------------------------------------------------------------------
(* The invariant holds in every reachable state.                           *)

LEMMA InitIInv ==
    ASSUME Init
    PROVE  IInv
<1>1. PICK sc \in Scenarios : idOf = sc.idOf
    BY DEF Init
<1>2. idOf \in [Actors -> Ids]
    BY <1>1, LifecycleAssumption
<1>3. \A t \in Transactions : rows[t] = [status |-> "IDLE", version |-> 0, stuck |-> FALSE]
    BY DEF Init
<1>4. \A t \in Transactions : ~InFlight(t) /\ rows[t].version = 0 /\ rows[t].stuck = FALSE
    BY <1>3 DEF InFlight
<1>5. NoTask \in TaskState /\ NoTask.pc = "idle" /\ NoTask.items = <<>> /\ NoTask.ver = 0
  <2>1. <<>> \in Seq(Item)
      BY EmptySeq
  <2> QED BY <2>1 DEF NoTask, TaskState
<1>6. \A a \in Actors, k \in Tasks : task[a][k] = NoTask
    BY DEF Init
<1>7. \A a \in Actors : /\ actor[a] \in ActorFields
                        /\ actor[a].timer = FALSE /\ actor[a].nextRun = FALSE
                        /\ actor[a].sweeping = FALSE
  <2>1. SchedulerOn \in BOOLEAN
      BY LifecycleAssumption
  <2> QED BY <2>1 DEF Init, ActorFields
<1>8. Types
  <2>1. rows \in [Transactions -> StoredRow]
      BY DEF Init, StoredRow, Statuses
  <2>2. actor \in [Actors -> ActorFields]
      BY <1>7 DEF Init
  <2>3. task \in [Actors -> [Tasks -> TaskState]]
      BY <1>5 DEF Init
  <2>4. /\ registered \in [Ids -> Actors \cup {NoActor}]
        /\ episodes \in [Transactions -> Nat] /\ recovered \in [Transactions -> Nat]
      BY DEF Init
  <2> QED BY <1>2, <2>1, <2>2, <2>3, <2>4 DEF Types
<1>9. RowsOK
  <2>1. age = <<>> /\ age \in Seq(Transactions) /\ DOMAIN age = {}
      BY EmptySeq DEF Init
  <2>2. Ordered /\ Range(age) = {}
      BY <2>1 DEF Ordered, IsInjective, Range
  <2> QED BY <1>4, <2>2 DEF RowsOK, RowOK
<1>10. TasksOK
  <2>1. BatchSize \in Nat /\ Len(<<>>) = 0 /\ 1..0 = {}
      BY LifecycleAssumption
  <2> QED BY <1>5, <1>6, <2>1 DEF TasksOK, TaskOK
<1>11. CountsOK
    BY <1>4 DEF Init, CountsOK, CountOK
<1>12. SchedulersOK
  <2>1. \A a \in Actors : Running(a) = {}
      BY <1>5, <1>6 DEF Running, Tasks
  <2> QED BY <1>7, <2>1 DEF SchedulersOK, ExclusiveOK
<1>13. UnregisteredHasNoTimer
    BY <1>7 DEF UnregisteredHasNoTimer
<1> QED BY <1>8, <1>9, <1>10, <1>11, <1>12, <1>13 DEF IInv

\* Steps that touch neither the actors nor their tasks nor the registry.
LEMMA ActorsStill ==
    ASSUME SchedulersOK, UnregisteredHasNoTimer,
           UNCHANGED <<idOf, actor, task, registered, loose>>
    PROVE  SchedulersOK' /\ UnregisteredHasNoTimer'
BY DEF SchedulersOK, ExclusiveOK, Running, UnregisteredHasNoTimer

LEMMA RowStep ==
    ASSUME IInv, NEW t \in Transactions, Lease(t) \/ CallEnds(t) \/ Elapse(t)
    PROVE  IInv'
<1>1. Types /\ RowsInv
    BY DEF IInv, RowsInv
<1>2. RowsInv' /\ rows' \in [Transactions -> StoredRow]
    BY <1>1, LeaseRows, CallEndsRows, ElapseRows
<1>3. UNCHANGED <<idOf, actor, task, registered, loose>>
    BY DEF Lease, CallEnds, Elapse, registryVars
<1>4. /\ episodes' \in [Transactions -> Nat]
      /\ recovered' = recovered
    BY <1>1 DEF Lease, CallEnds, Elapse, Types
<1>5. SchedulersOK' /\ UnregisteredHasNoTimer'
    BY <1>3, ActorsStill DEF IInv
<1> QED BY <1>1, <1>2, <1>3, <1>4, <1>5 DEF IInv, RowsInv, Types

\* Steps that leave the rows and what is counted alone.
LEMMA RowsStill ==
    ASSUME IInv, UNCHANGED <<storeVars, idOf, mode>>,
           TasksOK' /\ SchedulersOK' /\ UnregisteredHasNoTimer',
           actor' \in [Actors -> ActorFields],
           task' \in [Actors -> [Tasks -> TaskState]],
           registered' \in [Ids -> Actors \cup {NoActor}]
    PROVE  IInv'
<1>1. rows' = rows /\ age' = age /\ episodes' = episodes /\ recovered' = recovered
    BY DEF storeVars
<1> QED BY <1>1, StillRowsOK, StillCountsOK DEF IInv, Types

LEMMA HoldingInv ==
    ASSUME IInv, NEW a \in Actors, NEW k \in Tasks, NEW label, label # "sweep",
           Holding(a, k, label), UNCHANGED <<storeVars, mode>>
    PROVE  TasksOK'
BY HoldingRows DEF IInv, RowsInv

\* An actor opens, or the timer's interval elapses, or a sweep is asked for.
LEMMA InitializeStep ==
    ASSUME IInv, NEW a \in Actors, Initialize(a)
    PROVE  IInv'
<1> DEFINE k == IdleTask(a, Openers)
<1>1. k \in Openers /\ task[a][k].pc = "idle"
    BY DEF Initialize, IdleTask
<1>2. k \in Tasks /\ k \notin TimerTasks
    BY <1>1, LifecycleAssumption DEF Tasks
<1>3. task' = [task EXCEPT ![a][k].pc = "opening"]
      /\ UNCHANGED <<storeVars, idOf, mode, actor, registered, loose>>
    BY DEF Initialize, registryVars
<1> HIDE DEF k
<1>4. Holding(a, k, "opening")
    BY <1>1, <1>2, <1>3, PcHolding DEF IInv
<1>5. TasksOK'
    BY <1>2, <1>3, <1>4, HoldingInv
<1>6. SameRunning
    BY <1>2, <1>4, RunningOthers DEF Holding
<1>7. SchedulersOK'
    BY <1>3, <1>6, SchedulersKept DEF IInv, SchedulersOK
<1>8. UnregisteredHasNoTimer'
    BY <1>3, UnregisteredKept DEF IInv
<1> QED BY <1>3, <1>4, <1>5, <1>7, <1>8, RowsStill DEF IInv, Types, Holding

LEMMA StoreOpenedStep ==
    ASSUME IInv, NEW a \in Actors, NEW k \in Tasks, StoreOpened(a, k)
    PROVE  IInv'
<1>1. /\ task[a][k].pc = "opening" /\ task' = [task EXCEPT ![a][k].pc = "query"]
      /\ UNCHANGED <<storeVars, idOf, mode, registered, loose>>
    BY DEF StoreOpened, registryVars
<1>2. Holding(a, k, "query")
    BY <1>1, PcHolding DEF IInv
<1>3. TasksOK'
    BY <1>1, <1>2, HoldingInv
<1>4. SameRunning
    BY <1>1, <1>2, RunningOthers DEF Holding
<1>5. PICK d : d = [actor[a] EXCEPT !.initialized = TRUE]
    OBVIOUS
<1>6. actor' = [actor EXCEPT ![a] = d]
    BY <1>5 DEF StoreOpened
<1>7. actor[a] \in ActorFields /\ actor[a].nextRun = actor[a].timer
    BY DEF IInv, Types, SchedulersOK
<1>8. /\ d \in ActorFields /\ d.nextRun = actor[a].nextRun
      /\ d.timer = actor[a].timer /\ d.sweeping = actor[a].sweeping
    BY <1>5, <1>7 DEF ActorFields
<1>9. SchedulersOK' /\ actor' \in [Actors -> ActorFields]
    BY <1>4, <1>6, <1>7, <1>8, OneActor DEF IInv
<1>10. \A b \in Actors : actor'[b].timer = actor[b].timer
    BY <1>6, <1>8 DEF IInv, Types
<1>11. UnregisteredHasNoTimer'
    BY <1>1, <1>10, UnregisteredKept DEF IInv
<1> QED BY <1>1, <1>2, <1>3, <1>9, <1>11, RowsStill DEF IInv, Types, Holding

LEMMA TickStep ==
    ASSUME IInv, NEW a \in Actors, Tick(a)
    PROVE  IInv'
<1>1. UNCHANGED <<storeVars, idOf, mode, registered, loose>>
    BY DEF Tick, registryVars
<1>2. PICK k \in Tasks : Holding(a, k, "query")
    BY TickScheduler DEF IInv
<1>3. /\ SchedulersOK' /\ actor' \in [Actors -> ActorFields]
      /\ \A b \in Actors : actor'[b].timer = actor[b].timer
    BY TickScheduler DEF IInv
<1>4. TasksOK'
    BY <1>1, <1>2, HoldingInv
<1>5. UnregisteredHasNoTimer'
    BY <1>1, <1>3, UnregisteredKept DEF IInv
<1> QED BY <1>1, <1>2, <1>3, <1>4, <1>5, RowsStill DEF IInv, Types, Holding

LEMMA TriggerStep ==
    ASSUME IInv, NEW a \in Actors, NEW k \in Tasks, TriggerSweepNow(a, k)
    PROVE  IInv'
<1>1. /\ k \notin TimerTasks /\ task[a][k].pc = "idle"
      /\ task' = [task EXCEPT ![a][k].pc = "query"]
      /\ UNCHANGED <<storeVars, idOf, mode, actor, registered, loose>>
    BY LifecycleAssumption DEF TriggerSweepNow, registryVars
<1>2. Holding(a, k, "query")
    BY <1>1, PcHolding DEF IInv
<1>3. TasksOK'
    BY <1>1, <1>2, HoldingInv
<1>4. SameRunning
    BY <1>1, <1>2, RunningOthers DEF Holding
<1>5. SchedulersOK'
    BY <1>1, <1>4, SchedulersKept DEF IInv, SchedulersOK
<1>6. UnregisteredHasNoTimer'
    BY <1>1, UnregisteredKept DEF IInv
<1> QED BY <1>1, <1>2, <1>3, <1>5, <1>6, RowsStill DEF IInv, Types, Holding

\* The sweep.
LEMMA QueryStep ==
    ASSUME IInv, NEW a \in Actors, NEW k \in Tasks, Query(a, k)
    PROVE  IInv'
<1>1. /\ TasksOK' /\ task' \in [Actors -> [Tasks -> TaskState]] /\ Others(a, k)
      /\ task'[a][k].pc = "sweep" /\ task[a][k].pc = "query"
    BY QueryRows DEF IInv, RowsInv
<1>2. UNCHANGED <<storeVars, idOf, mode, actor, registered, loose>>
    BY DEF Query, registryVars
<1>3. SameRunning
    BY <1>1, RunningOthers
<1>4. SchedulersOK'
    BY <1>2, <1>3, SchedulersKept DEF IInv, SchedulersOK
<1>5. UnregisteredHasNoTimer'
    BY <1>2, UnregisteredKept DEF IInv
<1> QED BY <1>1, <1>2, <1>4, <1>5, RowsStill DEF IInv, Types

LEMMA QueryFailsStep ==
    ASSUME IInv, NEW a \in Actors, NEW k \in Tasks, QueryFails(a, k)
    PROVE  IInv'
<1> DEFINE d == AfterSweep(actor[a], k, TRUE)
<1>1. /\ task[a][k].pc \in {"opening", "query"} /\ task' = [task EXCEPT ![a][k] = NoTask]
      /\ actor' = [actor EXCEPT ![a] = d]
      /\ UNCHANGED <<storeVars, idOf, mode, registered, loose>>
    BY DEF QueryFails, registryVars
<1>2. Holding(a, k, "idle")
    BY <1>1, NoTaskHolding DEF IInv
<1>3. TasksOK'
    BY <1>1, <1>2, HoldingInv
<1>4. actor[a] \in ActorFields /\ actor[a].nextRun = actor[a].timer
    BY DEF IInv, Types, SchedulersOK
<1>5. /\ d \in ActorFields /\ d.nextRun = d.timer /\ d.timer = actor[a].timer
      /\ k \notin TimerTasks => d.sweeping = actor[a].sweeping
      /\ k \in TimerTasks => d.sweeping = FALSE
    BY <1>4, SweepScheduled
<1> HIDE DEF d
<1>6. SchedulersOK' /\ actor' \in [Actors -> ActorFields]
    BY <1>1, <1>2, <1>5, EndedScheduler DEF IInv, Holding
<1>7. \A b \in Actors : actor'[b].timer = actor[b].timer
    BY <1>1, <1>5 DEF IInv, Types
<1>8. UnregisteredHasNoTimer'
    BY <1>1, <1>7, UnregisteredKept DEF IInv
<1> QED BY <1>1, <1>2, <1>3, <1>6, <1>8, RowsStill DEF IInv, Types, Holding

LEMMA HandleItemStep ==
    ASSUME IInv, NEW a \in Actors, NEW k \in Tasks, HandleItem(a, k)
    PROVE  IInv'
<1>1. RowsInv' /\ Handled(a, k)
    BY HandleItemRows DEF IInv, RowsInv
<1>2. task[a][k].pc = "sweep" /\ UNCHANGED <<idOf, actor, registered, loose, episodes>>
    BY DEF HandleItem, registryVars
<1>3. SameRunning
    BY <1>1, <1>2, RunningOthers DEF Handled
<1>4. SchedulersOK'
    BY <1>2, <1>3, SchedulersKept DEF IInv, SchedulersOK
<1>5. UnregisteredHasNoTimer'
    BY <1>2, UnregisteredKept DEF IInv
<1> QED BY <1>1, <1>2, <1>4, <1>5 DEF IInv, RowsInv, Handled, Types

LEMMA FinishSweepStep ==
    ASSUME IInv, NEW a \in Actors, NEW k \in Tasks, FinishSweep(a, k)
    PROVE  IInv'
<1> DEFINE halt == task[a][k].stops /\ HaltOnStop
           c == [actor[a] EXCEPT !.stopped = @ \/ halt]
           d == AfterSweep(c, k, halt)
<1>2. halt \in BOOLEAN
    OBVIOUS
<1>3. /\ task[a][k].pc = "sweep" /\ task' = [task EXCEPT ![a][k] = NoTask]
      /\ actor' = [actor EXCEPT ![a] = d] /\ Started(a)
      /\ UNCHANGED <<storeVars, idOf, mode, registered>>
  <2>1. actor' = [actor EXCEPT ![a] = d]
      BY DEF FinishSweep
  <2> HIDE DEF d
  <2> QED BY <2>1 DEF FinishSweep
<1>4. Holding(a, k, "idle")
    BY <1>3, NoTaskHolding DEF IInv
<1>5. TasksOK'
    BY <1>3, <1>4, HoldingInv
<1>6. actor[a] \in ActorFields /\ actor[a].nextRun = actor[a].timer
    BY DEF IInv, Types, SchedulersOK
<1> HIDE DEF halt
<1>7. /\ c \in ActorFields /\ c.nextRun = c.timer
      /\ c.sweeping = actor[a].sweeping
    BY <1>2, <1>6 DEF ActorFields
<1> HIDE DEF c
<1>8. /\ d \in ActorFields /\ d.nextRun = d.timer
      /\ k \notin TimerTasks => d.sweeping = c.sweeping
      /\ k \in TimerTasks => d.sweeping = FALSE
    BY <1>2, <1>7, SweepScheduled
<1> HIDE DEF d
<1>9. SchedulersOK' /\ actor' \in [Actors -> ActorFields]
    BY <1>3, <1>4, <1>7, <1>8, EndedScheduler DEF IInv, Holding
<1>10. \A b \in Actors \ {a} : actor'[b] = actor[b]
    BY <1>3 DEF IInv, Types
<1>11. UnregisteredHasNoTimer'
    BY <1>3, <1>10, StartedKept DEF IInv
<1> QED BY <1>3, <1>4, <1>5, <1>9, <1>11, RowsStill DEF IInv, Types, Holding

\* The administrative calls.
LEMMA ConfigureStep ==
    ASSUME IInv, NEW a \in Actors, Configure(a)
    PROVE  IInv'
<1>1. PICK d \in {StartScheduler(actor[a]), StopScheduler(actor[a]),
                  UpdateSchedulerConfig(actor[a], TRUE),
                  UpdateSchedulerConfig(actor[a], FALSE)} :
          actor' = [actor EXCEPT ![a] = d]
    BY DEF Configure
<1>2. task' = task /\ Started(a) /\ UNCHANGED <<storeVars, idOf, mode, registered>>
    BY DEF Configure
<1>3. actor[a] \in ActorFields /\ actor[a].nextRun = actor[a].timer
    BY DEF IInv, Types, SchedulersOK
<1>4. Scheduled(actor[a], d)
  <2>1. Scheduled(actor[a], StartScheduler(actor[a]))
      BY <1>3, StartScheduled
  <2>2. Scheduled(actor[a], StopScheduler(actor[a]))
      BY <1>3, StopScheduled
  <2>3. \A enabled \in BOOLEAN :
            Scheduled(actor[a], UpdateSchedulerConfig(actor[a], enabled))
      BY <1>3, PatchScheduled
  <2> QED BY <1>1, <2>1, <2>2, <2>3
<1>5. SameRunning
    BY <1>2 DEF SameRunning, Running
<1>6. SchedulersOK' /\ actor' \in [Actors -> ActorFields]
    BY <1>1, <1>4, <1>5, OneActor DEF IInv, Scheduled
<1>7. \A b \in Actors \ {a} : actor'[b] = actor[b]
    BY <1>1 DEF IInv, Types
<1>8. UnregisteredHasNoTimer'
    BY <1>2, <1>7, StartedKept DEF IInv
<1>9. TasksOK'
  <2>1. rows' = rows
      BY <1>2 DEF storeVars
  <2> QED BY <1>2, <2>1, StillGrows, TasksKept DEF IInv
<1> QED BY <1>2, <1>6, <1>8, <1>9, RowsStill DEF IInv, Types

LEMMA RegistryStep ==
    ASSUME IInv, task' = task, UNCHANGED <<storeVars, idOf, mode>>,
           SchedulersOK' /\ UnregisteredHasNoTimer',
           actor' \in [Actors -> ActorFields],
           registered' \in [Ids -> Actors \cup {NoActor}]
    PROVE  IInv'
<1>1. TasksOK'
  <2>1. rows' = rows
      BY DEF storeVars
  <2> QED BY <2>1, StillGrows, TasksKept DEF IInv
<1>2. task' \in [Actors -> [Tasks -> TaskState]]
    BY DEF IInv, Types
<1> QED BY <1>1, <1>2, RowsStill

LEMMA NextIInv ==
    ASSUME IInv, [Next]_vars
    PROVE  IInv'
<1>1. ASSUME NEW t \in Transactions, Lease(t) \/ CallEnds(t) \/ Elapse(t) PROVE IInv'
    BY <1>1, RowStep
<1>2. ASSUME NEW a \in Actors, BuildActorSync(a) PROVE IInv'
  <2>1. task' = task /\ UNCHANGED <<storeVars, idOf, mode>>
      BY <1>2 DEF BuildActorSync
  <2> QED BY <1>2, <2>1, BuildKept, RegistryStep DEF IInv
<1>3. ASSUME NEW a \in Actors, Initialize(a) PROVE IInv'
    BY <1>3, InitializeStep
<1>4. ASSUME NEW a \in Actors, Tick(a) PROVE IInv'
    BY <1>4, TickStep
<1>5. ASSUME NEW a \in Actors, Configure(a) PROVE IInv'
    BY <1>5, ConfigureStep
<1>6. ASSUME NEW a \in Actors, Close(a) PROVE IInv'
  <2>1. CloseActor(a) /\ task' = task /\ UNCHANGED <<storeVars, idOf, mode>>
      BY <1>6 DEF Close
  <2> QED BY <2>1, CloseKept, RegistryStep DEF IInv
<1>7. ASSUME NEW a \in Actors, NEW k \in Tasks, TriggerSweepNow(a, k) PROVE IInv'
    BY <1>7, TriggerStep
<1>8. ASSUME NEW a \in Actors, NEW k \in Tasks, TaskStep(a, k) PROVE IInv'
    BY <1>8, QueryStep, QueryFailsStep, HandleItemStep, FinishSweepStep,
       StoreOpenedStep DEF TaskStep
<1>9. ASSUME Shutdown PROVE IInv'
  <2>1. /\ task' = task /\ actor' = actor /\ registered' = registered /\ loose' = loose
        /\ UNCHANGED <<storeVars, idOf, mode>>
      BY <1>9 DEF Shutdown
  <2>2. SchedulersOK' /\ UnregisteredHasNoTimer'
      BY <2>1, ActorsStill DEF IInv
  <2> QED BY <2>1, <2>2, RegistryStep DEF IInv, Types
<1>10. ASSUME ShutdownClose PROVE IInv'
  <2>1. PICK a : a = Head(closing)
      OBVIOUS
  <2>2. CloseActor(a) /\ task' = task /\ UNCHANGED <<storeVars, idOf, mode>>
      BY <1>10, <2>1 DEF ShutdownClose
  <2> QED BY <2>2, CloseKept, RegistryStep DEF IInv
<1>11. ASSUME ShutdownClear PROVE IInv'
  <2>1. /\ task' = task /\ actor' = actor /\ UNCHANGED <<storeVars, idOf, mode>>
      BY <1>11 DEF ShutdownClear
  <2>2. SchedulersOK'
      BY <2>1 DEF IInv, SchedulersOK, ExclusiveOK, Running
  <2> QED BY <1>11, <2>1, <2>2, ClearKept, RegistryStep DEF IInv, Types
<1>12. ASSUME UNCHANGED vars PROVE IInv'
  <2>1. /\ task' = task /\ actor' = actor /\ registered' = registered /\ loose' = loose
        /\ UNCHANGED <<storeVars, idOf, mode>>
      BY <1>12 DEF vars, storeVars
  <2>2. SchedulersOK' /\ UnregisteredHasNoTimer'
      BY <2>1, ActorsStill DEF IInv
  <2> QED BY <2>1, <2>2, RegistryStep DEF IInv, Types
<1> QED BY <1>1, <1>2, <1>3, <1>4, <1>5, <1>6, <1>7, <1>8, <1>9, <1>10, <1>11,
           <1>12 DEF Next

\* The registry's actors, their sweeps and the rows: Init establishes IInv
\* and every step keeps it.
THEOREM SchedulerInductive == Spec => []IInv
<1>1. Init => IInv
    BY InitIInv
<1>2. IInv /\ [Next]_vars => IInv'
    BY NextIInv
<1> QED BY <1>1, <1>2, PTL DEF Spec

\* A row has exactly one place in the order by updated_at, only work in
\* flight goes stale, and executeRecoverySweep holds at most a batch.
THEOREM SchedulerTypeCorrect == Spec => []TypeOK
<1>1. IInv => TypeOK
  <2> SUFFICES ASSUME IInv PROVE TypeOK
      OBVIOUS
  <2>1. \A t \in Transactions : rows[t].version \in Nat
      BY DEF IInv, Types, StoredRow
  <2>2. Len(age) = Cardinality(Range(age))
      BY AgeCount DEF IInv, RowsOK
  <2> QED BY <2>1, <2>2 DEF TypeOK, IInv, Types, RowsOK, RowOK, TasksOK, TaskOK
<1> QED BY <1>1, SchedulerInductive, PTL

\* getSchedulerStatus: nextRunAt is set exactly while the interval timer is,
\* after every order of startScheduler, stopScheduler, updateSchedulerConfig,
\* close and sweeps that end late.
THEOREM StatusHonest == Spec => []NextRunIffTimer
<1>1. IInv => NextRunIffTimer
    BY DEF IInv, SchedulersOK, NextRunIffTimer
<1> QED BY <1>1, SchedulerInductive, PTL

\* The scheduler's sweeps of an actor do not overlap, and sweepInProgress is
\* set exactly during one, however many callbacks could be under way.
THEOREM SweepsExclusive == Spec => []TimerSweepsExclusive
<1>1. IInv => TimerSweepsExclusive
  <2> SUFFICES ASSUME IInv, NEW a \in Actors
               PROVE  /\ Cardinality(Running(a)) <= 1
                      /\ actor[a].sweeping <=> Running(a) # {}
      BY DEF TimerSweepsExclusive, Running
  <2>1. ExclusiveOK(a)
      BY DEF IInv, SchedulersOK
  <2>2. Cardinality(Running(a)) <= 1
    <3>1. CASE Running(a) = {}
        BY <3>1, FS_EmptySet
    <3>2. CASE Running(a) # {}
      <4>1. PICK k : Running(a) = {k}
          BY <2>1, <3>2 DEF ExclusiveOK
      <4>2. Cardinality({k}) = 1
          BY FS_Singleton
      <4> QED BY <4>1, <4>2
    <3> QED BY <3>1, <3>2
  <2> QED BY <2>1, <2>2 DEF ExclusiveOK
<1> QED BY <1>1, SchedulerInductive, PTL

\* executeRecoverySweep: MARK_FAIL and COMPENSATE report a transaction at most
\* once for each time it was put in flight, for any number of actors, sweeps
\* and calls that end meanwhile.
THEOREM RecoveredOnce == Spec => []RecoveryCountedOnce
<1>1. IInv => RecoveryCountedOnce
    BY DEF IInv, CountsOK, CountOK, Counted, RecoveryCountedOnce
<1> QED BY <1>1, SchedulerInductive, PTL

\* close and shutdown: an actor outside the registry runs no timer, except
\* where the registry lost it or its scheduler was started afterwards.
THEOREM TimersAccounted == Spec => []UnregisteredHasNoTimer
<1>1. IInv => UnregisteredHasNoTimer
    BY DEF IInv
<1> QED BY <1>1, SchedulerInductive, PTL
=============================================================================
