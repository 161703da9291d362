------------------------ MODULE ConfigurationProofs -------------------------
(***************************************************************************)
(* Proofs about StatechartRun: in a machine that is Scoped the state value *)
(* is always the words of a configuration of the tree.  Taking a           *)
(* transition replaces what lies below the lowest common ancestor and      *)
(* leaves the other regions alone (After), whatever the depth of the tree  *)
(* and the number of regions, and its effects, replayed on the states that *)
(* were active, lead to those that are active afterwards.                  *)
(***************************************************************************)
EXTENDS StatechartProofs

\* The children that must be active with container p; the root is <<>>.
Regions(m, p) ==
    IF p = <<>> /\ m.implicitError THEN Children(m, p) \ {ErrorPath} ELSE Children(m, p)

\* The children of an active container: all of a parallel one, one otherwise.
ChildrenOK(m, C, p) ==
    /\ IsParallel(m, p) => Children(m, p) \cap C = Regions(m, p)
    /\ ~IsParallel(m, p) /\ ~IsLeaf(m, p) => \E r : Children(m, p) \cap C = {r}

\* C is a configuration.
IsConfig(m, C) ==
    /\ C \subseteq DOMAIN m.nodes
    /\ \A p \in C : \A k \in 1..Len(p) : Take(p, k) \in C
    /\ \A p \in C \cup {<<>>} : ChildrenOK(m, C, p)

LEMMA RootFacts ==
  ASSUME NEW m, IsMachine(m)
  PROVE  /\ <<>> \notin DOMAIN m.nodes /\ NodeType(m, <<>>) = None /\ ~IsLeaf(m, <<>>)
         /\ IsParallel(m, <<>>) <=> m.type = "parallel"
         /\ <<>> \in Path /\ Len(<<>>) = 0
<1>1. <<>> \notin DOMAIN m.nodes
  BY DEF IsMachine, IsTree
<1>2. NodeType(m, <<>>) = None
  BY <1>1 DEF NodeType
<1>3. ~IsLeaf(m, <<>>)
  BY <1>2 DEF IsLeaf, None
<1>4. IsParallel(m, <<>>) <=> m.type = "parallel"
  BY DEF IsParallel
<1>5. <<>> \in Path /\ Len(<<>>) = 0
  BY DEF Path
<1>6. QED
  BY <1>1, <1>2, <1>3, <1>4, <1>5

\* The children of a state below the root are all its regions.
LEMMA StateRegions ==
  ASSUME NEW m, NEW p, p # <<>>
  PROVE  Regions(m, p) = Children(m, p)
BY DEF Regions

LEMMA ConfigStates ==
  ASSUME NEW m, IsMachine(m), NEW C, IsConfig(m, C), NEW p \in C
  PROVE  /\ p \in DOMAIN m.nodes /\ p \in Path /\ p # <<>> /\ Len(p) \in Nat \ {0}
         /\ \A k \in 1..Len(p) : Take(p, k) \in C
         /\ \A k \in 0..Len(p) : Take(p, k) \in C \cup {<<>>}
<1>1. p \in DOMAIN m.nodes /\ \A k \in 1..Len(p) : Take(p, k) \in C
  BY DEF IsConfig
<1>2. p \in Path /\ p # <<>> /\ Len(p) \in Nat \ {0}
  BY <1>1, NodePath
<1>3. Take(p, 0) = <<>>
  BY <1>2, TakeNone
<1>4. QED
  BY <1>1, <1>2, <1>3

-----------------------------------------------------------------------------
(* Leaves and their words. *)

\* A leaf contributes itself, or itself and its last key once more.
LEMMA WordShape ==
  ASSUME NEW m, NEW p \in Path, p # <<>>
  PROVE  /\ Word(m, p) \in Path
         /\ IsParallel(m, Front(p)) => Len(Word(m, p)) = Len(p) + 1
         /\ ~IsParallel(m, Front(p)) => Word(m, p) = p
         /\ \A i \in 1..Len(p) : Word(m, p)[i] = p[i]
         /\ Take(Word(m, p), Len(p)) = p
         /\ Len(Word(m, p)) \in {Len(p), Len(p) + 1}
<1> DEFINE w == p \o <<Last(p)>>
<1>1. Len(p) \in Nat \ {0}
  BY FrontIsTake
<1>2. /\ w \in Path /\ Len(w) = Len(p) + 1
      /\ \A i \in 1..Len(p) : w[i] = p[i]
  BY <1>1 DEF Path, Last
<1>3. Take(w, Len(p)) = p
  <2> HIDE DEF w
  <2>1. Len(p) \in 0..Len(w)
    BY <1>1, <1>2
  <2>2. /\ Take(w, Len(p)) \in Path /\ Len(Take(w, Len(p))) = Len(p)
        /\ \A i \in 1..Len(p) : Take(w, Len(p))[i] = w[i]
    BY <1>2, <2>1, TakeFacts
  <2>3. QED
    BY <1>2, <2>2, PathEqual
<1> HIDE DEF w
<1>4. Take(p, Len(p)) = p
  BY TakeAll
<1>5. Word(m, p) = IF IsParallel(m, Front(p)) THEN w ELSE p
  BY DEF Word, w
<1>6. QED
  BY <1>1, <1>2, <1>3, <1>4, <1>5

\* A proper prefix of a state is no leaf.
LEMMA AboveIsNoLeaf ==
  ASSUME NEW m, IsMachine(m), Accepted(m), NEW p \in DOMAIN m.nodes,
         NEW k \in 1..(Len(p) - 1)
  PROVE  /\ ~IsLeaf(m, Take(p, k)) /\ Take(p, k) \in DOMAIN m.nodes
         /\ Take(p, k + 1) \in Children(m, Take(p, k))
<1>1. p \in Path /\ Len(p) \in Nat
  BY NodePath
<1>2. k \in 1..Len(p) /\ k + 1 \in 1..Len(p) /\ k \in 0..(Len(p) - 1)
  BY <1>1
<1>3. Take(p, k) \in DOMAIN m.nodes /\ Take(p, k + 1) \in DOMAIN m.nodes
  BY <1>2, PrefixesAreNodes
<1>4. Take(p, k + 1) \in Children(m, Take(p, k))
  BY <1>1, <1>2, <1>3, NextKeyIsChild
<1>5. QED
  BY <1>3, <1>4, AcceptedNode

\* The scan of a leaf's word stops at the leaf.
LEMMA LeafOfWord ==
  ASSUME NEW m, IsMachine(m), Accepted(m), Scoped(m), NEW p \in DOMAIN m.nodes,
         IsLeaf(m, p), Len(p) = 1 => ~IsParallel(m, <<>>)
  PROVE  LeafOf(m, Word(m, p)) = p
<1> DEFINE w == Word(m, p)
           n == Len(p)
<1>1. p \in Path /\ p # <<>> /\ n \in Nat \ {0}
  BY NodePath
<1>2. /\ w \in Path /\ Len(w) \in {n, n + 1} /\ Take(w, n) = p
      /\ IsParallel(m, Front(p)) <=> Len(w) = n + 1
      /\ Len(w) = n => w = p
  BY <1>1, WordShape
<1>3. PICK f : IsLeafScan(f, m, w) /\ LeafOf(m, w) = f[1]
  BY <1>1, <1>2, LeafScan
<1>4. \A k \in 1..(n - 1) : /\ Take(w, k) = Take(p, k) /\ Take(w, k + 1) = Take(p, k + 1)
                            /\ ~IsLeaf(m, Take(p, k))
  <2>1. \A k \in 0..n : Take(Take(w, n), k) = Take(w, k)
    BY <1>1, <1>2, TakeTake
  <2>2. \A k \in 1..(n - 1) : ~IsLeaf(m, Take(p, k))
    BY AboveIsNoLeaf
  <2>3. QED
    BY <1>1, <1>2, <2>1, <2>2
<1> DEFINE Skips(k) == NodeType(m, Take(w, k)) = "parallel" /\ Len(w) > k + 1
<1>5. \A k \in 1..(Len(w) + 1) :
          f[k] = IF k >= Len(w) THEN w
                 ELSE IF Skips(k)
                      THEN IF IsLeaf(m, Take(w, k + 1)) THEN Take(w, k + 1)
                           ELSE f[k + 2]
                      ELSE f[k + 1]
  BY <1>3 DEF IsLeafScan
<1>6. \A k : Skips(k) => Len(w) > k + 1
  OBVIOUS
<1>7. CASE Len(w) = n
  <2>1. w = p
    BY <1>2, <1>7
  <2> DEFINE Fine(j) == j <= n => \A k \in ((n + 1) - j)..(n + 1) : f[k] = p
             T == {j \in Nat : Fine(j)}
  <2>2. \A k \in 1..(n - 1) : Skips(k) => ~IsLeaf(m, Take(w, k + 1))
    <3>1. \A k \in 1..(n - 1) : Skips(k) => k + 1 \in 1..(n - 1)
      BY <1>1, <1>6, <1>7
    <3>2. QED
      BY <1>4, <3>1
  <2> HIDE DEF Skips
  <2>3. Fine(0)
    <3>1. n + 1 \in 1..(Len(w) + 1) /\ n + 1 >= Len(w)
      BY <1>1, <1>7
    <3>2. f[n + 1] = p
      BY <1>5, <2>1, <3>1
    <3>3. \A k \in ((n + 1) - 0)..(n + 1) : k = n + 1
      BY <1>1
    <3>4. QED
      BY <3>2, <3>3
  <2>4. ASSUME NEW j \in Nat, Fine(j) PROVE Fine(j + 1)
    <3> SUFFICES ASSUME j + 1 <= n, NEW k \in ((n + 1) - (j + 1))..(n + 1) PROVE f[k] = p
      OBVIOUS
    <3>1. \A i \in ((n + 1) - j)..(n + 1) : f[i] = p
      BY <1>1, <2>4
    <3>2. CASE k \in ((n + 1) - j)..(n + 1)
      BY <3>1, <3>2
    <3>3. CASE k >= n
      BY <1>1, <1>5, <1>7, <2>1, <3>3
    <3>4. CASE k < n /\ k = n - j
      <4>1. k \in 1..(n - 1) /\ k \in 1..(Len(w) + 1) /\ ~(k >= Len(w))
            /\ k + 1 \in ((n + 1) - j)..(n + 1)
        BY <1>1, <1>7, <3>4
      <4>2. Skips(k) => k + 2 \in ((n + 1) - j)..(n + 1)
        BY <1>1, <1>6, <1>7, <3>4
      <4>3. f[k + 1] = p /\ (Skips(k) => f[k + 2] = p)
        BY <3>1, <4>1, <4>2
      <4>4. f[k] = IF Skips(k)
                   THEN IF IsLeaf(m, Take(w, k + 1)) THEN Take(w, k + 1) ELSE f[k + 2]
                   ELSE f[k + 1]
        BY <1>5, <4>1
      <4>5. QED
        BY <2>2, <4>1, <4>3, <4>4
    <3>5. QED
      BY <1>1, <3>2, <3>3, <3>4
  <2>5. \A j \in Nat : Fine(j)
    <3> HIDE DEF Fine
    <3>1. 0 \in T /\ \A j \in Nat : j \in T => j + 1 \in T
      BY <2>3, <2>4
    <3> HIDE DEF T
    <3>2. \A j \in Nat : j \in T
      BY <3>1, Induction
    <3>3. QED
      BY <3>2 DEF T
  <2>6. 1 \in ((n + 1) - n)..(n + 1)
    BY <1>1
  <2>7. QED
    BY <1>1, <1>3, <2>5, <2>6
<1>8. CASE Len(w) = n + 1
  <2>1. Front(p) = Take(p, n - 1) /\ IsParallel(m, Front(p))
    BY <1>1, <1>2, <1>8, FrontIsTake
  <2>2. n # 1
    <3>1. n = 1 => Take(p, n - 1) = <<>>
      BY <1>1, TakeNone
    <3>2. QED
      BY <2>1, <3>1
  <2>3. n - 1 \in 1..(n - 1) /\ n - 1 \in 1..Len(p)
    BY <1>1, <2>2
  <2>4. NodeType(m, Take(p, n - 1)) = "parallel"
    <3>1. Take(p, n - 1) \in DOMAIN m.nodes
      BY <2>3, PrefixesAreNodes
    <3>2. QED
      BY <2>1, <3>1, AcceptedNode
  <2>5. Len(w) > (n - 1) + 1 /\ Take(w, n - 1) = Take(p, n - 1)
    BY <1>1, <1>4, <1>8, <2>3
  <2>6. Skips(n - 1)
    BY <2>4, <2>5
  <2>7. f[n - 1] = p
    <3>1. n - 1 \in 1..(Len(w) + 1) /\ ~(n - 1 >= Len(w)) /\ (n - 1) + 1 = n
      BY <1>1, <1>8, <2>3
    <3>2. IsLeaf(m, Take(w, n))
      BY <1>2
    <3> HIDE DEF Skips
    <3>3. QED
      BY <1>2, <1>5, <2>6, <3>1, <3>2
  <2>8. n - 2 \in 1..(n - 1) => ~Skips(n - 2)
    <3> SUFFICES ASSUME n - 2 \in 1..(n - 1) PROVE NodeType(m, Take(p, n - 2)) # "parallel"
      BY <1>4
    <3>1. Front(Front(p)) = Take(p, n - 2)
      <4>1. n - 1 \in 0..Len(p) /\ n - 2 \in 0..(n - 1)
        BY <1>1, <2>3
      <4>2. Take(p, n - 1) \in Path /\ Len(Take(p, n - 1)) = n - 1
        BY <1>1, <4>1, TakeFacts
      <4>3. Take(p, n - 1) # <<>>
        BY <4>2, <2>3, PathIsNat
      <4>4. Front(Take(p, n - 1)) = Take(Take(p, n - 1), (n - 1) - 1)
        BY <4>2, <4>3, FrontIsTake
      <4>5. Take(Take(p, n - 1), n - 2) = Take(p, n - 2) /\ (n - 1) - 1 = n - 2
        BY <1>1, <4>1, TakeTake
      <4>6. QED
        BY <2>1, <4>4, <4>5
    <3>2. QED
      BY <2>1, <2>4, <3>1 DEF Scoped
  <2> DEFINE Fine(j) == \A k \in 1..(n - 1) : k >= (n - 1) - j => f[k] = p
             T == {j \in Nat : Fine(j)}
  <2>9. \A k \in 1..(n - 2) : ~IsLeaf(m, Take(w, k + 1))
    <3>1. \A k \in 1..(n - 2) : k \in 1..(n - 1) /\ k + 1 \in 1..(n - 1)
      BY <1>1
    <3>2. QED
      BY <1>4, <3>1
  <2> HIDE DEF Skips
  <2>10. Fine(0)
    BY <1>1, <2>7
  <2>11. ASSUME NEW j \in Nat, Fine(j) PROVE Fine(j + 1)
    <3> SUFFICES ASSUME NEW k \in 1..(n - 1), k >= (n - 1) - (j + 1) PROVE f[k] = p
      OBVIOUS
    <3>1. \A i \in 1..(n - 1) : i >= (n - 1) - j => f[i] = p
      BY <2>11
    <3>2. CASE k >= (n - 1) - j
      BY <3>1, <3>2
    <3>3. CASE k = n - 1
      BY <2>7, <3>3
    <3>4. CASE k < n - 1 /\ ~(k >= (n - 1) - j)
      <4>1. k \in 1..(n - 2) /\ k \in 1..(Len(w) + 1) /\ ~(k >= Len(w))
            /\ k + 1 \in 1..(n - 1) /\ k + 1 >= (n - 1) - j
        BY <1>1, <1>8, <3>4
      <4>2. Skips(k) => k + 2 \in 1..(n - 1) /\ k + 2 >= (n - 1) - j
        BY <1>1, <2>8, <3>4
      <4>3. f[k + 1] = p /\ (Skips(k) => f[k + 2] = p)
        BY <3>1, <4>1, <4>2
      <4>4. f[k] = IF Skips(k)
                   THEN IF IsLeaf(m, Take(w, k + 1)) THEN Take(w, k + 1) ELSE f[k + 2]
                   ELSE f[k + 1]
        BY <1>5, <4>1
      <4>5. QED
        BY <2>9, <4>1, <4>3, <4>4
    <3>5. QED
      BY <1>1, <3>2, <3>3, <3>4
  <2>12. \A j \in Nat : Fine(j)
    <3> HIDE DEF Fine
    <3>1. 0 \in T /\ \A j \in Nat : j \in T => j + 1 \in T
      BY <2>10, <2>11
    <3> HIDE DEF T
    <3>2. \A j \in Nat : j \in T
      BY <3>1, Induction
    <3>3. QED
      BY <3>2 DEF T
  <2>13. 1 \in 1..(n - 1) /\ 1 >= (n - 1) - n
    BY <1>1, <2>3
  <2>14. QED
    BY <1>1, <1>3, <2>12, <2>13
<1>9. QED
  BY <1>2, <1>7, <1>8

-----------------------------------------------------------------------------
(* A configuration and its words determine each other. *)

\* In a parallel machine no leaf of a configuration is a region.
LEMMA RegionsAreNoLeaves ==
  ASSUME NEW m, IsMachine(m), Scoped(m), NEW C, IsConfig(m, C), NEW p \in C,
         IsLeaf(m, p), Len(p) = 1
  PROVE  ~IsParallel(m, <<>>)
<1> SUFFICES ASSUME IsParallel(m, <<>>) PROVE FALSE
  OBVIOUS
<1>1. p \in DOMAIN m.nodes /\ p \in Path
  BY ConfigStates
<1>2. p \in Children(m, <<>>)
  <2>1. Take(p, 0) = <<>> /\ Take(p, 1) = p
    BY <1>1, TakeNone, TakeAll
  <2>2. 0 \in 0..(Len(p) - 1) /\ 0 + 1 = 1
    OBVIOUS
  <2>3. Take(p, 0 + 1) \in Children(m, Take(p, 0))
    BY <1>1, <2>1, <2>2, NextKeyIsChild
  <2>4. QED
    BY <2>1, <2>2, <2>3
<1>3. Children(m, <<>>) \cap C = Regions(m, <<>>)
  BY DEF IsConfig, ChildrenOK
<1>4. p = ErrorPath /\ m.implicitError
  BY <1>2, RootFacts DEF Scoped
<1>5. QED
  BY <1>2, <1>3, <1>4 DEF Regions

\* Below every state of a configuration one of its leaves is active.
LEMMA LeafBelow ==
  ASSUME NEW m, IsMachine(m), Accepted(m), NEW C, IsConfig(m, C), NEW p \in C
  PROVE  \E l \in C : IsLeaf(m, l) /\ IsPrefix(p, l)
<1> DEFINE S == {q \in C : IsPrefix(p, q)}
<1>1. p \in DOMAIN m.nodes /\ p \in Path /\ p # <<>>
  BY ConfigStates
<1>2. S \in SUBSET DOMAIN m.nodes /\ p \in S
  <2>1. IsPrefix(p, p)
    BY <1>1, PrefixIsTake, TakeAll
  <2>2. QED
    BY <2>1 DEF IsConfig
<1>3. PICK l \in S : \A q \in S : Len(q) <= Len(l)
  BY <1>2, DeepestState
<1>4. l \in C /\ l \in DOMAIN m.nodes /\ l \in Path /\ l # <<>> /\ Len(l) \in Nat
  BY <1>3, ConfigStates
<1>5. SUFFICES ASSUME ~IsLeaf(m, l) PROVE FALSE
  BY <1>3, <1>4
<1>6. Children(m, l) \cap C # {}
  <2>1. ChildrenOK(m, C, l)
    BY <1>4 DEF IsConfig
  <2>2. CASE IsParallel(m, l)
    <3>1. Children(m, l) # {}
      BY <1>4, <2>2, AcceptedNode
    <3>2. QED
      BY <1>4, <2>1, <2>2, <3>1, StateRegions DEF ChildrenOK
  <2>3. CASE ~IsParallel(m, l)
    BY <1>5, <2>1, <2>3 DEF ChildrenOK
  <2>4. QED
    BY <2>2, <2>3
<1>7. PICK c \in Children(m, l) \cap C : TRUE
  BY <1>6
<1>8. c \in Path /\ Len(c) = Len(l) + 1 /\ Take(c, Len(l)) = l
  BY <1>4, <1>7, ChildFacts
<1>9. IsPrefix(p, c)
  <2>1. Len(p) <= Len(l) /\ p = Take(l, Len(p)) /\ Len(p) \in Nat
    BY <1>1, <1>3, <1>4, PrefixIsTake, PathIsNat
  <2>2. Len(l) \in 0..Len(c) /\ Len(p) \in 0..Len(l)
    BY <1>4, <1>8, <2>1
  <2>3. Take(l, Len(p)) = Take(c, Len(p))
    BY <1>8, <2>2, TakeTake
  <2>4. QED
    BY <1>1, <1>4, <1>8, <2>1, <2>3, PrefixIsTake
<1>10. QED
  BY <1>3, <1>4, <1>7, <1>8, <1>9

LEMMA LeavesOfConfig ==
  ASSUME NEW m, IsMachine(m), Accepted(m), Scoped(m), NEW C, IsConfig(m, C)
  PROVE  GetActiveLeafPaths(m, Words(m, C)) = {p \in C : IsLeaf(m, p)}
<1> DEFINE leaves == {p \in C : IsLeaf(m, p)}
<1>1. \A p \in leaves : LeafOf(m, Word(m, p)) = p
  <2> SUFFICES ASSUME NEW p \in leaves PROVE LeafOf(m, Word(m, p)) = p
    OBVIOUS
  <2>1. p \in DOMAIN m.nodes
    BY ConfigStates
  <2>2. Len(p) = 1 => ~IsParallel(m, <<>>)
    BY RegionsAreNoLeaves
  <2>3. QED
    BY <2>1, <2>2, LeafOfWord
<1>2. Words(m, C) = {Word(m, p) : p \in leaves}
  BY DEF Words
<1>3. GetActiveLeafPaths(m, Words(m, C)) = {LeafOf(m, Word(m, p)) : p \in leaves}
  <2> HIDE DEF leaves
  <2>1. QED
    BY <1>2 DEF GetActiveLeafPaths
<1>4. QED
  BY <1>1, <1>3

LEMMA ActiveOfConfig ==
  ASSUME NEW m, IsMachine(m), Accepted(m), Scoped(m), NEW C, IsConfig(m, C)
  PROVE  ActiveStates(m, Words(m, C)) = C
<1>1. ActiveStates(m, Words(m, C)) =
          {p \in DOMAIN m.nodes : \E l \in C : IsLeaf(m, l) /\ IsPrefix(p, l)}
  <2>1. GetActiveLeafPaths(m, Words(m, C)) = {p \in C : IsLeaf(m, p)}
    BY LeavesOfConfig
  <2>2. QED
    BY <2>1 DEF ActiveStates
<1>2. ASSUME NEW p \in DOMAIN m.nodes, NEW l \in C, IsPrefix(p, l) PROVE p \in C
  <2>1. p \in Path /\ Len(p) \in Nat \ {0}
    BY NodePath
  <2>2. l \in Path /\ \A k \in 1..Len(l) : Take(l, k) \in C
    BY ConfigStates
  <2>3. Len(p) <= Len(l) /\ p = Take(l, Len(p)) /\ Len(l) \in Nat
    BY <1>2, <2>1, <2>2, PrefixIsTake, PathIsNat
  <2>4. Len(p) \in 1..Len(l)
    BY <2>1, <2>3
  <2>5. QED
    BY <2>2, <2>3, <2>4
<1>3. \A p \in C : p \in DOMAIN m.nodes /\ \E l \in C : IsLeaf(m, l) /\ IsPrefix(p, l)
  BY LeafBelow DEF IsConfig
<1>4. QED
  BY <1>1, <1>2, <1>3

\* What StatechartRun calls a configuration.
LEMMA ConfigIsConfiguration ==
  ASSUME NEW m, IsMachine(m), Accepted(m), Scoped(m), NEW C, IsConfig(m, C)
  PROVE  IsConfiguration(m, Words(m, C))
<1> DEFINE v == Words(m, C)
<1>1. ActiveStates(m, v) = C /\ GetActiveLeafPaths(m, v) = {p \in C : IsLeaf(m, p)}
  BY ActiveOfConfig, LeavesOfConfig
<1> HIDE DEF v
<1>2. \A p \in C \cup {<<>>} : ChildrenOK(m, C, p)
  BY DEF IsConfig
<1>3. \A S : (\E r : S = {r}) => Cardinality(S) = 1
  BY FS_Singleton
<1>4. IF m.type = "parallel"
      THEN Children(m, <<>>) \cap C
               = Children(m, <<>>) \ (IF m.implicitError THEN {ErrorPath} ELSE {})
      ELSE Cardinality(Children(m, <<>>) \cap C) = 1
  <2>1. ChildrenOK(m, C, <<>>)
    BY <1>2
  <2>2. CASE m.type = "parallel"
    BY <2>1, <2>2, RootFacts DEF ChildrenOK, Regions
  <2>3. CASE m.type # "parallel"
    BY <1>3, <2>1, <2>3, RootFacts DEF ChildrenOK
  <2>4. QED
    BY <2>2, <2>3
<1>5. ASSUME NEW p \in C
      PROVE  /\ NodeType(m, p) = "compound" => Cardinality(Children(m, p) \cap C) = 1
             /\ NodeType(m, p) = "parallel" => Children(m, p) \cap C = Children(m, p)
  <2>1. ChildrenOK(m, C, p) /\ p \in DOMAIN m.nodes /\ p # <<>>
    BY <1>2, ConfigStates
  <2>2. /\ IsParallel(m, p) <=> NodeType(m, p) = "parallel"
        /\ IsLeaf(m, p) <=> NodeType(m, p) \in {"atomic", "final"}
    BY <2>1, AcceptedNode DEF IsLeaf
  <2>3. NodeType(m, p) = "compound" => Cardinality(Children(m, p) \cap C) = 1
    BY <1>3, <2>1, <2>2 DEF ChildrenOK
  <2>4. NodeType(m, p) = "parallel" => Children(m, p) \cap C = Children(m, p)
    BY <2>1, <2>2, StateRegions DEF ChildrenOK
  <2>5. QED
    BY <2>3, <2>4
<1>6. IsConfiguration(m, v)
  BY <1>1, <1>4, <1>5 DEF IsConfiguration
<1>7. QED
  BY <1>6 DEF v

\* The search for an event looks at exactly the active states.
LEMMA SearchedOfConfig ==
  ASSUME NEW m, IsMachine(m), Accepted(m), Scoped(m), NEW C, IsConfig(m, C)
  PROVE  Searched(m, Words(m, C)) = C
<1> DEFINE v == Words(m, C)
<1>1. \A w \in v : \E l \in C : IsLeaf(m, l) /\ w = Word(m, l)
  BY DEF Words
<1>2. \A l \in C : IsLeaf(m, l) => Word(m, l) \in v
  BY DEF Words
<1> HIDE DEF v
<1>3. ASSUME NEW l \in C
      PROVE  /\ l \in DOMAIN m.nodes /\ l \in Path /\ l # <<>> /\ Len(l) \in Nat \ {0}
             /\ Word(m, l) \in Path /\ Len(Word(m, l)) \in {Len(l), Len(l) + 1}
             /\ Take(Word(m, l), Len(l)) = l
             /\ \A i \in 1..Len(l) : Word(m, l)[i] = l[i]
             /\ \A k \in 1..Len(l) : Take(l, k) \in C
  <2>1. l \in DOMAIN m.nodes /\ l \in Path /\ l # <<>> /\ Len(l) \in Nat \ {0}
        /\ \A k \in 1..Len(l) : Take(l, k) \in C
    BY ConfigStates
  <2>2. QED
    BY <2>1, WordShape
<1>4. ASSUME NEW p \in Searched(m, v) PROVE p \in C
  <2>1. /\ p \in DOMAIN m.nodes
        /\ \E w \in v : w[1] = p[1]
        /\ \A k \in 1..(Len(p) - 1) :
               \/ NodeType(m, Take(p, k)) = "parallel"
               \/ \E w \in v : IsPrefix(Take(p, k + 1), w)
    BY DEF Searched
  <2>2. p \in Path /\ Len(p) \in Nat \ {0}
    BY <2>1, NodePath
  <2> DEFINE In(n) == n + 1 <= Len(p) => Take(p, n + 1) \in C
             T == {n \in Nat : In(n)}
  <2>3. In(0)
    <3>1. PICK w \in v : w[1] = p[1]
      BY <2>1
    <3>2. PICK l \in C : w = Word(m, l)
      BY <1>1
    <3>3. l[1] = p[1] /\ 1 \in 1..Len(l) /\ 1 \in 0..Len(l) /\ 1 \in 0..Len(p)
      BY <1>3, <2>2, <3>1, <3>2
    <3>4. Take(p, 1) = Take(l, 1)
      BY <1>3, <2>2, <3>3, TakeEqual
    <3>5. QED
      BY <1>3, <3>3, <3>4
  <2>4. ASSUME NEW n \in Nat, In(n) PROVE In(n + 1)
    <3> SUFFICES ASSUME (n + 1) + 1 <= Len(p) PROVE Take(p, (n + 1) + 1) \in C
      OBVIOUS
    <3> DEFINE k == n + 1
               q == Take(p, k + 1)
    <3>1. k \in 1..(Len(p) - 1) /\ k + 1 \in 1..Len(p) /\ k + 1 \in 0..Len(p)
          /\ k \in 0..(Len(p) - 1)
      BY <2>2
    <3>2. Take(p, k) \in C
      BY <2>2, <2>4
    <3> HIDE DEF k
    <3>3. q \in DOMAIN m.nodes /\ q \in Children(m, Take(p, k))
      <4>1. q \in DOMAIN m.nodes
        BY <2>1, <3>1, PrefixesAreNodes
      <4>2. QED
        BY <2>2, <3>1, <4>1, NextKeyIsChild
    <3>4. CASE NodeType(m, Take(p, k)) = "parallel"
      <4> DEFINE x == Take(p, k)
      <4>0. x \in C
        BY <3>2 DEF k
      <4> HIDE DEF x
      <4>1. x \in DOMAIN m.nodes /\ x # <<>> /\ ChildrenOK(m, C, x)
        BY <4>0, ConfigStates DEF IsConfig
      <4>2. NodeType(m, x) = "parallel"
        BY <3>4 DEF x
      <4>3. Children(m, x) \cap C = Children(m, x)
        BY <4>1, <4>2, AcceptedNode, StateRegions DEF ChildrenOK
      <4>4. QED
        BY <3>3, <4>3 DEF k, x
    <3>5. CASE \E w \in v : IsPrefix(q, w)
      <4>1. PICK w \in v : IsPrefix(q, w)
        BY <3>5
      <4>2. PICK l \in C : IsLeaf(m, l) /\ w = Word(m, l)
        BY <1>1
      <4>3. q \in Path /\ Len(q) = k + 1
        BY <2>2, <3>1, TakeFacts
      <4>4. Len(q) <= Len(w) /\ q = Take(w, Len(q))
        BY <1>3, <4>1, <4>2, <4>3, PrefixIsTake
      <4>5. CASE k + 1 <= Len(l)
        <5>1. k + 1 \in 1..Len(l) /\ k + 1 \in 0..Len(l) /\ Len(l) \in 0..Len(w)
          BY <1>3, <3>1, <4>2, <4>5
        <5>2. Take(w, k + 1) = Take(l, k + 1)
          BY <1>3, <4>2, <5>1, TakeTake
        <5>3. QED
          BY <1>3, <4>3, <4>4, <5>1, <5>2 DEF k
      <4>6. CASE ~(k + 1 <= Len(l))
        <5>1. Len(l) = k /\ k \in 0..(k + 1) /\ k + 1 \in 0..Len(w)
          BY <1>3, <3>1, <4>2, <4>3, <4>4, <4>6
        <5>2. Take(q, k) = Take(w, k)
          BY <1>3, <4>2, <4>3, <4>4, <5>1, TakeTake
        <5>3. Take(q, k) = Take(p, k)
          BY <2>2, <3>1, <5>1, TakeTake
        <5>4. Take(p, k) = l
          BY <1>3, <4>2, <5>1, <5>2, <5>3
        <5>5. Children(m, l) = {}
          BY <1>3, <4>2, AcceptedNode
        <5>6. QED
          BY <3>3, <5>4, <5>5
      <4>7. QED
        BY <4>5, <4>6
    <3>6. QED
      BY <2>1, <3>1, <3>4, <3>5
  <2>5. \A n \in Nat : In(n)
    <3> HIDE DEF In
    <3>1. 0 \in T /\ \A n \in Nat : n \in T => n + 1 \in T
      BY <2>3, <2>4
    <3> HIDE DEF T
    <3>2. \A n \in Nat : n \in T
      BY <3>1, Induction
    <3>3. QED
      BY <3>2 DEF T
  <2>6. QED
    <3>1. Len(p) - 1 \in Nat /\ (Len(p) - 1) + 1 = Len(p)
      BY <2>2
    <3>2. Take(p, Len(p)) \in C
      BY <2>2, <2>5, <3>1
    <3>3. QED
      BY <2>2, <3>2, TakeAll
<1>5. ASSUME NEW p \in C PROVE p \in Searched(m, v)
  <2>1. PICK l \in C : IsLeaf(m, l) /\ IsPrefix(p, l)
    BY LeafBelow
  <2> DEFINE w == Word(m, l)
  <2>2. w \in v /\ w \in Path /\ Take(w, Len(l)) = l /\ Len(l) \in 0..Len(w)
    BY <1>2, <1>3, <2>1
  <2>3. Len(p) \in Nat \ {0} /\ Len(p) <= Len(l) /\ p = Take(l, Len(p)) /\ Len(p) \in 0..Len(l)
    BY <1>3, <2>1, PrefixIsTake
  <2>4. p = Take(w, Len(p)) /\ Len(p) \in 0..Len(w)
    BY <2>2, <2>3, TakeTake
  <2> HIDE DEF w
  <2>5. w[1] = p[1]
    BY <2>2, <2>3, <2>4, TakeFacts
  <2>6. \A k \in 1..(Len(p) - 1) : IsPrefix(Take(p, k + 1), w)
    <3> SUFFICES ASSUME NEW k \in 1..(Len(p) - 1) PROVE IsPrefix(Take(p, k + 1), w)
      OBVIOUS
    <3>1. k + 1 \in 0..Len(p) /\ k + 1 \in 0..Len(w) /\ p \in Path
      BY <1>3, <2>2, <2>3, <2>4
    <3>2. Take(p, k + 1) = Take(w, k + 1)
      BY <2>2, <2>4, <3>1, TakeTake
    <3>3. Take(p, k + 1) \in Path /\ Len(Take(p, k + 1)) = k + 1
      BY <3>1, TakeFacts
    <3>4. QED
      BY <2>2, <3>1, <3>2, <3>3, PrefixIsTake
  <2>7. QED
    BY <1>3, <2>2, <2>5, <2>6 DEF Searched
<1>6. QED
  BY <1>4, <1>5 DEF v

-----------------------------------------------------------------------------
(* Taking a transition. *)

\* One path is a prefix of the other, or they part at some key.
LEMMA FirstDifference ==
  ASSUME NEW p \in Path, NEW t \in Path, ~IsPrefix(p, t), ~IsPrefix(t, p)
  PROVE  \E j \in Nat : /\ j < Len(p) /\ j < Len(t)
                        /\ Take(p, j) = Take(t, j) /\ p[j + 1] # t[j + 1]
<1>1. Len(p) \in Nat /\ Len(t) \in Nat
  BY PathIsNat
<1> DEFINE T == {k \in 0..Len(p) : k <= Len(t) /\ Take(p, k) = Take(t, k)}
<1>2. 0 \in T /\ T \in SUBSET (0..Len(p))
  BY <1>1, TakeNone
<1>3. PICK j \in T : \A k \in T : k <= j
  BY <1>1, <1>2, GreatestElement
<1>4. j \in Nat /\ j <= Len(p) /\ j <= Len(t) /\ Take(p, j) = Take(t, j)
  BY <1>1, <1>3
<1>5. j # Len(p) /\ j # Len(t)
  BY <1>1, <1>4, TakeAll, PrefixIsTake
<1>6. j < Len(p) /\ j < Len(t)
  BY <1>1, <1>4, <1>5
<1>7. p[j + 1] # t[j + 1]
  <2> SUFFICES ASSUME p[j + 1] = t[j + 1] PROVE FALSE
    OBVIOUS
  <2>1. \A i \in 1..j : p[i] = t[i]
    BY <1>4, TakeEqual
  <2>2. \A i \in 1..(j + 1) : p[i] = t[i]
    BY <1>4, <2>1
  <2>3. j + 1 \in Nat /\ j + 1 <= Len(p) /\ j + 1 <= Len(t)
    BY <1>1, <1>4, <1>6
  <2>4. Take(p, j + 1) = Take(t, j + 1)
    BY <2>2, <2>3, TakeEqual
  <2>5. j + 1 \in T
    BY <1>1, <2>3, <2>4
  <2>6. QED
    BY <1>3, <1>4, <2>5
<1>8. QED
  BY <1>4, <1>6, <1>7

LEMMA CommonLenFacts ==
  ASSUME NEW s \in Path, NEW t \in Path, s # <<>>, t # <<>>
  PROVE  LET c == CommonLen(s, t)
         IN  /\ c \in Nat /\ c < Len(s) /\ c < Len(t) /\ Take(s, c) = Take(t, c)
             /\ (c + 1 < Len(s) /\ c + 1 < Len(t)) => s[c + 1] # t[c + 1]
<1>1. Len(s) \in Nat \ {0} /\ Len(t) \in Nat \ {0}
  BY FrontIsTake
<1> DEFINE P(c) == /\ c < Len(s) /\ c < Len(t) /\ Take(s, c) = Take(t, c)
                   /\ (c + 1 < Len(s) /\ c + 1 < Len(t)) => s[c + 1] # t[c + 1]
           T == {k \in 0..Len(t) : k < Len(s) /\ k < Len(t) /\ Take(s, k) = Take(t, k)}
<1>2. 0 \in T /\ T \in SUBSET (0..Len(t))
  BY <1>1, TakeNone
<1>3. PICK j \in T : \A k \in T : k <= j
  BY <1>1, <1>2, GreatestElement
<1>4. j \in 0..Len(t) /\ j \in Nat /\ j < Len(s) /\ j < Len(t) /\ Take(s, j) = Take(t, j)
  BY <1>1, <1>3
<1>5. ASSUME j + 1 < Len(s), j + 1 < Len(t), s[j + 1] = t[j + 1] PROVE FALSE
  <2>1. \A i \in 1..j : s[i] = t[i]
    BY <1>1, <1>4, TakeEqual
  <2>2. \A i \in 1..(j + 1) : s[i] = t[i]
    BY <1>4, <1>5, <2>1
  <2>3. j + 1 \in Nat /\ j + 1 <= Len(s) /\ j + 1 <= Len(t)
    BY <1>1, <1>4
  <2>4. Take(s, j + 1) = Take(t, j + 1)
    BY <2>2, <2>3, TakeEqual
  <2>5. j + 1 \in T
    BY <1>1, <1>5, <2>3, <2>4
  <2>6. QED
    BY <1>3, <1>4, <2>5
<1>6. \E c \in 0..Len(t) : P(c)
  BY <1>4, <1>5
<1>7. CommonLen(s, t) = CHOOSE c \in 0..Len(t) : P(c)
  BY DEF CommonLen
<1>8. CommonLen(s, t) \in 0..Len(t) /\ P(CommonLen(s, t))
  <2> HIDE DEF P
  <2>1. QED
    BY <1>6, <1>7
<1>9. QED
  BY <1>1, <1>8

\* What Scoped says of the edges that do not leave a region.
Aligned(m, s, t) ==
    /\ RegionsOf(m, t) \subseteq RegionsOf(m, s)
    /\ ~(t \in RegionsOf(m, t) /\ IsLeaf(m, t))
    /\ m.type = "parallel" => t[1] = s[1]

\* A transition from an active state in a scoped machine.
Applies(m, C, s, t) ==
    /\ IsMachine(m) /\ Accepted(m) /\ Scoped(m)
    /\ IsConfig(m, C) /\ s \in C
    /\ t \in DOMAIN m.nodes /\ Aligned(m, s, t)

\* The states of C that are left, and what is active afterwards.
Left(m, C, s, t) ==
    LET c == CommonLen(s, t)
    IN  {p \in C : /\ Len(p) > c /\ Take(p, c) = Take(t, c)
                   /\ IsParallel(m, Take(t, c)) => p[c + 1] = t[c + 1]}

PathTo(s, t) == {Take(t, k) : k \in (CommonLen(s, t) + 1)..Len(t)}

After(m, C, s, t) == (C \ Left(m, C, s, t)) \cup PathTo(s, t) \cup EnterSubtree(m, t)

LEMMA AppliesFacts ==
  ASSUME NEW m, NEW C, NEW s, NEW t, Applies(m, C, s, t)
  PROVE  LET c == CommonLen(s, t)
         IN  /\ s \in Path /\ s # <<>> /\ Len(s) \in Nat \ {0} /\ s \in DOMAIN m.nodes
             /\ t \in Path /\ t # <<>> /\ Len(t) \in Nat \ {0}
             /\ c \in Nat /\ c < Len(s) /\ c < Len(t) /\ Take(s, c) = Take(t, c)
             /\ (c + 1 < Len(s) /\ c + 1 < Len(t)) => s[c + 1] # t[c + 1]
             /\ \A k \in 1..c : Take(t, k) = Take(s, k) /\ Take(t, k) \in C
             /\ Take(t, c) \in C \cup {<<>>}
<1> DEFINE c == CommonLen(s, t)
<1>1. s \in Path /\ s # <<>> /\ Len(s) \in Nat \ {0} /\ s \in DOMAIN m.nodes
      /\ \A k \in 1..Len(s) : Take(s, k) \in C
  BY ConfigStates DEF Applies
<1>2. t \in Path /\ t # <<>> /\ Len(t) \in Nat \ {0}
  BY NodePath DEF Applies
<1>3. /\ c \in Nat /\ c < Len(s) /\ c < Len(t) /\ Take(s, c) = Take(t, c)
      /\ (c + 1 < Len(s) /\ c + 1 < Len(t)) => s[c + 1] # t[c + 1]
  BY <1>1, <1>2, CommonLenFacts
<1> HIDE DEF c
<1>4. \A k \in 1..c : Take(t, k) = Take(s, k) /\ Take(t, k) \in C
  <2> SUFFICES ASSUME NEW k \in 1..c PROVE Take(t, k) = Take(s, k) /\ Take(t, k) \in C
    OBVIOUS
  <2>1. k \in 0..c /\ c \in 0..Len(s) /\ c \in 0..Len(t) /\ k \in 1..Len(s)
    BY <1>1, <1>2, <1>3
  <2>2. Take(Take(s, c), k) = Take(s, k) /\ Take(Take(t, c), k) = Take(t, k)
    BY <1>1, <1>2, <2>1, TakeTake
  <2>3. QED
    BY <1>1, <1>3, <2>1, <2>2
<1>5. Take(t, c) \in C \cup {<<>>}
  <2>1. CASE c = 0
    BY <1>2, <2>1, TakeNone
  <2>2. CASE c # 0
    <3>1. c \in 1..c
      BY <1>3, <2>2
    <3>2. QED
      BY <1>4, <3>1
  <2>3. QED
    BY <2>1, <2>2
<1>6. QED
  BY <1>1, <1>2, <1>3, <1>4, <1>5 DEF c

\* Below the common ancestor no parallel state is passed, and of a parallel
\* common ancestor the region of the source is the one that is replaced.
LEMMA RebuiltRegion ==
  ASSUME NEW m, NEW C, NEW s, NEW t, Applies(m, C, s, t),
         NEW j \in CommonLen(s, t)..(Len(t) - 1), IsParallel(m, Take(t, j))
  PROVE  /\ j = CommonLen(s, t)
         /\ Take(t, j + 1) = Take(s, j + 1) /\ j + 1 \in 1..Len(s)
         /\ ~(j + 1 = Len(t) /\ IsLeaf(m, t))
<1> DEFINE c == CommonLen(s, t)
<1>1. /\ s \in Path /\ Len(s) \in Nat \ {0}
      /\ t \in Path /\ Len(t) \in Nat \ {0}
      /\ c \in Nat /\ c < Len(s) /\ c < Len(t)
      /\ (c + 1 < Len(s) /\ c + 1 < Len(t)) => s[c + 1] # t[c + 1]
  BY AppliesFacts
<1>2. j \in c..(Len(t) - 1)
  OBVIOUS
<1> HIDE DEF c
<1>3. j \in 0..(Len(t) - 1) /\ j + 1 \in 0..Len(t) /\ j + 1 \in Nat /\ j + 1 <= Len(t)
  BY <1>1, <1>2
<1>4. Take(t, j + 1) \in RegionsOf(m, t)
  BY <1>3 DEF RegionsOf
<1>5. Take(t, j + 1) \in RegionsOf(m, s)
  BY <1>4 DEF Applies, Aligned
<1>6. PICK k \in 0..(Len(s) - 1) : Take(t, j + 1) = Take(s, k + 1)
  BY <1>5 DEF RegionsOf
<1>7. k + 1 \in 0..Len(s) /\ k + 1 \in 1..Len(s)
  BY <1>1
<1>8. k = j
  <2>1. Len(Take(t, j + 1)) = j + 1 /\ Len(Take(s, k + 1)) = k + 1
    BY <1>1, <1>3, <1>7, TakeFacts
  <2>2. QED
    BY <1>1, <1>3, <1>6, <2>1
<1>9. \A i \in 1..(j + 1) : t[i] = s[i]
  BY <1>1, <1>3, <1>6, <1>7, <1>8, TakeEqual
<1>10. j = c
  <2>1. SUFFICES ASSUME j # c PROVE FALSE
    OBVIOUS
  <2>2. c + 1 < Len(s) /\ c + 1 < Len(t) /\ c + 1 \in 1..(j + 1)
    BY <1>1, <1>2, <1>7, <1>8, <2>1
  <2>3. QED
    BY <1>1, <1>9, <2>2
<1>11. ~(j + 1 = Len(t) /\ IsLeaf(m, t))
  <2>1. j + 1 = Len(t) => t \in RegionsOf(m, t)
    BY <1>1, <1>4, TakeAll
  <2>2. QED
    BY <2>1 DEF Applies, Aligned
<1>12. QED
  BY <1>6, <1>7, <1>8, <1>10, <1>11 DEF c

\* Where the states that are active afterwards come from.
LEMMA AfterMembers ==
  ASSUME NEW m, NEW C, NEW s, NEW t, Applies(m, C, s, t), NEW q \in After(m, C, s, t)
  PROVE  LET c == CommonLen(s, t)
         IN  /\ q \in DOMAIN m.nodes /\ q \in Path /\ q # <<>> /\ Len(q) \in Nat \ {0}
             /\ \/ q \in C \ Left(m, C, s, t)
                \/ \E k \in (c + 1)..(Len(t) - 1) : q = Take(t, k)
                \/ q \in EnterSubtree(m, t)
<1> DEFINE c == CommonLen(s, t)
<1>1. c \in Nat /\ t \in Path /\ Len(t) \in Nat /\ t \in DOMAIN m.nodes /\ IsMachine(m)
      /\ IsConfig(m, C)
  BY AppliesFacts DEF Applies
<1> HIDE DEF c
<1>2. CASE q \in C \ Left(m, C, s, t)
  BY <1>1, <1>2, ConfigStates
<1>3. CASE q \in EnterSubtree(m, t)
  <2>1. q \in DOMAIN m.nodes
    BY <1>3 DEF EnterSubtree
  <2>2. QED
    BY <1>1, <1>3, <2>1, NodePath
<1>4. CASE q \in PathTo(s, t)
  <2>1. PICK k \in (c + 1)..Len(t) : q = Take(t, k)
    BY <1>4 DEF PathTo, c
  <2>2. k \in 1..Len(t)
    BY <1>1
  <2>3. q \in DOMAIN m.nodes
    BY <1>1, <2>1, <2>2, PrefixesAreNodes
  <2>4. k = Len(t) => q \in EnterSubtree(m, t)
    BY <1>1, <2>1, TakeAll, SubtreeTop
  <2>5. k # Len(t) => k \in (c + 1)..(Len(t) - 1)
    BY <1>1, <2>1
  <2>6. QED
    BY <1>1, <2>1, <2>3, <2>4, <2>5, NodePath DEF c
<1>5. QED
  BY <1>2, <1>3, <1>4 DEF After

LEMMA EnteredIsBelow ==
  ASSUME NEW m, NEW C, NEW s, NEW t, Applies(m, C, s, t), NEW q \in EnterSubtree(m, t)
  PROVE  LET c == CommonLen(s, t)
         IN  /\ q \in Path /\ Len(q) \in Nat /\ Len(q) >= Len(t) /\ Len(q) > c
             /\ \A k \in 0..Len(t) : Take(q, k) = Take(t, k)
             /\ q[c + 1] = t[c + 1]
             /\ q \notin C \ Left(m, C, s, t)
<1> DEFINE c == CommonLen(s, t)
<1>1. c \in Nat /\ c < Len(t) /\ t \in Path /\ Len(t) \in Nat /\ IsMachine(m)
  BY AppliesFacts DEF Applies
<1> HIDE DEF c
<1>2. q \in Path /\ Len(q) \in Nat /\ Len(t) <= Len(q) /\ t = Take(q, Len(t))
  BY <1>1, SubtreeFacts
<1>3. Len(t) \in 0..Len(q)
  BY <1>1, <1>2
<1>4. \A k \in 0..Len(t) : Take(q, k) = Take(t, k)
  BY <1>2, <1>3, TakeTake
<1>5. q[c + 1] = t[c + 1]
  <2>1. c + 1 \in 1..Len(t)
    BY <1>1
  <2>2. Take(q, Len(t))[c + 1] = q[c + 1]
    BY <1>2, <1>3, <2>1, TakeFacts
  <2>3. QED
    BY <1>2, <2>2
<1>6. Len(q) > c /\ c \in 0..Len(t)
  BY <1>1, <1>2
<1>7. q \notin C \ Left(m, C, s, t)
  BY <1>4, <1>5, <1>6 DEF Left, c
<1>8. QED
  BY <1>1, <1>2, <1>4, <1>5, <1>6, <1>7 DEF c

LEMMA PathIsBelow ==
  ASSUME NEW m, NEW C, NEW s, NEW t, Applies(m, C, s, t),
         NEW k \in (CommonLen(s, t) + 1)..Len(t)
  PROVE  LET c == CommonLen(s, t)
         IN  /\ Take(t, k) \in Path /\ Len(Take(t, k)) = k /\ k \in 1..Len(t)
             /\ Take(Take(t, k), c) = Take(t, c) /\ Take(t, k)[c + 1] = t[c + 1]
             /\ Take(t, k) \notin C \ Left(m, C, s, t)
             /\ Take(t, k) \in After(m, C, s, t)
<1> DEFINE c == CommonLen(s, t)
<1>1. c \in Nat /\ c < Len(t) /\ t \in Path /\ Len(t) \in Nat /\ k \in (c + 1)..Len(t)
  BY AppliesFacts
<1>2. Take(t, k) \in After(m, C, s, t)
  BY DEF After, PathTo
<1> HIDE DEF c
<1>3. k \in 0..Len(t) /\ c \in 0..k /\ c + 1 \in 1..k /\ k > c /\ k \in 1..Len(t)
  BY <1>1
<1>4. Take(t, k) \in Path /\ Len(Take(t, k)) = k /\ Take(t, k)[c + 1] = t[c + 1]
  BY <1>1, <1>3, TakeFacts
<1>5. Take(Take(t, k), c) = Take(t, c)
  BY <1>1, <1>3, TakeTake
<1>6. Take(t, k) \notin C \ Left(m, C, s, t)
  BY <1>3, <1>4, <1>5 DEF Left, c
<1>7. QED
  BY <1>2, <1>3, <1>4, <1>5, <1>6 DEF c

\* A state that stays active is not where the change happens.
LEMMA StaysIsBeside ==
  ASSUME NEW m, NEW C, NEW s, NEW t, Applies(m, C, s, t), NEW p \in C,
         p \notin Left(m, C, s, t)
  PROVE  LET c == CommonLen(s, t)
         IN  \/ Len(p) <= c
             \/ Take(p, c) # Take(t, c)
             \/ IsParallel(m, Take(t, c)) /\ p[c + 1] # t[c + 1]
<1>1. Len(p) \in Nat /\ CommonLen(s, t) \in Nat
  BY ConfigStates, AppliesFacts DEF Applies
<1>2. QED
  BY <1>1 DEF Left

LEMMA AfterUpward ==
  ASSUME NEW m, NEW C, NEW s, NEW t, Applies(m, C, s, t), NEW p \in After(m, C, s, t),
         NEW k \in 1..Len(p)
  PROVE  Take(p, k) \in After(m, C, s, t)
<1> DEFINE c == CommonLen(s, t)
           D == After(m, C, s, t)
<1>1. /\ IsMachine(m) /\ IsConfig(m, C) /\ t \in DOMAIN m.nodes
      /\ t \in Path /\ Len(t) \in Nat \ {0} /\ c \in Nat /\ c < Len(t)
      /\ \A i \in 1..c : Take(t, i) \in C
  BY AppliesFacts DEF Applies
<1>2. p \in Path /\ Len(p) \in Nat \ {0}
      /\ \/ p \in C \ Left(m, C, s, t)
         \/ \E i \in (c + 1)..(Len(t) - 1) : p = Take(t, i)
         \/ p \in EnterSubtree(m, t)
  BY AfterMembers
<1>3. \A i \in 1..Len(t) : Take(t, i) \in D
  <2> SUFFICES ASSUME NEW i \in 1..Len(t) PROVE Take(t, i) \in D
    OBVIOUS
  <2>1. CASE i > c
    <3>1. i \in (c + 1)..Len(t)
      BY <1>1, <2>1
    <3>2. QED
      BY <3>1, PathIsBelow
  <2>2. CASE i <= c
    <3>1. Take(t, i) \in C /\ Len(Take(t, i)) = i
      BY <1>1, <2>2, TakeFacts
    <3>2. Take(t, i) \notin Left(m, C, s, t)
      BY <1>1, <2>2, <3>1 DEF Left
    <3>3. QED
      BY <3>1, <3>2 DEF After
  <2>3. QED
    BY <1>1, <2>1, <2>2
<1>4. CASE p \in C \ Left(m, C, s, t)
  <2> DEFINE q == Take(p, k)
  <2>1. k \in 0..Len(p)
    BY <1>2
  <2>2. q \in C /\ Len(q) = k /\ q \in Path
    BY <1>1, <1>2, <1>4, <2>1, ConfigStates, TakeFacts
  <2>3. q \notin Left(m, C, s, t)
    <3> SUFFICES ASSUME q \in Left(m, C, s, t) PROVE FALSE
      OBVIOUS
    <3>1. /\ k > c /\ Take(q, c) = Take(t, c)
          /\ IsParallel(m, Take(t, c)) => q[c + 1] = t[c + 1]
      BY <2>2 DEF Left
    <3>2. c \in 0..k /\ c + 1 \in 1..k /\ Len(p) > c
      BY <1>1, <1>2, <3>1
    <3>3. Take(q, c) = Take(p, c) /\ q[c + 1] = p[c + 1]
      BY <1>2, <2>1, <3>2, TakeTake, TakeFacts
    <3>4. p \in Left(m, C, s, t)
      BY <1>4, <3>1, <3>2, <3>3 DEF Left
    <3>5. QED
      BY <1>4, <3>4
  <2>4. QED
    BY <2>2, <2>3 DEF After
<1>5. CASE \E i \in (c + 1)..(Len(t) - 1) : p = Take(t, i)
  <2>1. PICK i \in (c + 1)..(Len(t) - 1) : p = Take(t, i)
    BY <1>5
  <2>2. i \in 0..Len(t)
    BY <1>1
  <2>3. Len(p) = i
    BY <1>1, <2>1, <2>2, TakeFacts
  <2>4. Take(p, k) = Take(t, k)
    BY <1>1, <2>1, <2>2, <2>3, TakeTake
  <2>5. k \in 1..Len(t)
    BY <1>1, <2>2, <2>3
  <2>6. QED
    BY <1>3, <2>4, <2>5
<1>6. CASE p \in EnterSubtree(m, t)
  <2>1. Len(p) >= Len(t) /\ \A i \in 0..Len(t) : Take(p, i) = Take(t, i)
    BY <1>6, EnteredIsBelow
  <2>2. CASE k < Len(t)
    <3>1. k \in 1..Len(t) /\ k \in 0..Len(t)
      BY <1>1, <2>2
    <3>2. QED
      BY <1>3, <2>1, <3>1
  <2>3. CASE k >= Len(t) /\ k < Len(p)
    <3>1. k \in Len(t)..(Len(p) - 1)
      BY <1>1, <1>2, <2>3
    <3>2. Take(p, k) \in EnterSubtree(m, t)
      BY <1>1, <1>6, <3>1, SubtreeStep
    <3>3. QED
      BY <3>2 DEF After
  <2>4. CASE k = Len(p)
    BY <1>2, <2>4, TakeAll
  <2>5. QED
    BY <1>1, <1>2, <2>2, <2>3, <2>4
<1>7. QED
  BY <1>2, <1>4, <1>5, <1>6

\* The children of a state that is entered are those that are entered with it.
LEMMA ChildrenEntered ==
  ASSUME NEW m, IsMachine(m), Accepted(m), NEW D, NEW p \in DOMAIN m.nodes,
         \A q \in Children(m, p) : q \in D <=> Enters(m, p, q)
  PROVE  ChildrenOK(m, D, p)
<1>1. p \in Path /\ p # <<>>
  BY NodePath
<1>2. CASE IsParallel(m, p)
  <2>1. Children(m, p) \cap D = Children(m, p)
    BY <1>2 DEF Enters
  <2>2. QED
    BY <1>1, <1>2, <2>1, StateRegions DEF ChildrenOK
<1>3. CASE ~IsParallel(m, p) /\ ~IsLeaf(m, p)
  <2> DEFINE r == p \o <<m.nodes[p].initial>>
  <2>1. r \in Children(m, p)
    BY <1>1, <1>3, AcceptedNode
  <2>2. \A q : Enters(m, p, q) => q = r
    BY <1>1, <1>3, ChildFacts DEF Enters
  <2>3. Enters(m, p, r)
    <3>1. \E q : Enters(m, p, q)
      BY <1>1, <1>3, EntersChild
    <3>2. QED
      BY <2>2, <3>1
  <2> HIDE DEF r
  <2>4. Children(m, p) \cap D = {r}
    BY <2>1, <2>2, <2>3
  <2>5. QED
    BY <1>3, <2>4 DEF ChildrenOK
<1>4. QED
  BY <1>2, <1>3 DEF ChildrenOK

\* The children of what is entered, ...
LEMMA EnteredChildren ==
  ASSUME NEW m, NEW C, NEW s, NEW t, Applies(m, C, s, t), NEW p \in EnterSubtree(m, t)
  PROVE  ChildrenOK(m, After(m, C, s, t), p)
<1> DEFINE c == CommonLen(s, t)
           D == After(m, C, s, t)
<1>1. /\ IsMachine(m) /\ Accepted(m) /\ t \in DOMAIN m.nodes
      /\ t \in Path /\ Len(t) \in Nat \ {0} /\ c \in Nat /\ c < Len(t)
  BY AppliesFacts DEF Applies
<1>2. p \in DOMAIN m.nodes /\ p \in Path /\ p # <<>> /\ Len(p) \in Nat /\ Len(p) >= Len(t)
  BY <1>1, SubtreeFacts
<1>3. \A q : Enters(m, p, q) => q \in Children(m, p) \cap D
  BY <1>1, SubtreeChild DEF Enters, After
<1>4. ASSUME NEW q \in Children(m, p), q \in D PROVE Enters(m, p, q)
  <2>1. q \in Path /\ Len(q) = Len(p) + 1 /\ Take(q, Len(p)) = p
    BY <1>1, <1>2, ChildFacts
  <2>2. Len(t) \in 0..Len(p) /\ Len(p) \in 0..Len(q) /\ c \in 0..Len(p) /\ c + 1 \in 1..Len(p)
        /\ c \in 0..Len(t)
    BY <1>1, <1>2, <2>1
  <2>3. Take(p, c) = Take(t, c) /\ p[c + 1] = t[c + 1]
    BY <2>2, EnteredIsBelow
  <2>4. Take(q, c) = Take(t, c) /\ q[c + 1] = t[c + 1]
    BY <2>1, <2>2, <2>3, TakeTake, TakeFacts
  <2>5. q \notin C \ Left(m, C, s, t)
    BY <1>1, <1>2, <2>1, <2>4 DEF Left
  <2>6. \A k \in (c + 1)..(Len(t) - 1) : q # Take(t, k)
    <3> SUFFICES ASSUME NEW k \in (c + 1)..(Len(t) - 1) PROVE q # Take(t, k)
      OBVIOUS
    <3>1. k \in 0..Len(t) /\ k < Len(q)
      BY <1>1, <1>2, <2>1
    <3>2. Len(Take(t, k)) = k
      BY <1>1, <3>1, TakeFacts
    <3>3. QED
      BY <3>1, <3>2
  <2>7. q \in EnterSubtree(m, t)
    BY <1>4, <2>5, <2>6, AfterMembers
  <2>8. Len(p) \in Len(t)..(Len(q) - 1) /\ Len(p) + 1 = Len(q)
    BY <1>1, <1>2, <2>1
  <2>9. Enters(m, Take(q, Len(p)), Take(q, Len(p) + 1))
    BY <1>1, <2>7, <2>8, SubtreeStep
  <2>10. QED
    BY <2>1, <2>8, <2>9, TakeAll
<1>5. \A q \in Children(m, p) : q \in D <=> Enters(m, p, q)
  BY <1>3, <1>4
<1> HIDE DEF D
<1>6. ChildrenOK(m, D, p)
  BY <1>1, <1>2, <1>5, ChildrenEntered
<1>7. QED
  BY <1>6 DEF D
LEMMA ChildPath ==
  ASSUME NEW m, IsMachine(m), NEW p \in Path, NEW q \in Children(m, p)
  PROVE  q \in Path /\ Len(q) = Len(p) + 1 /\ Take(q, Len(p)) = p
BY ChildFacts

\* A child, afterwards, of a state on the way to the target.
LEMMA PathChild ==
  ASSUME NEW m, NEW C, NEW s, NEW t, Applies(m, C, s, t),
         NEW i \in CommonLen(s, t)..(Len(t) - 1),
         NEW q \in Children(m, Take(t, i)), q \in After(m, C, s, t)
  PROVE  \/ q = Take(t, i + 1)
         \/ /\ i = CommonLen(s, t) /\ IsParallel(m, Take(t, i))
            /\ q \in C /\ q[i + 1] # t[i + 1]
<1> DEFINE c == CommonLen(s, t)
<1>1. /\ IsMachine(m) /\ t \in DOMAIN m.nodes
      /\ t \in Path /\ Len(t) \in Nat \ {0} /\ c \in Nat /\ c < Len(t)
  BY AppliesFacts DEF Applies
<1>2. i \in Nat /\ i \in 0..Len(t) /\ i >= c /\ c \in 0..i
  BY <1>1
<1>3. Take(t, i) \in Path /\ Len(Take(t, i)) = i
  BY <1>1, <1>2, TakeFacts
<1>4. q \in Path /\ Len(q) = i + 1 /\ Take(q, i) = Take(t, i)
  BY <1>1, <1>3, ChildFacts
<1>5. i \in 0..Len(q) /\ c \in 0..i
  BY <1>2, <1>4
<1>6. Take(q, c) = Take(t, c)
  BY <1>1, <1>2, <1>4, <1>5, TakeTake
<1>7. CASE q \in C \ Left(m, C, s, t)
  <2>1. IsParallel(m, Take(t, c)) /\ q[c + 1] # t[c + 1]
    BY <1>2, <1>4, <1>6, <1>7, StaysIsBeside
  <2>2. i = c
    <3>1. SUFFICES ASSUME i # c PROVE FALSE
      OBVIOUS
    <3>2. c + 1 \in 1..i
      BY <1>1, <1>2, <3>1
    <3>3. Take(q, i)[c + 1] = q[c + 1] /\ Take(t, i)[c + 1] = t[c + 1]
      BY <1>1, <1>2, <1>4, <1>5, <3>2, TakeFacts
    <3>4. QED
      BY <1>4, <2>1, <3>3
  <2>3. QED
    BY <1>7, <2>1, <2>2
<1>8. CASE \E k \in (c + 1)..(Len(t) - 1) : q = Take(t, k)
  <2>1. PICK k \in (c + 1)..(Len(t) - 1) : q = Take(t, k)
    BY <1>8
  <2>2. k \in 0..Len(t)
    BY <1>1
  <2>3. Len(q) = k
    BY <1>1, <2>1, <2>2, TakeFacts
  <2>4. QED
    BY <1>4, <2>1, <2>3
<1>9. CASE q \in EnterSubtree(m, t)
  <2>1. Len(q) >= Len(t) /\ \A k \in 0..Len(t) : Take(q, k) = Take(t, k)
    BY <1>9, EnteredIsBelow
  <2>2. i + 1 = Len(t) /\ Len(t) \in 0..Len(t)
    BY <1>1, <1>2, <1>4, <2>1
  <2>3. Take(q, i + 1) = Take(t, i + 1)
    BY <2>1, <2>2
  <2>4. QED
    BY <1>4, <2>3, TakeAll
<1>10. QED
  BY <1>7, <1>8, <1>9, AfterMembers DEF c

\* ... of the states on the way to the target, the common ancestor included, ...
LEMMA PathChildren ==
  ASSUME NEW m, NEW C, NEW s, NEW t, Applies(m, C, s, t),
         NEW i \in CommonLen(s, t)..(Len(t) - 1)
  PROVE  ChildrenOK(m, After(m, C, s, t), Take(t, i))
<1> DEFINE c == CommonLen(s, t)
           D == After(m, C, s, t)
           p == Take(t, i)
           r == Take(t, i + 1)
<1>1. /\ IsMachine(m) /\ Accepted(m) /\ IsConfig(m, C) /\ t \in DOMAIN m.nodes
      /\ t \in Path /\ Len(t) \in Nat \ {0} /\ c \in Nat /\ c < Len(t)
      /\ Take(t, c) \in C \cup {<<>>}
      /\ Len(s) \in Nat /\ s \in C
  BY AppliesFacts DEF Applies
<1>2. i \in 0..(Len(t) - 1) /\ i + 1 \in (c + 1)..Len(t) /\ i + 1 \in 1..Len(t)
      /\ i \in c..(Len(t) - 1) /\ i + 1 \in 0..Len(t) /\ i \in 0..Len(t)
  BY <1>1
<1>3. r \in D
  BY <1>2, PathIsBelow
<1>4. r \in Children(m, p)
  BY <1>1, <1>2, PrefixesAreNodes, NextKeyIsChild
<1>5. CASE ~IsParallel(m, p)
  <2>1. \A q \in Children(m, p) \cap D : q = r
    BY <1>5, PathChild
  <2> HIDE DEF D, r, p
  <2>2. Children(m, p) \cap D = {r}
    BY <1>3, <1>4, <2>1
  <2>3. QED
    BY <1>5, <2>2 DEF ChildrenOK, D, p
<1>6. CASE IsParallel(m, p)
  <2>1. i = c /\ r = Take(s, i + 1) /\ i + 1 \in 1..Len(s)
    BY <1>6, RebuiltRegion
  <2>2. r \in C
    BY <1>1, <2>1, ConfigStates
  <2>3. p \in C \cup {<<>>}
    BY <1>1, <2>1
  <2>4. Children(m, p) \cap C = Regions(m, p)
    <3> HIDE DEF p
    <3>1. ChildrenOK(m, C, p)
      BY <1>1, <2>3 DEF IsConfig
    <3>2. QED
      BY <1>6, <3>1 DEF ChildrenOK
  <2>5. \A q \in Children(m, p) \cap D : q \in C
    BY <2>2, PathChild
  <2>6. ASSUME NEW q \in Children(m, p), q \in C PROVE q \in D
    <3>1. p \in Path /\ Len(p) = i
      BY <1>1, <1>2, TakeFacts
    <3>2. q \in Path /\ Len(q) = i + 1 /\ Take(q, i) = p
      <4> HIDE DEF p
      <4>1. q \in Path /\ Len(q) = Len(p) + 1 /\ Take(q, Len(p)) = p
        BY <1>1, <3>1, ChildPath
      <4>2. QED
        BY <3>1, <4>1
    <3>3. CASE q \in Left(m, C, s, t)
      <4>1. q[i + 1] = t[i + 1]
        BY <1>6, <2>1, <3>3 DEF Left
      <4>2. Take(r, i) = p /\ r[i + 1] = t[i + 1] /\ r \in Path /\ Len(r) = i + 1
        BY <1>1, <1>2, TakeTake, TakeFacts
      <4>3. \A k \in 1..i : q[k] = r[k]
        <5> HIDE DEF r, p
        <5>1. Take(q, i) = Take(r, i) /\ i \in Nat /\ i <= Len(q) /\ i <= Len(r)
          BY <1>2, <3>2, <4>2
        <5>2. QED
          BY <3>2, <4>2, <5>1, TakeEqual
      <4>4. \A k \in 1..(i + 1) : q[k] = r[k]
        <5> HIDE DEF r, p
        <5>1. QED
          BY <1>2, <4>1, <4>2, <4>3
      <4>5. q = r
        <5> HIDE DEF r, p
        <5>1. QED
          BY <3>2, <4>2, <4>4, PathEqual
      <4>6. QED
        BY <1>3, <4>5
    <3>4. CASE q \notin Left(m, C, s, t)
      BY <2>6, <3>4 DEF After
    <3>5. QED
      BY <3>3, <3>4
  <2>7. QED
    <3> HIDE DEF D, p
    <3>1. Children(m, p) \cap D = Regions(m, p)
      BY <2>4, <2>5, <2>6
    <3>2. QED
      BY <1>6, <3>1 DEF ChildrenOK, D, p
<1>7. QED
  BY <1>5, <1>6

\* ... and of every other state, which keeps the children it has.
LEMMA OtherChildren ==
  ASSUME NEW m, NEW C, NEW s, NEW t, Applies(m, C, s, t), NEW p \in C \cup {<<>>},
         p \notin Left(m, C, s, t),
         \A i \in CommonLen(s, t)..(Len(t) - 1) : p # Take(t, i)
  PROVE  ChildrenOK(m, After(m, C, s, t), p)
<1> DEFINE c == CommonLen(s, t)
           D == After(m, C, s, t)
<1>1. /\ IsMachine(m) /\ Accepted(m) /\ IsConfig(m, C) /\ t \in DOMAIN m.nodes
      /\ t \in Path /\ Len(t) \in Nat \ {0} /\ c \in Nat /\ c < Len(t)
  BY AppliesFacts DEF Applies
<1>2. \A i \in c..(Len(t) - 1) : p # Take(t, i)
  OBVIOUS
<1>3. p \in Path /\ Len(p) \in Nat
  BY <1>1, ConfigStates, RootFacts
<1>4. Len(p) = c => Take(p, c) # Take(t, c)
  <2>1. c \in c..(Len(t) - 1)
    BY <1>1
  <2>2. QED
    BY <1>2, <1>3, <2>1, TakeAll
<1>5. ASSUME NEW q \in Children(m, p), q \in C PROVE q \in D
  <2>1. q \in Path /\ Len(q) = Len(p) + 1 /\ Take(q, Len(p)) = p
    BY <1>1, <1>3, ChildPath
  <2>2. SUFFICES ASSUME q \in Left(m, C, s, t) PROVE FALSE
    BY <1>5 DEF After
  <2>3. /\ Len(q) > c /\ Take(q, c) = Take(t, c)
        /\ IsParallel(m, Take(t, c)) => q[c + 1] = t[c + 1]
    BY <2>2 DEF Left
  <2>4. Len(p) >= c /\ c \in 0..Len(p) /\ Len(p) \in 0..Len(q)
    BY <1>1, <1>3, <2>1, <2>3
  <2>5. Take(p, c) = Take(t, c)
    BY <2>1, <2>3, <2>4, TakeTake
  <2>6. Len(p) > c /\ c + 1 \in 1..Len(p) /\ p # <<>>
    BY <1>1, <1>3, <1>4, <2>4, <2>5, RootFacts
  <2>7. p[c + 1] = q[c + 1]
    BY <2>1, <2>4, <2>6, TakeFacts
  <2>8. p \in Left(m, C, s, t)
    BY <2>3, <2>5, <2>6, <2>7 DEF Left
  <2>9. QED
    BY <2>8
<1>6. ASSUME NEW q \in Children(m, p), q \in D PROVE q \in C
  <2>1. q \in Path /\ Len(q) = Len(p) + 1 /\ Take(q, Len(p)) = p
    BY <1>1, <1>3, ChildPath
  <2>2. ASSUME NEW k \in (c + 1)..Len(t), q = Take(t, k) PROVE FALSE
    <3>1. k \in 0..Len(t) /\ k - 1 \in 0..k /\ k - 1 \in c..(Len(t) - 1)
      BY <1>1
    <3>2. Len(q) = k
      BY <1>1, <2>2, <3>1, TakeFacts
    <3>3. Take(q, k - 1) = Take(t, k - 1) /\ Len(p) = k - 1
      BY <1>1, <1>3, <2>1, <2>2, <3>1, <3>2, TakeTake
    <3>4. QED
      BY <1>2, <2>1, <3>1, <3>3
  <2>3. \A k \in (c + 1)..(Len(t) - 1) : q # Take(t, k)
    <3>1. \A k \in (c + 1)..(Len(t) - 1) : k \in (c + 1)..Len(t)
      BY <1>1
    <3>2. QED
      BY <2>2, <3>1
  <2>4. ASSUME q \in EnterSubtree(m, t) PROVE FALSE
    <3>1. Len(q) >= Len(t) /\ \A k \in 0..Len(t) : Take(q, k) = Take(t, k)
      BY <2>4, EnteredIsBelow
    <3>2. CASE Len(q) = Len(t)
      <4>1. Len(t) \in 0..Len(t) /\ Len(t) \in (c + 1)..Len(t)
        BY <1>1
      <4>2. q = Take(t, Len(t))
        BY <2>1, <3>1, <3>2, <4>1, TakeAll
      <4>3. QED
        BY <2>2, <4>1, <4>2
    <3>3. CASE Len(q) > Len(t)
      <4>1. Len(p) \in Len(t)..(Len(q) - 1)
        BY <1>1, <1>3, <2>1, <3>3
      <4>2. Take(q, Len(p)) \in EnterSubtree(m, t)
        BY <1>1, <2>4, <4>1, SubtreeStep
      <4>3. p \in EnterSubtree(m, t)
        BY <2>1, <4>2
      <4>4. p \notin C \ Left(m, C, s, t)
        BY <4>3, EnteredIsBelow
      <4>5. p # <<>>
        BY <1>1, <4>3, SubtreeFacts
      <4>6. QED
        BY <4>4, <4>5
    <3>4. QED
      BY <1>1, <1>3, <2>1, <3>1, <3>2, <3>3
  <2>5. QED
    BY <1>6, <2>3, <2>4, AfterMembers
<1> HIDE DEF D
<1>7. Children(m, p) \cap D = Children(m, p) \cap C
  BY <1>5, <1>6
<1>8. ChildrenOK(m, C, p)
  BY <1>1 DEF IsConfig
<1>9. QED
  BY <1>7, <1>8 DEF ChildrenOK, D

LEMMA AfterIsConfig ==
  ASSUME NEW m, NEW C, NEW s, NEW t, Applies(m, C, s, t)
  PROVE  IsConfig(m, After(m, C, s, t))
<1> DEFINE D == After(m, C, s, t)
<1>1. D \subseteq DOMAIN m.nodes
  BY AfterMembers
<1>2. \A p \in D : \A k \in 1..Len(p) : Take(p, k) \in D
  BY AfterUpward
<1>3. ASSUME NEW p \in D \cup {<<>>} PROVE ChildrenOK(m, D, p)
  <2>1. CASE p \in EnterSubtree(m, t)
    BY <2>1, EnteredChildren
  <2>2. CASE \E i \in CommonLen(s, t)..(Len(t) - 1) : p = Take(t, i)
    BY <2>2, PathChildren
  <2>3. CASE /\ p \notin EnterSubtree(m, t)
             /\ \A i \in CommonLen(s, t)..(Len(t) - 1) : p # Take(t, i)
    <3>1. p \in D => p \in C \ Left(m, C, s, t)
      <4>1. \A k \in (CommonLen(s, t) + 1)..(Len(t) - 1) :
                k \in CommonLen(s, t)..(Len(t) - 1)
        BY AppliesFacts
      <4>2. QED
        BY <2>3, <4>1, AfterMembers
    <3>2. <<>> \notin Left(m, C, s, t)
      <4>1. <<>> \notin C
        BY ConfigStates DEF Applies
      <4>2. QED
        BY <4>1 DEF Left
    <3>3. QED
      BY <2>3, <3>1, <3>2, OtherChildren
  <2>4. QED
    BY <2>1, <2>2, <2>3
<1> HIDE DEF D
<1>4. IsConfig(m, D)
  BY <1>1, <1>2, <1>3 DEF IsConfig
<1>5. QED
  BY <1>4 DEF D

-----------------------------------------------------------------------------
(* The value the engine computes is the words of the new configuration. *)

LEMMA WordsOf ==
  ASSUME NEW m, IsMachine(m), Scoped(m), NEW C, IsConfig(m, C), NEW w \in Words(m, C)
  PROVE  \E l \in C : /\ IsLeaf(m, l) /\ w = Word(m, l)
                      /\ l \in DOMAIN m.nodes /\ l \in Path /\ l # <<>> /\ Len(l) \in Nat \ {0}
                      /\ w \in Path /\ Len(w) \in {Len(l), Len(l) + 1}
                      /\ Take(w, Len(l)) = l /\ \A i \in 1..Len(l) : w[i] = l[i]
                      /\ IsParallel(m, Front(l)) => Len(w) = Len(l) + 1
                      /\ Len(l) = 1 => ~IsParallel(m, <<>>)
<1>1. PICK l \in C : IsLeaf(m, l) /\ w = Word(m, l)
  BY DEF Words
<1>2. l \in DOMAIN m.nodes /\ l \in Path /\ l # <<>> /\ Len(l) \in Nat \ {0}
  BY ConfigStates
<1>3. /\ w \in Path /\ Len(w) \in {Len(l), Len(l) + 1}
      /\ Take(w, Len(l)) = l /\ \A i \in 1..Len(l) : w[i] = l[i]
      /\ IsParallel(m, Front(l)) => Len(w) = Len(l) + 1
  BY <1>1, <1>2, WordShape
<1>4. Len(l) = 1 => ~IsParallel(m, <<>>)
  BY <1>1, RegionsAreNoLeaves
<1>5. QED
  BY <1>1, <1>2, <1>3, <1>4

LEMMA PreservedIsParallel ==
  ASSUME NEW m, NEW C, NEW s, NEW t, Applies(m, C, s, t),
         NEW j \in CommonLen(s, t)..(Len(t) - 1)
  PROVE  Preserved(m, Words(m, C), t, CommonLen(s, t), Take(t, j))
             <=> IsParallel(m, Take(t, j))
<1> DEFINE c == CommonLen(s, t)
           v == Words(m, C)
           q == Take(t, j)
<1>1. /\ IsMachine(m) /\ Accepted(m) /\ Scoped(m) /\ IsConfig(m, C) /\ t \in DOMAIN m.nodes
      /\ t \in Path /\ Len(t) \in Nat \ {0} /\ c \in Nat /\ c < Len(t)
  BY AppliesFacts DEF Applies
<1>2. j \in 0..Len(t) /\ j \in Nat /\ j >= c /\ j < Len(t)
  BY <1>1
<1>3. q \in Path /\ Len(q) = j
  BY <1>1, <1>2, TakeFacts
<1>4. CASE q = <<>>
  <2>1. IsParallel(m, <<>>) => IsObject(v)
    <3> SUFFICES ASSUME IsParallel(m, <<>>), NEW w \in v PROVE Len(w) > 1
      BY DEF IsObject
    <3>1. PICK l \in C : /\ Len(l) \in Nat \ {0} /\ Len(w) \in {Len(l), Len(l) + 1}
                         /\ Len(l) = 1 => ~IsParallel(m, <<>>)
      BY <1>1, WordsOf
    <3> DEFINE n == Len(l)
               k == Len(w)
    <3>2. n # 1 /\ n \in Nat \ {0} /\ k \in {n, n + 1}
      BY <3>1
    <3> HIDE DEF n, k
    <3>3. k > 1
      BY <3>2
    <3>4. QED
      BY <3>3 DEF k
  <2> HIDE DEF v, q
  <2>2. QED
    BY <1>1, <1>4, <2>1, RootFacts DEF Preserved, v, q
<1>5. CASE q # <<>>
  <2>1. j # 0
    BY <1>1, <1>5, TakeNone
  <2>2. q \in DOMAIN m.nodes
    <3>1. j \in 1..Len(t)
      BY <1>2, <2>1
    <3>2. QED
      BY <1>1, <3>1, PrefixesAreNodes
  <2>3. IsParallel(m, q) <=> NodeType(m, q) = "parallel"
    BY <1>1, <2>2, AcceptedNode
  <2>4. IsParallel(m, q) => ~(Len(q) = c /\ Len(t) = c + 1 /\ IsLeaf(m, t))
    BY <1>3, RebuiltRegion
  <2> HIDE DEF v, q, c
  <2>5. QED
    BY <1>5, <2>3, <2>4 DEF Preserved, v, q, c
<1>6. QED
  BY <1>4, <1>5

\* The levels at which the engine keeps what lies beside the target.
Kept(m, s, t) ==
    {k \in 0..(Len(t) - 1) : k < CommonLen(s, t) \/ IsParallel(m, Take(t, k))}

LEMMA WordsThatStay ==
  ASSUME NEW m, NEW C, NEW s, NEW t, Applies(m, C, s, t)
  PROVE  Words(m, C \ Left(m, C, s, t))
             = UNION {Beside(Words(m, C), t, j) : j \in Kept(m, s, t)}
<1> DEFINE c == CommonLen(s, t)
           v == Words(m, C)
           beside == UNION {Beside(v, t, j) : j \in Kept(m, s, t)}
<1>1. /\ IsMachine(m) /\ Accepted(m) /\ Scoped(m) /\ IsConfig(m, C) /\ t \in DOMAIN m.nodes
      /\ t \in Path /\ Len(t) \in Nat \ {0} /\ c \in Nat /\ c < Len(t)
      /\ \A k \in 1..c : Take(t, k) \in C
      /\ Take(t, c) \in C \cup {<<>>}
  BY AppliesFacts DEF Applies
<1>2. ASSUME NEW w \in v, NEW j \in Kept(m, s, t), w \in Beside(v, t, j)
      PROVE  w \in Words(m, C \ Left(m, C, s, t))
  <2>1. PICK l \in C : /\ IsLeaf(m, l) /\ w = Word(m, l)
                       /\ l \in Path /\ Len(l) \in Nat \ {0}
                       /\ w \in Path /\ Len(w) \in {Len(l), Len(l) + 1}
                       /\ Take(w, Len(l)) = l /\ \A i \in 1..Len(l) : w[i] = l[i]
    BY <1>1, WordsOf
  <2>2. j \in 0..(Len(t) - 1) /\ (j < c \/ IsParallel(m, Take(t, j)))
    BY DEF Kept
  <2>3. Len(w) >= j + 2 /\ Take(w, j) = Take(t, j) /\ w[j + 1] # t[j + 1]
    BY <1>2 DEF Beside
  <2>4. j \in Nat /\ Len(l) >= j + 1 /\ j \in 0..Len(l) /\ j + 1 \in 1..Len(l)
        /\ Len(l) \in 0..Len(w)
    BY <1>1, <2>1, <2>2, <2>3
  <2>5. Take(l, j) = Take(t, j) /\ l[j + 1] # t[j + 1]
    BY <2>1, <2>3, <2>4, TakeTake
  <2>6. l \notin Left(m, C, s, t)
    <3> SUFFICES ASSUME l \in Left(m, C, s, t) PROVE FALSE
      OBVIOUS
    <3>1. /\ Len(l) > c /\ Take(l, c) = Take(t, c)
          /\ IsParallel(m, Take(t, c)) => l[c + 1] = t[c + 1]
      BY DEF Left
    <3>2. CASE j < c
      <4>1. c <= Len(l) /\ c <= Len(t) /\ j + 1 \in 1..c
        BY <1>1, <2>1, <2>4, <3>1, <3>2
      <4>2. \A i \in 1..c : l[i] = t[i]
        BY <1>1, <2>1, <3>1, <4>1, TakeEqual
      <4>3. QED
        BY <2>5, <4>1, <4>2
    <3>3. CASE j >= c
      <4>1. j \in c..(Len(t) - 1) /\ IsParallel(m, Take(t, j))
        BY <1>1, <2>2, <3>3
      <4>2. j = c
        BY <4>1, RebuiltRegion
      <4>3. QED
        BY <2>5, <3>1, <4>1, <4>2
    <3>4. QED
      BY <1>1, <2>4, <3>2, <3>3
  <2>7. QED
    BY <2>1, <2>6 DEF Words
<1>3. ASSUME NEW l \in C, l \notin Left(m, C, s, t), IsLeaf(m, l)
      PROVE  \E j \in Kept(m, s, t) : Word(m, l) \in Beside(v, t, j)
  <2> DEFINE w == Word(m, l)
  <2>1. l \in DOMAIN m.nodes /\ l \in Path /\ l # <<>> /\ Len(l) \in Nat \ {0}
        /\ \A k \in 0..Len(l) : Take(l, k) \in C \cup {<<>>}
    BY <1>1, ConfigStates
  <2>2. /\ w \in Path /\ Len(w) \in {Len(l), Len(l) + 1}
        /\ Take(w, Len(l)) = l /\ \A i \in 1..Len(l) : w[i] = l[i]
        /\ IsParallel(m, Front(l)) => Len(w) = Len(l) + 1
    BY <2>1, WordShape
  <2>3. w \in v
    BY <1>3 DEF Words
  <2> HIDE DEF w, v
  <2>4. \/ Len(l) <= c
        \/ Take(l, c) # Take(t, c)
        \/ IsParallel(m, Take(t, c)) /\ l[c + 1] # t[c + 1]
    BY <1>3, StaysIsBeside
  <2>5. ~IsPrefix(t, l)
    <3> SUFFICES ASSUME IsPrefix(t, l) PROVE FALSE
      OBVIOUS
    <3>1. Len(t) <= Len(l) /\ t = Take(l, Len(t))
      BY <1>1, <2>1, PrefixIsTake
    <3>2. Len(t) \in 0..Len(l) /\ c \in 0..Len(t) /\ c + 1 \in 1..Len(t) /\ Len(l) > c
      BY <1>1, <2>1, <3>1
    <3>3. Take(l, c) = Take(t, c) /\ t[c + 1] = l[c + 1]
      BY <2>1, <3>1, <3>2, TakeTake, TakeFacts
    <3>4. QED
      BY <1>1, <2>1, <2>4, <3>2, <3>3
  <2>6. ~IsPrefix(l, t)
    <3> SUFFICES ASSUME IsPrefix(l, t) PROVE FALSE
      OBVIOUS
    <3>1. Len(l) <= Len(t) /\ l = Take(t, Len(l))
      BY <1>1, <2>1, PrefixIsTake
    <3>2. Len(l) # Len(t)
      <4>1. Len(l) = Len(t) => IsPrefix(t, l)
        BY <1>1, <2>1, <3>1, TakeAll, PrefixIsTake
      <4>2. QED
        BY <2>5, <4>1
    <3>3. Len(l) \in 1..(Len(t) - 1)
      BY <1>1, <2>1, <3>1, <3>2
    <3>4. QED
      BY <1>1, <1>3, <3>1, <3>3, AboveIsNoLeaf
  <2>7. PICK j \in Nat : /\ j < Len(l) /\ j < Len(t)
                         /\ Take(l, j) = Take(t, j) /\ l[j + 1] # t[j + 1]
    BY <1>1, <2>1, <2>5, <2>6, FirstDifference
  <2>8. j <= c
    <3> SUFFICES ASSUME j > c PROVE FALSE
      BY <1>1, <2>7
    <3>1. c \in 0..j /\ j \in 0..Len(l) /\ j \in 0..Len(t) /\ c + 1 \in 1..j
          /\ j <= Len(l) /\ j <= Len(t)
      BY <1>1, <2>1, <2>7
    <3>2. Take(Take(l, j), c) = Take(l, c) /\ Take(Take(t, j), c) = Take(t, c)
      BY <1>1, <2>1, <3>1, TakeTake
    <3>3. l[c + 1] = t[c + 1]
      BY <1>1, <2>1, <2>7, <3>1, TakeEqual
    <3>4. QED
      BY <1>1, <2>1, <2>4, <2>7, <3>1, <3>2, <3>3
  <2>9. j = c => IsParallel(m, Take(t, c))
    BY <1>1, <2>1, <2>4, <2>7
  <2>10. j \in Kept(m, s, t)
    <3>1. j \in 0..(Len(t) - 1) /\ (j < c \/ j = c)
      BY <1>1, <2>7, <2>8
    <3>2. QED
      BY <2>9, <3>1 DEF Kept
  <2>11. Len(l) = j + 1 => IsParallel(m, Front(l))
    <3> SUFFICES ASSUME Len(l) = j + 1 PROVE IsParallel(m, Front(l))
      OBVIOUS
    <3>1. Front(l) = Take(t, j)
      BY <2>1, <2>7, FrontIsTake
    <3>2. CASE j = c
      BY <2>9, <3>1, <3>2
    <3>3. CASE j < c
      <4> DEFINE f == Take(t, j)
                 a == Take(t, j + 1)
      <4>1. SUFFICES ASSUME ~IsParallel(m, f) PROVE FALSE
        BY <3>1
      <4>2. j + 1 \in 1..c /\ j \in 0..(Len(t) - 1) /\ j + 1 \in 1..Len(t) /\ j \in 0..Len(l)
            /\ j + 1 \in 0..Len(t) /\ j \in 0..(Len(l) - 1)
        BY <1>1, <2>1, <2>7, <3>3
      <4>3. a \in C /\ a \in Children(m, f)
        BY <1>1, <4>2, PrefixesAreNodes, NextKeyIsChild
      <4>4. l \in Children(m, f)
        <5>1. Take(l, j + 1) = l
          BY <2>1, TakeAll
        <5>2. Take(l, j + 1) \in Children(m, Take(l, j))
          BY <1>1, <2>1, <4>2, <5>1, NextKeyIsChild
        <5>3. QED
          BY <2>7, <5>1, <5>2
      <4>5. a[j + 1] = t[j + 1]
        BY <1>1, <4>2, TakeFacts
      <4>6. f \in C \cup {<<>>}
        BY <2>1, <2>7, <4>2
      <4>7. ~IsLeaf(m, f)
        <5>1. f \in DOMAIN m.nodes => (IsLeaf(m, f) => Children(m, f) = {})
          BY <1>1, AcceptedNode
        <5>2. f = <<>> \/ f \in DOMAIN m.nodes
          BY <1>1, <4>6, ConfigStates
        <5> HIDE DEF f
        <5>3. QED
          BY <1>1, <4>4, <5>1, <5>2, RootFacts
      <4> HIDE DEF f, a
      <4>8. ChildrenOK(m, C, f)
        BY <1>1, <4>6 DEF IsConfig
      <4>9. PICK r : Children(m, f) \cap C = {r}
        BY <4>1, <4>7, <4>8 DEF ChildrenOK
      <4>10. a = l
        BY <1>3, <4>3, <4>4, <4>9
      <4>11. QED
        BY <2>7, <4>5, <4>10
    <3>4. QED
      BY <1>1, <2>7, <2>8, <3>2, <3>3
  <2>12. Len(w) >= j + 2
    BY <2>1, <2>2, <2>7, <2>11
  <2>13. Take(w, j) = Take(t, j) /\ w[j + 1] # t[j + 1]
    <3>1. j \in 0..Len(l) /\ Len(l) \in 0..Len(w) /\ j + 1 \in 1..Len(l)
      BY <2>1, <2>2, <2>7
    <3>2. Take(Take(w, Len(l)), j) = Take(w, j)
      BY <2>2, <3>1, TakeTake
    <3>3. QED
      BY <2>2, <2>7, <3>1, <3>2
  <2>14. w \in Beside(v, t, j)
    BY <2>3, <2>12, <2>13 DEF Beside
  <2>15. QED
    BY <2>10, <2>14 DEF w
<1>4. \A j : Beside(v, t, j) \subseteq v
  BY DEF Beside
<1> HIDE DEF v
<1>5. beside \subseteq Words(m, C \ Left(m, C, s, t))
  BY <1>2, <1>4
<1>6. Words(m, C \ Left(m, C, s, t)) \subseteq beside
  <2> SUFFICES ASSUME NEW w \in Words(m, C \ Left(m, C, s, t)) PROVE w \in beside
    OBVIOUS
  <2>1. PICK l \in C : l \notin Left(m, C, s, t) /\ IsLeaf(m, l) /\ w = Word(m, l)
    BY DEF Words
  <2>2. QED
    BY <1>3, <2>1
<1>7. QED
  BY <1>5, <1>6 DEF v

LEMMA NextValueIsWords ==
  ASSUME NEW m, NEW C, NEW s, NEW t, Applies(m, C, s, t)
  PROVE  NextStateValue(m, Words(m, C), s, t) = Words(m, After(m, C, s, t))
<1> DEFINE c == CommonLen(s, t)
           v == Words(m, C)
           KeptAt(j) == j < c \/ Preserved(m, v, t, c, Take(t, j))
           kept == {k \in 0..(Len(t) - 1) : KeptAt(k)}
           target == IF IsLeaf(m, t)
                     THEN {IF KeptAt(Len(t) - 1) THEN Word(m, t) ELSE t}
                     ELSE Words(m, EnterSubtree(m, t))
<1>1. /\ IsMachine(m) /\ Accepted(m) /\ t \in DOMAIN m.nodes
      /\ t \in Path /\ t # <<>> /\ Len(t) \in Nat \ {0} /\ c \in Nat /\ c < Len(t)
  <2> HIDE DEF KeptAt, kept, target, v
  <2>1. IsMachine(m) /\ Accepted(m) /\ t \in DOMAIN m.nodes
    BY DEF Applies
  <2>2. t \in Path /\ t # <<>> /\ Len(t) \in Nat \ {0} /\ c \in Nat /\ c < Len(t)
    BY AppliesFacts
  <2>3. QED
    BY <2>1, <2>2
<1>2. NextStateValue(m, v, s, t) = target \cup UNION {Beside(v, t, j) : j \in kept}
  BY DEF NextStateValue
<1>3. \A j \in 0..(Len(t) - 1) : KeptAt(j) <=> (j < c \/ IsParallel(m, Take(t, j)))
  <2> SUFFICES ASSUME NEW j \in 0..(Len(t) - 1)
               PROVE  KeptAt(j) <=> (j < c \/ IsParallel(m, Take(t, j)))
    OBVIOUS
  <2>1. CASE j < c
    BY <2>1
  <2>2. CASE j >= c
    <3>1. j \in c..(Len(t) - 1)
      BY <1>1, <2>2
    <3>2. Preserved(m, v, t, c, Take(t, j)) <=> IsParallel(m, Take(t, j))
      BY <3>1, PreservedIsParallel
    <3>3. QED
      BY <3>2
  <2>3. QED
    BY <1>1, <2>1, <2>2
<1>4. kept = Kept(m, s, t)
  <2> HIDE DEF KeptAt
  <2>1. QED
    BY <1>3 DEF Kept
<1>5. target = Words(m, EnterSubtree(m, t))
  <2>1. CASE ~IsLeaf(m, t)
    BY <2>1
  <2>2. CASE IsLeaf(m, t)
    <3>1. KeptAt(Len(t) - 1) \/ Word(m, t) = t
      <4>1. Len(t) - 1 \in 0..(Len(t) - 1) /\ Front(t) = Take(t, Len(t) - 1)
        BY <1>1, FrontIsTake
      <4>2. IsParallel(m, Front(t)) => KeptAt(Len(t) - 1)
        <5> HIDE DEF KeptAt
        <5>1. QED
          BY <1>3, <4>1
      <4>3. ~IsParallel(m, Front(t)) => Word(m, t) = t
        BY <1>1, WordShape
      <4>4. QED
        BY <4>2, <4>3
    <3>2. target = {Word(m, t)}
      <4> HIDE DEF KeptAt
      <4>1. QED
        BY <2>2, <3>1
    <3>3. EnterSubtree(m, t) = {t}
      <4>1. \A q \in EnterSubtree(m, t) : q = t
        <5> SUFFICES ASSUME NEW q \in EnterSubtree(m, t), q # t PROVE FALSE
          OBVIOUS
        <5>1. q \in Path /\ Len(q) \in Nat /\ Len(t) <= Len(q) /\ t = Take(q, Len(t))
          BY <1>1, SubtreeFacts
        <5>2. Len(t) # Len(q)
          BY <5>1, TakeAll
        <5>3. Len(t) \in Len(t)..(Len(q) - 1)
          BY <1>1, <5>1, <5>2
        <5>4. Enters(m, Take(q, Len(t)), Take(q, Len(t) + 1))
          BY <1>1, <5>3, SubtreeStep
        <5>5. Children(m, t) # {}
          BY <5>1, <5>4 DEF Enters
        <5>6. QED
          BY <1>1, <2>2, <5>5, AcceptedNode
      <4>2. t \in EnterSubtree(m, t)
        BY <1>1, SubtreeTop
      <4>3. QED
        BY <4>1, <4>2
    <3>4. Words(m, {t}) = {Word(m, t)}
      <4>1. {q \in {t} : IsLeaf(m, q)} = {t}
        BY <2>2
      <4>2. QED
        BY <4>1 DEF Words
    <3> HIDE DEF target
    <3>5. QED
      BY <3>2, <3>3, <3>4
  <2>3. QED
    BY <2>1, <2>2
<1> HIDE DEF v, kept, target
<1>6. UNION {Beside(v, t, j) : j \in kept} = Words(m, C \ Left(m, C, s, t))
  BY <1>4, WordsThatStay DEF v
<1>7. Words(m, PathTo(s, t)) \subseteq Words(m, EnterSubtree(m, t))
  <2> SUFFICES ASSUME NEW p \in PathTo(s, t), IsLeaf(m, p)
               PROVE  p \in EnterSubtree(m, t)
    BY DEF Words
  <2>1. PICK k \in (c + 1)..Len(t) : p = Take(t, k)
    BY DEF PathTo
  <2>2. CASE k = Len(t)
    BY <1>1, <2>1, <2>2, TakeAll, SubtreeTop
  <2>3. CASE k # Len(t)
    <3>1. k \in 1..(Len(t) - 1)
      BY <1>1, <2>3
    <3>2. QED
      BY <1>1, <2>1, <3>1, AboveIsNoLeaf
  <2>4. QED
    BY <2>2, <2>3
<1>8. Words(m, After(m, C, s, t)) =
          Words(m, C \ Left(m, C, s, t)) \cup Words(m, PathTo(s, t))
              \cup Words(m, EnterSubtree(m, t))
  BY DEF After, Words
<1>9. QED
  BY <1>2, <1>5, <1>6, <1>7, <1>8 DEF v

-----------------------------------------------------------------------------
(* State values. *)

Configured(m, v) ==
    IsConfig(m, ActiveStates(m, v)) /\ v = Words(m, ActiveStates(m, v))

Incomparable(p, q) == ~IsPrefix(p, q) /\ ~IsPrefix(q, p)

LEMMA WordsConfigured ==
  ASSUME NEW m, IsMachine(m), Accepted(m), Scoped(m), NEW C, IsConfig(m, C)
  PROVE  Configured(m, Words(m, C)) /\ ActiveStates(m, Words(m, C)) = C
<1>1. ActiveStates(m, Words(m, C)) = C
  BY ActiveOfConfig
<1>2. QED
  BY <1>1 DEF Configured

LEMMA NextConfigured ==
  ASSUME NEW m, IsMachine(m), Accepted(m), Scoped(m), NEW v, Configured(m, v),
         NEW s \in ActiveStates(m, v), NEW t \in DOMAIN m.nodes, Aligned(m, s, t)
  PROVE  /\ Applies(m, ActiveStates(m, v), s, t)
         /\ Configured(m, NextStateValue(m, v, s, t))
         /\ ActiveStates(m, NextStateValue(m, v, s, t)) = After(m, ActiveStates(m, v), s, t)
<1> DEFINE C == ActiveStates(m, v)
<1>1. Applies(m, C, s, t)
  BY DEF Applies, Configured
<1>2. v = Words(m, C)
  BY DEF Configured
<1> HIDE DEF C
<1>3. NextStateValue(m, v, s, t) = Words(m, After(m, C, s, t))
  BY <1>1, <1>2, NextValueIsWords
<1>4. IsConfig(m, After(m, C, s, t))
  BY <1>1, AfterIsConfig
<1>5. QED
  BY <1>1, <1>3, <1>4, WordsConfigured DEF C

\* Edges of a scoped machine do not leave regions on the wrong way.
LEMMA ScopedAligned ==
  ASSUME NEW m, Scoped(m), NEW p \in DOMAIN m.nodes, NEW edge \in EdgesOf(m.nodes[p]),
         NEW ref, ref # NoRef, ~Throws(m, p, ref),
         \/ ref \in SuccessTargets(edge)
         \/ CanFail(m, edge) /\ ref = EffectivePolicy(m, edge).failTarget
  PROVE  Aligned(m, p, ResolveTargetStatePath(m, p, ref))
<1>1. ResolveTargetStatePath(m, p, ref) \in TargetsOfEdge(m, p, edge)
  BY DEF TargetsOfEdge
<1>2. QED
  BY <1>1 DEF Scoped, Aligned

\* Two active states of which neither is above the other are in two regions.
LEMMA ActiveParted ==
  ASSUME NEW m, IsMachine(m), Accepted(m), NEW C, IsConfig(m, C),
         NEW p \in C, NEW q \in C, Incomparable(p, q)
  PROVE  \E j \in Nat : /\ j < Len(p) /\ j < Len(q) /\ Take(p, j) = Take(q, j)
                        /\ p[j + 1] # q[j + 1] /\ IsParallel(m, Take(p, j))
<1>1. /\ p \in Path /\ Len(p) \in Nat \ {0} /\ p \in DOMAIN m.nodes
      /\ \A k \in 1..Len(p) : Take(p, k) \in C
      /\ \A k \in 0..Len(p) : Take(p, k) \in C \cup {<<>>}
  BY ConfigStates
<1>2. /\ q \in Path /\ Len(q) \in Nat \ {0} /\ q \in DOMAIN m.nodes
      /\ \A k \in 1..Len(q) : Take(q, k) \in C
  BY ConfigStates
<1>3. PICK j \in Nat : /\ j < Len(p) /\ j < Len(q)
                       /\ Take(p, j) = Take(q, j) /\ p[j + 1] # q[j + 1]
  BY <1>1, <1>2, FirstDifference DEF Incomparable
<1> DEFINE f == Take(p, j)
           a == Take(p, j + 1)
           b == Take(q, j + 1)
<1>4. SUFFICES ASSUME ~IsParallel(m, f) PROVE FALSE
  BY <1>3
<1>5. /\ j \in 0..Len(p) /\ j \in 0..(Len(p) - 1) /\ j + 1 \in 1..Len(p) /\ j + 1 \in 0..Len(p)
      /\ j \in 0..(Len(q) - 1) /\ j + 1 \in 1..Len(q) /\ j + 1 \in 0..Len(q)
  BY <1>1, <1>2, <1>3
<1>6. a \in C /\ b \in C /\ a \in DOMAIN m.nodes /\ b \in DOMAIN m.nodes
  BY <1>1, <1>2, <1>5, ConfigStates
<1>7. a \in Children(m, f) /\ b \in Children(m, f)
  <2>1. a \in Children(m, f)
    BY <1>1, <1>5, <1>6, NextKeyIsChild
  <2>2. b \in Children(m, Take(q, j))
    BY <1>2, <1>5, <1>6, NextKeyIsChild
  <2>3. QED
    BY <1>3, <2>1, <2>2
<1>8. a[j + 1] # b[j + 1]
  <2>1. j + 1 \in 1..(j + 1)
    BY <1>3
  <2>2. a[j + 1] = p[j + 1] /\ b[j + 1] = q[j + 1]
    BY <1>1, <1>2, <1>5, <2>1, TakeFacts
  <2>3. QED
    BY <1>3, <2>2
<1>9. f \in C \cup {<<>>}
  BY <1>1, <1>5
<1> HIDE DEF f, a, b
<1>10. ~IsLeaf(m, f)
  <2>1. CASE f = <<>>
    BY <2>1, RootFacts
  <2>2. CASE f # <<>>
    <3>1. f \in DOMAIN m.nodes
      BY <1>9, <2>2, ConfigStates
    <3>2. QED
      BY <1>7, <3>1, AcceptedNode
  <2>3. QED
    BY <2>1, <2>2
<1>11. ChildrenOK(m, C, f)
  BY <1>9 DEF IsConfig
<1>12. PICK r : Children(m, f) \cap C = {r}
  BY <1>4, <1>10, <1>11 DEF ChildrenOK
<1>13. a = b
  BY <1>6, <1>7, <1>12
<1>14. QED
  BY <1>8, <1>13

LEMMA ActiveApart ==
  ASSUME NEW m, IsMachine(m), Accepted(m), NEW C, IsConfig(m, C),
         NEW p \in C, NEW q \in C, Incomparable(p, q)
  PROVE  Apart(m, p, q)
<1>1. p \in Path /\ Len(p) \in Nat /\ q \in Path /\ Len(q) \in Nat
  BY ConfigStates
<1>2. PICK j \in Nat : /\ j < Len(p) /\ j < Len(q) /\ Take(p, j) = Take(q, j)
                       /\ p[j + 1] # q[j + 1] /\ IsParallel(m, Take(p, j))
  BY ActiveParted
<1> DEFINE a == Take(p, j + 1)
           b == Take(q, j + 1)
<1>3. /\ j \in 0..(Len(p) - 1) /\ j + 1 \in 0..Len(p) /\ j \in 0..(j + 1) /\ j + 1 \in 1..(j + 1)
      /\ j \in 0..(Len(q) - 1) /\ j + 1 \in 0..Len(q) /\ (j + 1) - 1 = j
  BY <1>1, <1>2
<1>4. a \in RegionsOf(m, p)
  BY <1>2, <1>3 DEF RegionsOf
<1>5. b \in RegionsOf(m, q)
  BY <1>2, <1>3 DEF RegionsOf
<1>6. a # b
  <2>1. a[j + 1] = p[j + 1] /\ b[j + 1] = q[j + 1]
    BY <1>1, <1>3, TakeFacts
  <2>2. QED
    BY <1>2, <2>1
<1>7. Front(a) = Front(b)
  <2>1. a \in Path /\ Len(a) = j + 1 /\ b \in Path /\ Len(b) = j + 1
    BY <1>1, <1>3, TakeFacts
  <2>2. a # <<>> /\ b # <<>>
    <3> HIDE DEF a, b
    <3>1. QED
      BY <2>1, <1>2
  <2>3. Front(a) = Take(a, j) /\ Front(b) = Take(b, j)
    <3> HIDE DEF a, b
    <3>1. QED
      BY <1>3, <2>1, <2>2, FrontIsTake
  <2>4. Take(a, j) = Take(p, j) /\ Take(b, j) = Take(q, j)
    BY <1>1, <1>3, TakeTake
  <2>5. QED
    BY <1>2, <2>3, <2>4
<1> HIDE DEF a, b
<1>8. QED
  BY <1>4, <1>5, <1>6, <1>7 DEF Apart

\* A transition within its regions leaves the other regions alone.
LEMMA StaysActive ==
  ASSUME NEW m, NEW C, NEW s, NEW t, Applies(m, C, s, t), NEW x \in C,
         Incomparable(s, x), RegionsOf(m, t) = RegionsOf(m, s)
  PROVE  x \in After(m, C, s, t)
<1> DEFINE c == CommonLen(s, t)
<1>1. /\ s \in Path /\ Len(s) \in Nat \ {0} /\ s \in C
      /\ t \in Path /\ Len(t) \in Nat \ {0}
      /\ c \in Nat /\ c < Len(s) /\ c < Len(t) /\ Take(s, c) = Take(t, c)
      /\ (c + 1 < Len(s) /\ c + 1 < Len(t)) => s[c + 1] # t[c + 1]
  <2>1. s \in C
    BY DEF Applies
  <2>2. /\ s \in Path /\ Len(s) \in Nat \ {0} /\ t \in Path /\ Len(t) \in Nat \ {0}
        /\ c \in Nat /\ c < Len(s) /\ c < Len(t) /\ Take(s, c) = Take(t, c)
        /\ (c + 1 < Len(s) /\ c + 1 < Len(t)) => s[c + 1] # t[c + 1]
    BY AppliesFacts
  <2>3. QED
    BY <2>1, <2>2
<1>2. IsMachine(m) /\ Accepted(m) /\ IsConfig(m, C)
  BY DEF Applies
<1>3. x \in Path /\ Len(x) \in Nat
  BY <1>2, ConfigStates
<1>4. PICK j \in Nat : /\ j < Len(s) /\ j < Len(x) /\ Take(s, j) = Take(x, j)
                       /\ s[j + 1] # x[j + 1] /\ IsParallel(m, Take(s, j))
  BY <1>1, <1>2, ActiveParted
<1> HIDE DEF c
<1>5. Take(s, j + 1) \in RegionsOf(m, s)
  <2>1. j \in 0..(Len(s) - 1)
    BY <1>1, <1>4
  <2>2. QED
    BY <1>4, <2>1 DEF RegionsOf
<1>6. PICK k \in 0..(Len(t) - 1) : Take(s, j + 1) = Take(t, k + 1)
  <2>1. Take(s, j + 1) \in RegionsOf(m, t)
    BY <1>5
  <2>2. QED
    BY <2>1 DEF RegionsOf
<1>7. k = j
  <2>1. j + 1 \in 0..Len(s) /\ k + 1 \in 0..Len(t)
    BY <1>1, <1>4
  <2>2. Len(Take(s, j + 1)) = j + 1 /\ Len(Take(t, k + 1)) = k + 1
    BY <1>1, <2>1, TakeFacts
  <2>3. QED
    BY <1>1, <1>6, <2>2
<1>8. j < Len(t) /\ \A i \in 1..(j + 1) : s[i] = t[i]
  <2>1. j + 1 \in Nat /\ j + 1 <= Len(s) /\ j + 1 <= Len(t)
    BY <1>1, <1>4, <1>7
  <2>2. QED
    BY <1>1, <1>6, <1>7, <2>1, TakeEqual
<1>9. c >= j
  <2> SUFFICES ASSUME c < j PROVE FALSE
    BY <1>1, <1>4
  <2>1. c + 1 < Len(s) /\ c + 1 < Len(t) /\ c + 1 \in 1..(j + 1)
    BY <1>1, <1>4, <1>8
  <2>2. QED
    BY <1>1, <1>8, <2>1
<1>10. x \notin Left(m, C, s, t)
  <2> SUFFICES ASSUME x \in Left(m, C, s, t) PROVE FALSE
    OBVIOUS
  <2>1. /\ Len(x) > c /\ Take(x, c) = Take(t, c)
        /\ IsParallel(m, Take(t, c)) => x[c + 1] = t[c + 1]
    BY DEF Left, c
  <2>2. j + 1 \in 1..(j + 1) /\ s[j + 1] = t[j + 1]
    BY <1>4, <1>8
  <2>3. CASE c = j
    BY <1>1, <1>4, <2>1, <2>2, <2>3
  <2>4. CASE c > j
    <3>1. j + 1 \in 1..c /\ c <= Len(x) /\ c <= Len(t)
      BY <1>1, <1>3, <1>4, <2>1, <2>4
    <3>2. x[j + 1] = t[j + 1]
      BY <1>1, <1>3, <2>1, <3>1, TakeEqual
    <3>3. QED
      BY <1>4, <2>2, <3>2
  <2>5. QED
    BY <1>1, <1>4, <1>9, <2>3, <2>4
<1>11. QED
  BY <1>10 DEF After

-----------------------------------------------------------------------------
(* Effects. *)

Effects(m) == {"exit", "entry"} \X DOMAIN m.nodes

\* f is the function ReplayAll is the last value of.
IsReplay(f, active, effs) ==
    f = [k \in 0..Len(effs) |-> IF k = 0 THEN active ELSE Replay(f[k - 1], effs[k])]

LEMMA ReplayExists ==
  ASSUME NEW active, NEW effs, Len(effs) \in Nat
  PROVE  \E f : IsReplay(f, active, effs)
<1> DEFINE Step(g, k) == IF k = 0 THEN active ELSE Replay(g[k - 1], effs[k])
           UpTo(g, n) == g = [k \in 0..n |-> Step(g, k)]
           T == {n \in Nat : \E g : UpTo(g, n)}
<1>1. 0 \in T
  <2>1. UpTo([k \in 0..0 |-> active], 0)
    OBVIOUS
  <2>2. QED
    BY <2>1
<1>2. ASSUME NEW n \in Nat, n \in T PROVE n + 1 \in T
  <2>1. PICK g : UpTo(g, n)
    BY <1>2
  <2> DEFINE d == Replay(g[n], effs[n + 1])
             h == [k \in 0..(n + 1) |-> IF k = n + 1 THEN d ELSE g[k]]
  <2>2. \A k \in 0..n : g[k] = Step(g, k)
    BY <2>1
  <2>3. d = Step(h, n + 1)
    <3>1. h[n] = g[n]
      OBVIOUS
    <3>2. (n + 1) - 1 = n /\ n + 1 # 0
      OBVIOUS
    <3> HIDE DEF h
    <3>3. QED
      BY <3>1, <3>2
  <2> HIDE DEF d
  <2>4. \A k \in 0..n : h[k] = g[k]
    OBVIOUS
  <2>5. h[n + 1] = d
    OBVIOUS
  <2>6. ASSUME NEW k \in 0..(n + 1) PROVE h[k] = Step(h, k)
    <3> HIDE DEF h
    <3>1. CASE k = n + 1
      BY <2>3, <2>5, <3>1
    <3>2. CASE k # n + 1
      <4>1. k \in 0..n /\ (k # 0 => k - 1 \in 0..n)
        BY <3>2
      <4>2. QED
        BY <2>2, <2>4, <4>1
    <3>3. QED
      BY <3>1, <3>2
  <2>7. UpTo(h, n + 1)
    <3>1. h = [k \in 0..(n + 1) |-> h[k]]
      OBVIOUS
    <3> HIDE DEF h, Step
    <3>2. h = [k \in 0..(n + 1) |-> Step(h, k)]
      BY <2>6, <3>1
    <3>3. QED
      BY <3>2
  <2> HIDE DEF UpTo, h
  <2>8. QED
    BY <2>7
<1>3. Len(effs) \in T
  <2> HIDE DEF T
  <2>1. QED
    BY <1>1, <1>2, Induction
<1>4. PICK g : UpTo(g, Len(effs))
  BY <1>3
<1>5. IsReplay(g, active, effs)
  BY <1>4 DEF IsReplay
<1>6. QED
  BY <1>5

\* f[k] is active after the first k effects.
Scans(f, active, effs) ==
    /\ f[0] = active
    /\ \A k \in Nat : k + 1 <= Len(effs) => f[k + 1] = Replay(f[k], effs[k + 1])

LEMMA ReplayScan ==
  ASSUME NEW active, NEW effs, Len(effs) \in Nat
  PROVE  \E f : Scans(f, active, effs) /\ ReplayAll(active, effs) = f[Len(effs)]
<1> DEFINE f == CHOOSE g : IsReplay(g, active, effs)
<1>1. IsReplay(f, active, effs)
  BY ReplayExists
<1>2. ReplayAll(active, effs) = f[Len(effs)]
  BY DEF ReplayAll, IsReplay
<1> HIDE DEF f
<1>3. f[0] = active
  BY <1>1 DEF IsReplay
<1>4. ASSUME NEW k \in Nat, k + 1 <= Len(effs) PROVE f[k + 1] = Replay(f[k], effs[k + 1])
  <2>1. k + 1 \in 0..Len(effs) /\ k + 1 # 0 /\ (k + 1) - 1 = k
    BY <1>4
  <2>2. QED
    BY <1>1, <2>1 DEF IsReplay
<1>5. QED
  BY <1>2, <1>3, <1>4 DEF Scans

\* Effects are replayed one part after the other.
LEMMA ReplayConcat ==
  ASSUME NEW active, NEW E, NEW first \in Seq(E), NEW second \in Seq(E)
  PROVE  ReplayAll(active, first \o second) = ReplayAll(ReplayAll(active, first), second)
<1> DEFINE both == first \o second
           a == Len(first)
           b == Len(second)
<1>1. /\ a \in Nat /\ b \in Nat /\ Len(both) \in Nat /\ Len(both) = a + b
      /\ \A i \in 1..a : both[i] = first[i]
      /\ \A i \in 1..b : both[a + i] = second[i]
  OBVIOUS
<1>2. PICK f : Scans(f, active, both) /\ ReplayAll(active, both) = f[Len(both)]
  BY <1>1, ReplayScan
<1>3. PICK g : Scans(g, active, first) /\ ReplayAll(active, first) = g[a]
  BY <1>1, ReplayScan
<1>4. PICK h : Scans(h, g[a], second) /\ ReplayAll(g[a], second) = h[b]
  BY <1>1, ReplayScan
<1> HIDE DEF both
<1>5. /\ f[0] = active /\ g[0] = active /\ h[0] = g[a]
      /\ \A k \in Nat : k + 1 <= a + b => f[k + 1] = Replay(f[k], both[k + 1])
      /\ \A k \in Nat : k + 1 <= a => g[k + 1] = Replay(g[k], first[k + 1])
      /\ \A k \in Nat : k + 1 <= b => h[k + 1] = Replay(h[k], second[k + 1])
  BY <1>1, <1>2, <1>3, <1>4 DEF Scans
<1> HIDE DEF a, b
<1>6. \A n \in Nat : n <= a => f[n] = g[n]
  <2> DEFINE T == {n \in Nat : n <= a => f[n] = g[n]}
  <2>1. 0 \in T
    BY <1>5
  <2>2. ASSUME NEW n \in Nat, n \in T PROVE n + 1 \in T
    <3> SUFFICES ASSUME n + 1 <= a PROVE f[n + 1] = g[n + 1]
      OBVIOUS
    <3>1. f[n] = g[n] /\ n + 1 \in 1..a /\ n + 1 <= a + b
      BY <1>1, <2>2
    <3>2. f[n + 1] = Replay(f[n], both[n + 1]) /\ g[n + 1] = Replay(g[n], first[n + 1])
      BY <1>5, <3>1
    <3>3. QED
      BY <1>1, <3>1, <3>2
  <2> HIDE DEF T
  <2>3. \A n \in Nat : n \in T
    BY <2>1, <2>2, Induction
  <2>4. QED
    BY <2>3 DEF T
<1>7. \A n \in Nat : n <= b => f[a + n] = h[n]
  <2> DEFINE T == {n \in Nat : n <= b => f[a + n] = h[n]}
  <2>1. 0 \in T
    BY <1>1, <1>5, <1>6
  <2>2. ASSUME NEW n \in Nat, n \in T PROVE n + 1 \in T
    <3> SUFFICES ASSUME n + 1 <= b PROVE f[a + (n + 1)] = h[n + 1]
      OBVIOUS
    <3>1. f[a + n] = h[n] /\ n + 1 \in 1..b /\ a + n \in Nat /\ (a + n) + 1 <= a + b
          /\ (a + n) + 1 = a + (n + 1)
      BY <1>1, <2>2
    <3>2. f[(a + n) + 1] = Replay(f[a + n], both[(a + n) + 1])
          /\ h[n + 1] = Replay(h[n], second[n + 1])
      BY <1>5, <3>1
    <3>3. QED
      BY <1>1, <3>1, <3>2
  <2> HIDE DEF T
  <2>3. \A n \in Nat : n \in T
    BY <2>1, <2>2, Induction
  <2>4. QED
    BY <2>3 DEF T
<1>8. QED
  BY <1>1, <1>2, <1>3, <1>4, <1>7 DEF both, a, b

\* Exits of active states leave the others.
LEMMA ReplayExits ==
  ASSUME NEW active, NEW S \in SUBSET active, NEW d, IsListing(d, S)
  PROVE  ReplayAll(active, [i \in DOMAIN d |-> <<"exit", d[i]>>]) = active \ S
<1> DEFINE effs == [i \in DOMAIN d |-> <<"exit", d[i]>>]
           len == Len(d)
           Out(n) == {d[i] : i \in 1..n}
<1>1. len \in Nat /\ DOMAIN d = 1..len /\ \A i \in 1..len : d[i] \in S
  BY ListingNotEmpty
<1>2. \A i, j \in 1..len : d[i] = d[j] => i = j
  BY <1>1 DEF IsListing
<1>3. Out(len) = S
  BY <1>1 DEF IsListing
<1> HIDE DEF len
<1>4. Len(effs) = len /\ \A i \in 1..len : effs[i] = <<"exit", d[i]>>
  BY <1>1
<1> HIDE DEF effs
<1>5. PICK f : Scans(f, active, effs) /\ ReplayAll(active, effs) = f[Len(effs)]
  BY <1>1, <1>4, ReplayScan
<1>6. /\ f[0] = active
      /\ \A k \in Nat : k + 1 <= len => f[k + 1] = Replay(f[k], effs[k + 1])
  BY <1>4, <1>5 DEF Scans
<1> DEFINE T == {n \in Nat : n <= len => f[n] = active \ Out(n)}
<1>7. 0 \in T
  BY <1>6
<1>8. ASSUME NEW n \in Nat, n \in T PROVE n + 1 \in T
  <2> SUFFICES ASSUME n + 1 <= len PROVE f[n + 1] = active \ Out(n + 1)
    OBVIOUS
  <2>1. f[n] = active \ Out(n) /\ n + 1 \in 1..len /\ 1..n \subseteq 1..len
        /\ n + 1 \notin 1..n /\ 1..(n + 1) = 1..n \cup {n + 1}
    BY <1>1, <1>8
  <2>2. d[n + 1] \in f[n]
    BY <1>1, <1>2, <2>1
  <2>3. f[n + 1] = Replay(f[n], <<"exit", d[n + 1]>>)
    BY <1>4, <1>6, <2>1
  <2>4. f[n + 1] = f[n] \ {d[n + 1]}
    BY <2>2, <2>3 DEF Replay
  <2>5. Out(n + 1) = Out(n) \cup {d[n + 1]}
    BY <2>1
  <2> HIDE DEF Out
  <2>6. QED
    BY <2>1, <2>4, <2>5
<1> HIDE DEF T
<1>9. len \in T
  BY <1>1, <1>7, <1>8, Induction
<1>10. f[len] = active \ Out(len)
  BY <1>1, <1>9 DEF T
<1>11. QED
  BY <1>3, <1>4, <1>5, <1>10 DEF effs

\* Entries of inactive states add them.
LEMMA ReplayEntries ==
  ASSUME NEW active, NEW S, S \cap active = {}, NEW d, IsListing(d, S)
  PROVE  ReplayAll(active, [i \in DOMAIN d |-> <<"entry", d[i]>>]) = active \cup S
<1> DEFINE effs == [i \in DOMAIN d |-> <<"entry", d[i]>>]
           len == Len(d)
           In(n) == {d[i] : i \in 1..n}
<1>1. len \in Nat /\ DOMAIN d = 1..len /\ \A i \in 1..len : d[i] \in S
  BY ListingNotEmpty
<1>2. \A i, j \in 1..len : d[i] = d[j] => i = j
  BY <1>1 DEF IsListing
<1>3. In(len) = S
  BY <1>1 DEF IsListing
<1> HIDE DEF len
<1>4. Len(effs) = len /\ \A i \in 1..len : effs[i] = <<"entry", d[i]>>
  BY <1>1
<1> HIDE DEF effs
<1>5. PICK f : Scans(f, active, effs) /\ ReplayAll(active, effs) = f[Len(effs)]
  BY <1>1, <1>4, ReplayScan
<1>6. /\ f[0] = active
      /\ \A k \in Nat : k + 1 <= len => f[k + 1] = Replay(f[k], effs[k + 1])
  BY <1>4, <1>5 DEF Scans
<1> DEFINE T == {n \in Nat : n <= len => f[n] = active \cup In(n)}
<1>7. 0 \in T
  BY <1>6
<1>8. ASSUME NEW n \in Nat, n \in T PROVE n + 1 \in T
  <2> SUFFICES ASSUME n + 1 <= len PROVE f[n + 1] = active \cup In(n + 1)
    OBVIOUS
  <2>1. f[n] = active \cup In(n) /\ n + 1 \in 1..len /\ 1..n \subseteq 1..len
        /\ n + 1 \notin 1..n /\ 1..(n + 1) = 1..n \cup {n + 1}
    BY <1>1, <1>8
  <2>2. d[n + 1] \notin f[n]
    BY <1>1, <1>2, <2>1
  <2>3. f[n + 1] = Replay(f[n], <<"entry", d[n + 1]>>)
    BY <1>4, <1>6, <2>1
  <2>4. f[n + 1] = f[n] \cup {d[n + 1]}
    BY <2>2, <2>3 DEF Replay
  <2>5. In(n + 1) = In(n) \cup {d[n + 1]}
    BY <2>1
  <2> HIDE DEF In
  <2>6. QED
    BY <2>1, <2>4, <2>5
<1> HIDE DEF T
<1>9. len \in T
  BY <1>1, <1>7, <1>8, Induction
<1>10. f[len] = active \cup In(len)
  BY <1>1, <1>9 DEF T
<1>11. QED
  BY <1>3, <1>4, <1>5, <1>10 DEF effs

\* f takes the steps of G from x0 on.
Recurses(f, x0, n, G) ==
    /\ f = [k \in 0..n |-> f[k]]
    /\ f[0] = x0
    /\ \A k \in 1..n : f[k] = G[<<k, f[k - 1]>>]

LEMMA Recursion ==
  ASSUME NEW X, NEW x0 \in X, NEW n \in Nat, NEW G \in [(1..n) \X X -> X]
  PROVE  \E f \in [0..n -> X] : Recurses(f, x0, n, G)
<1> DEFINE Good(f, j) == f[0] = x0 /\ \A k \in 1..j : f[k] = G[<<k, f[k - 1]>>]
           T == {j \in Nat : j <= n => \E f \in [0..j -> X] : Good(f, j)}
<1>1. 0 \in T
  <2>1. [k \in 0..0 |-> x0] \in [0..0 -> X] /\ Good([k \in 0..0 |-> x0], 0)
    OBVIOUS
  <2> HIDE DEF Good
  <2>2. QED
    BY <2>1
<1>2. ASSUME NEW j \in Nat, j \in T PROVE j + 1 \in T
  <2> SUFFICES ASSUME j + 1 <= n PROVE \E f \in [0..(j + 1) -> X] : Good(f, j + 1)
    OBVIOUS
  <2>1. PICK g \in [0..j -> X] : Good(g, j)
    BY <1>2
  <2> DEFINE x == G[<<j + 1, g[j]>>]
             h == [k \in 0..(j + 1) |-> IF k = j + 1 THEN x ELSE g[k]]
  <2>2. x \in X
    OBVIOUS
  <2>3. (\A k \in 0..j : h[k] = g[k]) /\ h[j + 1] = x
    OBVIOUS
  <2>4. h \in [0..(j + 1) -> X]
    BY <2>2
  <2> HIDE DEF h
  <2>5. h[0] = x0
    BY <2>1, <2>3
  <2>6. ASSUME NEW k \in 1..(j + 1) PROVE h[k] = G[<<k, h[k - 1]>>]
    <3>1. CASE k = j + 1
      BY <2>3, <3>1
    <3>2. CASE k # j + 1
      <4>1. k \in 1..j /\ k \in 0..j /\ k - 1 \in 0..j
        BY <3>2
      <4>2. QED
        BY <2>1, <2>3, <4>1
    <3>3. QED
      BY <3>1, <3>2
  <2>7. QED
    BY <2>4, <2>5, <2>6
<1> HIDE DEF T
<1>3. n \in T
  BY <1>1, <1>2, Induction
<1>4. PICK f \in [0..n -> X] : Good(f, n)
  BY <1>3 DEF T
<1>5. QED
  BY <1>4 DEF Recurses

-----------------------------------------------------------------------------
(* The exits of a transition. *)

ExitOne(exits, p, root) ==
    IF IsPrefix(root, p) /\ ~Contains(exits, p) THEN Append(exits, p) ELSE exits

LEMMA ExitOneLists ==
  ASSUME NEW exits, NEW S, IsListing(exits, S), NEW p, NEW root
  PROVE  IsListing(ExitOne(exits, p, root), IF IsPrefix(root, p) THEN S \cup {p} ELSE S)
<1>1. DOMAIN exits = 1..Len(exits) /\ Len(exits) \in Nat
  BY ListingNotEmpty
<1>2. Contains(exits, p) <=> p \in S
  BY <1>1, ListingNotEmpty DEF Contains, IsListing
<1>3. CASE IsPrefix(root, p) /\ p \notin S
  BY <1>2, <1>3, ListingAppend DEF ExitOne
<1>4. CASE IsPrefix(root, p) /\ p \in S
  <2>1. S \cup {p} = S
    BY <1>4
  <2>2. QED
    BY <1>2, <1>4, <2>1 DEF ExitOne
<1>5. CASE ~IsPrefix(root, p)
  BY <1>5 DEF ExitOne
<1>6. QED
  BY <1>3, <1>4, <1>5

LEMMA ExitUpwardScan ==
  ASSUME NEW leaf \in Path, NEW root, NEW exits \in Seq(Path)
  PROVE  \E f : /\ f[0] = exits /\ ExitUpward(exits, leaf, root) = f[Len(leaf)]
                /\ \A k \in 1..Len(leaf) :
                       f[k] = ExitOne(f[k - 1], Take(leaf, Len(leaf) + 1 - k), root)
<1> DEFINE n == Len(leaf)
           X == Seq(Path)
           G == [z \in (1..n) \X X |-> ExitOne(z[2], Take(leaf, n + 1 - z[1]), root)]
           Scan(f) == f = [k \in 0..n |->
                              IF k = 0 THEN exits
                              ELSE LET p == Take(leaf, n + 1 - k)
                                   IN  IF IsPrefix(root, p) /\ ~Contains(f[k - 1], p)
                                       THEN Append(f[k - 1], p) ELSE f[k - 1]]
           f == CHOOSE g : Scan(g)
<1>1. n \in Nat
  BY PathIsNat
<1>2. G \in [(1..n) \X X -> X]
  <2> SUFFICES ASSUME NEW z \in (1..n) \X X
               PROVE  ExitOne(z[2], Take(leaf, n + 1 - z[1]), root) \in X
    OBVIOUS
  <2>1. z[2] \in X /\ n + 1 - z[1] \in 0..n
    BY <1>1
  <2>2. Take(leaf, n + 1 - z[1]) \in Path
    BY <2>1, TakeFacts
  <2>3. QED
    BY <2>1, <2>2 DEF ExitOne
<1>3. PICK g \in [0..n -> X] : Recurses(g, exits, n, G)
  <2>1. exits \in X
    OBVIOUS
  <2> HIDE DEF G, n, X, Scan, f
  <2>2. QED
    BY <1>1, <1>2, <2>1, Recursion
<1>4. \A k \in 1..n : g[k] = ExitOne(g[k - 1], Take(leaf, n + 1 - k), root)
  <2> SUFFICES ASSUME NEW k \in 1..n
               PROVE  g[k] = ExitOne(g[k - 1], Take(leaf, n + 1 - k), root)
    OBVIOUS
  <2>1. k - 1 \in 0..n
    BY <1>1
  <2>2. <<k, g[k - 1]>> \in (1..n) \X X
    BY <1>3, <2>1
  <2>3. g[k] = G[<<k, g[k - 1]>>]
    <3> HIDE DEF G
    <3>1. QED
      BY <1>3 DEF Recurses
  <2>4. QED
    BY <2>2, <2>3
<1> HIDE DEF G, n
<1>5. Scan(g)
  <2>1. g = [k \in 0..n |-> g[k]]
    BY <1>3
  <2>2. \A k \in 0..n : k # 0 => k \in 1..n
    BY <1>1
  <2>3. QED
    BY <1>3, <1>4, <2>1, <2>2 DEF Recurses, ExitOne
<1>6. Scan(f)
  <2> HIDE DEF Scan
  <2>1. QED
    BY <1>5
<1>7. ExitUpward(exits, leaf, root) = f[n]
  BY DEF ExitUpward, n
<1> HIDE DEF f
<1>8. f[0] = exits /\ \A k \in 1..n : f[k] = ExitOne(f[k - 1], Take(leaf, n + 1 - k), root)
  <2>1. 0 \in 0..n /\ \A k \in 1..n : k \in 0..n /\ k # 0
    BY <1>1
  <2>2. QED
    BY <1>6, <2>1 DEF ExitOne
<1>9. QED
  BY <1>7, <1>8 DEF n

\* The states from a leaf up to the root of the exit.
Upward(leaf, root) == {q \in {Take(leaf, j) : j \in 1..Len(leaf)} : IsPrefix(root, q)}

LEMMA ExitUpwardLists ==
  ASSUME NEW exits, NEW S \in SUBSET Path, IsListing(exits, S), NEW leaf \in Path, NEW root
  PROVE  IsListing(ExitUpward(exits, leaf, root), S \cup Upward(leaf, root))
<1> DEFINE n == Len(leaf)
           P(k) == Take(leaf, n + 1 - k)
           Up(k) == {q \in {P(i) : i \in 1..k} : IsPrefix(root, q)}
<1>1. n \in Nat /\ exits \in Seq(Path)
  BY PathIsNat DEF IsListing
<1>2. PICK f : /\ f[0] = exits /\ ExitUpward(exits, leaf, root) = f[n]
               /\ \A k \in 1..n : f[k] = ExitOne(f[k - 1], P(k), root)
  BY <1>1, ExitUpwardScan
<1>3. Up(n) = Upward(leaf, root)
  <2>1. {P(i) : i \in 1..n} = {Take(leaf, j) : j \in 1..n}
    <3>1. \A i \in 1..n : n + 1 - i \in 1..n /\ n + 1 - (n + 1 - i) = i
      BY <1>1
    <3> HIDE DEF n
    <3>2. QED
      BY <3>1
  <2>2. QED
    BY <2>1 DEF Upward
<1> HIDE DEF n, P
<1> DEFINE Fine(k) == k <= n => IsListing(f[k], S \cup Up(k))
           T == {k \in Nat : Fine(k)}
<1>4. 0 \in T
  <2>1. Up(0) = {}
    OBVIOUS
  <2> HIDE DEF Up
  <2>2. QED
    BY <1>2, <2>1
<1>5. ASSUME NEW k \in Nat, k \in T PROVE k + 1 \in T
  <2> SUFFICES ASSUME k + 1 <= n PROVE IsListing(f[k + 1], S \cup Up(k + 1))
    OBVIOUS
  <2>1. k + 1 \in 1..n /\ (k + 1) - 1 = k /\ k <= n
    BY <1>1
  <2>2. IsListing(f[k], S \cup Up(k)) /\ f[k + 1] = ExitOne(f[k], P(k + 1), root)
    BY <1>2, <1>5, <2>1
  <2>3. 1..(k + 1) = 1..k \cup {k + 1}
    OBVIOUS
  <2>4. Up(k + 1) = IF IsPrefix(root, P(k + 1)) THEN Up(k) \cup {P(k + 1)} ELSE Up(k)
    BY <2>3
  <2> HIDE DEF Up
  <2>5. IsListing(f[k + 1], IF IsPrefix(root, P(k + 1))
                            THEN (S \cup Up(k)) \cup {P(k + 1)} ELSE S \cup Up(k))
    BY <2>2, ExitOneLists
  <2>6. S \cup Up(k + 1) = IF IsPrefix(root, P(k + 1))
                           THEN (S \cup Up(k)) \cup {P(k + 1)} ELSE S \cup Up(k)
    BY <2>4
  <2>7. QED
    BY <2>5, <2>6
<1> HIDE DEF T
<1>6. n \in T
  BY <1>1, <1>4, <1>5, Induction
<1>7. IsListing(f[n], S \cup Up(n))
  BY <1>1, <1>6 DEF T
<1>8. QED
  BY <1>2, <1>3, <1>7

LEMMA UpwardPaths ==
  ASSUME NEW leaf \in Path, NEW root PROVE Upward(leaf, root) \in SUBSET Path
<1>1. ASSUME NEW j \in 1..Len(leaf) PROVE Take(leaf, j) \in Path
  <2>1. j \in 0..Len(leaf)
    BY PathIsNat
  <2>2. QED
    BY <2>1, TakeFacts
<1>2. QED
  BY <1>1 DEF Upward

LEMMA ExitsScan ==
  ASSUME NEW m, NEW v, NEW root, NEW leaves, leaves = LeavesInOrder(m, v),
         Len(leaves) \in Nat, \A i \in 1..Len(leaves) : leaves[i] \in Path
  PROVE  \E f : /\ f[0] = <<>> /\ CollectBottomUpExitEffects(m, v, root) = f[Len(leaves)]
                /\ \A i \in 1..Len(leaves) : f[i] = ExitUpward(f[i - 1], leaves[i], root)
<1> DEFINE n == Len(leaves)
           X == {d \in Seq(Path) : \E S \in SUBSET Path : IsListing(d, S)}
           G == [z \in (1..n) \X X |-> ExitUpward(z[2], leaves[z[1]], root)]
           Scan(g) == g = [i \in 0..n |-> IF i = 0 THEN <<>>
                                          ELSE ExitUpward(g[i - 1], leaves[i], root)]
           f == CHOOSE g : Scan(g)
<1>1. G \in [(1..n) \X X -> X]
  <2> SUFFICES ASSUME NEW k \in 1..n, NEW d \in X
               PROVE  ExitUpward(d, leaves[k], root) \in X
    OBVIOUS
  <2>1. PICK S \in SUBSET Path : IsListing(d, S)
    OBVIOUS
  <2> DEFINE U == Upward(leaves[k], root)
             e == ExitUpward(d, leaves[k], root)
  <2>2. U \in SUBSET Path
    BY UpwardPaths
  <2>3. IsListing(e, S \cup U)
    BY <2>1, ExitUpwardLists
  <2> HIDE DEF U, e
  <2>4. S \cup U \in SUBSET Path
    BY <2>2
  <2>5. e \in Seq(Path)
    BY <2>3, <2>4 DEF IsListing
  <2>6. QED
    BY <2>3, <2>4, <2>5 DEF e
<1>2. <<>> \in X
  <2>1. IsListing(<<>>, {})
    BY DEF IsListing
  <2>2. QED
    BY <2>1
<1>3. PICK g \in [0..n -> X] : Recurses(g, <<>>, n, G)
  <2> HIDE DEF G, X, Scan, f
  <2>1. QED
    BY <1>1, <1>2, Recursion
<1>4. \A i \in 1..n : g[i] = ExitUpward(g[i - 1], leaves[i], root)
  <2> SUFFICES ASSUME NEW i \in 1..n PROVE g[i] = ExitUpward(g[i - 1], leaves[i], root)
    OBVIOUS
  <2>1. i - 1 \in 0..n
    OBVIOUS
  <2>2. <<i, g[i - 1]>> \in (1..n) \X X
    <3> HIDE DEF X
    <3>1. QED
      BY <1>3, <2>1
  <2>3. g[i] = G[<<i, g[i - 1]>>]
    <3> HIDE DEF G
    <3>1. QED
      BY <1>3 DEF Recurses
  <2> HIDE DEF X
  <2>4. QED
    BY <2>2, <2>3
<1> HIDE DEF G, X
<1>5. Scan(g)
  <2>1. g = [i \in 0..n |-> g[i]] /\ g[0] = <<>>
    BY <1>3 DEF Recurses
  <2>2. \A i \in 0..n : i # 0 => i \in 1..n
    OBVIOUS
  <2>3. QED
    BY <1>4, <2>1, <2>2
<1>6. Scan(f)
  <2> HIDE DEF Scan
  <2>1. QED
    BY <1>5
<1>7. CollectBottomUpExitEffects(m, v, root) = f[n]
  BY DEF CollectBottomUpExitEffects
<1> HIDE DEF f
<1>8. f[0] = <<>> /\ \A i \in 1..n : f[i] = ExitUpward(f[i - 1], leaves[i], root)
  <2>1. 0 \in 0..n /\ \A i \in 1..n : i \in 0..n /\ i # 0
    OBVIOUS
  <2>2. QED
    BY <1>6, <2>1
<1>9. QED
  BY <1>7, <1>8

\* The exits are the active states below the root of the exit, each once.
LEMMA ExitsListed ==
  ASSUME NEW m, IsMachine(m), NEW v, GetActiveLeafPaths(m, v) \subseteq DOMAIN m.nodes,
         NEW root
  PROVE  IsListing(CollectBottomUpExitEffects(m, v, root),
                   {p \in ActiveStates(m, v) : IsPrefix(root, p)})
<1> DEFINE L == GetActiveLeafPaths(m, v)
           leaves == LeavesInOrder(m, v)
           n == Len(leaves)
           Up(k) == UNION {Upward(leaves[i], root) : i \in 1..k}
<1>1. leaves = DocumentOrder(m, L)
  <2>1. {IF p \in DOMAIN m.nodes THEN p ELSE Front(p) : p \in L} = L
    <3> HIDE DEF L
    <3>1. QED
      BY DEF L
  <2>2. QED
    BY <2>1 DEF LeavesInOrder
<1> HIDE DEF leaves
<1>2. IsListing(leaves, L)
  BY <1>1, StatesListed
<1>3. n \in Nat /\ DOMAIN leaves = 1..n /\ \A i \in 1..n : leaves[i] \in L
  BY <1>2, ListingNotEmpty
<1>4. \A i \in 1..n : leaves[i] \in Path
  BY <1>3, NodePath
<1>5. PICK f : /\ f[0] = <<>> /\ CollectBottomUpExitEffects(m, v, root) = f[n]
               /\ \A i \in 1..n : f[i] = ExitUpward(f[i - 1], leaves[i], root)
  BY <1>3, <1>4, ExitsScan DEF leaves
<1>6. Up(n) = {p \in ActiveStates(m, v) : IsPrefix(root, p)}
  <2>1. \A l \in L : \A p : p \in Upward(l, root) <=>
                            p \in DOMAIN m.nodes /\ IsPrefix(p, l) /\ IsPrefix(root, p)
    <3> SUFFICES ASSUME NEW l \in L, NEW p
                 PROVE  p \in Upward(l, root) <=>
                            p \in DOMAIN m.nodes /\ IsPrefix(p, l) /\ IsPrefix(root, p)
      OBVIOUS
    <3>1. l \in DOMAIN m.nodes /\ l \in Path /\ Len(l) \in Nat
      BY NodePath
    <3>2. ASSUME p \in Upward(l, root)
          PROVE  p \in DOMAIN m.nodes /\ IsPrefix(p, l) /\ IsPrefix(root, p)
      <4>1. PICK j \in 1..Len(l) : p = Take(l, j) /\ IsPrefix(root, p)
        BY <3>2 DEF Upward
      <4>2. j \in 0..Len(l)
        BY <3>1
      <4>3. p \in DOMAIN m.nodes /\ p \in Path /\ Len(p) = j
        BY <3>1, <4>1, <4>2, PrefixesAreNodes, TakeFacts
      <4>4. QED
        BY <3>1, <4>1, <4>2, <4>3, PrefixIsTake
    <3>3. ASSUME p \in DOMAIN m.nodes, IsPrefix(p, l), IsPrefix(root, p)
          PROVE  p \in Upward(l, root)
      <4>1. p \in Path /\ Len(p) \in Nat \ {0}
        BY <3>3, NodePath
      <4>2. Len(p) <= Len(l) /\ p = Take(l, Len(p))
        BY <3>1, <3>3, <4>1, PrefixIsTake
      <4>3. Len(p) \in 1..Len(l)
        BY <3>1, <4>1, <4>2
      <4>4. QED
        BY <3>3, <4>2, <4>3 DEF Upward
    <3>4. QED
      BY <3>2, <3>3
  <2>2. L = {leaves[i] : i \in 1..n}
    BY <1>2, <1>3 DEF IsListing
  <2>3. Up(n) = UNION {Upward(l, root) : l \in L}
    BY <2>2
  <2> HIDE DEF Up, n
  <2>4. ActiveStates(m, v) = {p \in DOMAIN m.nodes : \E l \in L : IsPrefix(p, l)}
    BY DEF ActiveStates
  <2> HIDE DEF L
  <2>5. QED
    BY <2>1, <2>3, <2>4
<1> HIDE DEF n
<1> DEFINE Fine(k) == k <= n => IsListing(f[k], Up(k)) /\ Up(k) \in SUBSET Path
           T == {k \in Nat : Fine(k)}
<1>7. 0 \in T
  <2>1. Up(0) = {} /\ IsListing(<<>>, {})
    BY DEF IsListing
  <2> HIDE DEF Up
  <2>2. QED
    BY <1>5, <2>1
<1>8. ASSUME NEW k \in Nat, k \in T PROVE k + 1 \in T
  <2> SUFFICES ASSUME k + 1 <= n
               PROVE  IsListing(f[k + 1], Up(k + 1)) /\ Up(k + 1) \in SUBSET Path
    OBVIOUS
  <2>1. k + 1 \in 1..n /\ (k + 1) - 1 = k /\ k <= n
    BY <1>3
  <2>2. IsListing(f[k], Up(k)) /\ Up(k) \in SUBSET Path
        /\ f[k + 1] = ExitUpward(f[k], leaves[k + 1], root)
    BY <1>5, <1>8, <2>1
  <2>3. 1..(k + 1) = 1..k \cup {k + 1}
    OBVIOUS
  <2>4. Up(k + 1) = Up(k) \cup Upward(leaves[k + 1], root)
    BY <2>3
  <2> HIDE DEF Up
  <2>5. leaves[k + 1] \in Path
    BY <1>4, <2>1
  <2>6. IsListing(f[k + 1], Up(k) \cup Upward(leaves[k + 1], root))
    BY <2>2, <2>5, ExitUpwardLists
  <2>7. QED
    BY <2>2, <2>4, <2>5, <2>6, UpwardPaths
<1> HIDE DEF T
<1>9. n \in T
  BY <1>3, <1>7, <1>8, Induction
<1>10. IsListing(f[n], Up(n))
  BY <1>3, <1>9 DEF T
<1>11. QED
  BY <1>5, <1>6, <1>10

\* What is left is what is active below the sibling of the target.
LEMMA LeftIsBelow ==
  ASSUME NEW m, NEW C, NEW s, NEW t, Applies(m, C, s, t)
  PROVE  Left(m, C, s, t) = {p \in C : IsPrefix(Take(s, CommonLen(s, t) + 1), p)}
<1> DEFINE c == CommonLen(s, t)
           root == Take(s, c + 1)
<1>1. IsMachine(m) /\ Accepted(m) /\ IsConfig(m, C) /\ s \in C
  BY DEF Applies
<1>2. /\ s \in Path /\ Len(s) \in Nat \ {0} /\ t \in Path /\ Len(t) \in Nat \ {0}
      /\ c \in Nat /\ c < Len(s) /\ c < Len(t) /\ Take(s, c) = Take(t, c)
      /\ Take(t, c) \in C \cup {<<>>}
  BY AppliesFacts
<1>3. IsParallel(m, Take(t, c)) => Take(t, c + 1) = root
  <2>1. c \in c..(Len(t) - 1)
    BY <1>2
  <2>2. QED
    BY <2>1, RebuiltRegion
<1>4. /\ c \in 0..Len(s) /\ c + 1 \in 0..Len(s) /\ c + 1 \in 1..Len(s) /\ c \in 0..(Len(s) - 1)
      /\ c \in 0..Len(t) /\ c + 1 \in 0..Len(t) /\ c \in 0..(c + 1) /\ c + 1 \in 1..(c + 1)
  BY <1>2
<1>5. root \in C /\ root \in DOMAIN m.nodes /\ root \in Path /\ Len(root) = c + 1
      /\ Take(root, c) = Take(t, c)
  <2>1. root \in C
    BY <1>1, <1>4, ConfigStates
  <2>2. root \in DOMAIN m.nodes
    BY <1>1, <2>1, ConfigStates
  <2>3. root \in Path /\ Len(root) = c + 1
    BY <1>2, <1>4, TakeFacts
  <2>4. Take(root, c) = Take(s, c)
    BY <1>2, <1>4, TakeTake
  <2>5. QED
    BY <1>2, <2>1, <2>2, <2>3, <2>4
<1>6. root \in Children(m, Take(t, c))
  <2>1. Take(s, c + 1) \in Children(m, Take(s, c))
    BY <1>1, <1>2, <1>4, <1>5, NextKeyIsChild
  <2>2. QED
    BY <1>2, <2>1
<1>7. IsParallel(m, Take(t, c)) => root[c + 1] = t[c + 1]
  <2>1. Take(t, c + 1)[c + 1] = t[c + 1]
    BY <1>2, <1>4, TakeFacts
  <2>2. QED
    BY <1>3, <2>1
<1> HIDE DEF root, c
<1>8. ASSUME NEW p \in C, Len(p) > c, Take(p, c) = Take(t, c),
             IsParallel(m, Take(t, c)) => p[c + 1] = t[c + 1]
      PROVE  IsPrefix(root, p)
  <2>1. p \in Path /\ Len(p) \in Nat
    BY <1>1, ConfigStates
  <2>2. c + 1 \in 1..Len(p) /\ c + 1 \in 0..Len(p) /\ c \in 0..Len(p) /\ c \in 0..(Len(p) - 1)
    BY <1>2, <1>8, <2>1
  <2> DEFINE r == Take(p, c + 1)
  <2>3. r \in C /\ r \in DOMAIN m.nodes
    BY <1>1, <2>2, ConfigStates
  <2>4. r \in Children(m, Take(t, c))
    <3>1. r \in Children(m, Take(p, c))
      BY <1>1, <2>1, <2>2, <2>3, NextKeyIsChild
    <3>2. QED
      BY <1>8, <3>1
  <2>5. r \in Path /\ Len(r) = c + 1 /\ r[c + 1] = p[c + 1] /\ Take(r, c) = Take(p, c)
    BY <1>4, <2>1, <2>2, TakeFacts, TakeTake
  <2> HIDE DEF r
  <2>6. r = root
    <3>1. CASE IsParallel(m, Take(t, c))
      <4>1. r[c + 1] = root[c + 1]
        BY <1>7, <1>8, <2>5, <3>1
      <4>2. \A i \in 1..c : r[i] = root[i]
        <5>1. Take(r, c) = Take(root, c) /\ c <= Len(r) /\ c <= Len(root)
          BY <1>2, <1>5, <1>8, <2>5
        <5>2. QED
          BY <1>2, <1>5, <2>5, <5>1, TakeEqual
      <4>3. \A i \in 1..Len(r) : r[i] = root[i]
        BY <1>2, <2>5, <4>1, <4>2
      <4>4. QED
        BY <1>5, <2>5, <4>3, PathEqual
    <3>2. CASE ~IsParallel(m, Take(t, c))
      <4>1. ~IsLeaf(m, Take(t, c))
        <5>1. CASE Take(t, c) = <<>>
          BY <1>1, <5>1, RootFacts
        <5>2. CASE Take(t, c) # <<>>
          <6>1. Take(t, c) \in DOMAIN m.nodes
            BY <1>1, <1>2, <5>2, ConfigStates
          <6>2. QED
            BY <1>1, <1>6, <6>1, AcceptedNode
        <5>3. QED
          BY <5>1, <5>2
      <4>2. ChildrenOK(m, C, Take(t, c))
        BY <1>1, <1>2 DEF IsConfig
      <4>3. PICK x : Children(m, Take(t, c)) \cap C = {x}
        BY <3>2, <4>1, <4>2 DEF ChildrenOK
      <4>4. QED
        BY <1>5, <1>6, <2>3, <2>4, <4>3
    <3>3. QED
      BY <3>1, <3>2
  <2>7. Len(root) <= Len(p) /\ root = Take(p, Len(root))
    BY <1>2, <1>5, <2>1, <2>2, <2>6 DEF r
  <2>8. QED
    BY <1>5, <2>1, <2>7, PrefixIsTake
<1>9. ASSUME NEW p \in C, IsPrefix(root, p)
      PROVE  /\ Len(p) > c /\ Take(p, c) = Take(t, c)
             /\ IsParallel(m, Take(t, c)) => p[c + 1] = t[c + 1]
  <2>1. p \in Path /\ Len(p) \in Nat
    BY <1>1, ConfigStates
  <2>2. Len(root) <= Len(p) /\ root = Take(p, Len(root))
    BY <1>5, <1>9, <2>1, PrefixIsTake
  <2>3. c + 1 <= Len(p) /\ root = Take(p, c + 1) /\ c + 1 \in 0..Len(p) /\ Len(p) > c
    BY <1>2, <1>5, <2>1, <2>2
  <2>4. root[c + 1] = p[c + 1] /\ Take(root, c) = Take(p, c)
    BY <1>4, <2>1, <2>3, TakeFacts, TakeTake
  <2>5. QED
    BY <1>5, <1>7, <2>3, <2>4
<1>10. Left(m, C, s, t) = {p \in C : /\ Len(p) > c /\ Take(p, c) = Take(t, c)
                                     /\ IsParallel(m, Take(t, c)) => p[c + 1] = t[c + 1]}
  BY DEF Left, c
<1>11. Left(m, C, s, t) = {p \in C : IsPrefix(root, p)}
  BY <1>8, <1>9, <1>10
<1>12. QED
  BY <1>11 DEF root, c

\* Replaying the exits and entries of a transition leads to the states that
\* are active afterwards.
LEMMA TransitionReplayed ==
  ASSUME NEW m, NEW C, NEW s, NEW t, Applies(m, C, s, t)
  PROVE  LET effs == ExitsAndEntries(m, Words(m, C), s, t)
         IN  effs \in Seq(Effects(m)) /\ ReplayAll(C, effs) = After(m, C, s, t)
<1> DEFINE c == CommonLen(s, t)
           v == Words(m, C)
           d == CollectBottomUpExitEffects(m, v, Take(s, c + 1))
           above == {Take(t, k) : k \in (c + 1)..(Len(t) - 1)}
           entered == above \cup EnterSubtree(m, t)
           n == DocumentOrder(m, entered)
           exits == [i \in DOMAIN d |-> <<"exit", d[i]>>]
           entries == [i \in DOMAIN n |-> <<"entry", n[i]>>]
           L == Left(m, C, s, t)
<1>1. /\ IsMachine(m) /\ Accepted(m) /\ Scoped(m) /\ IsConfig(m, C) /\ t \in DOMAIN m.nodes
      /\ C \subseteq DOMAIN m.nodes
  BY DEF Applies, IsConfig
<1>2. /\ t \in Path /\ Len(t) \in Nat \ {0} /\ c \in Nat /\ c < Len(t)
  BY AppliesFacts
<1>3. ExitsAndEntries(m, v, s, t) = exits \o entries
  BY DEF ExitsAndEntries
<1>4. IsListing(d, L)
  <2>1. GetActiveLeafPaths(m, v) \subseteq DOMAIN m.nodes
    BY <1>1, LeavesOfConfig
  <2>2. IsListing(d, {p \in ActiveStates(m, v) : IsPrefix(Take(s, c + 1), p)})
    <3> HIDE DEF v
    <3>1. QED
      BY <1>1, <2>1, ExitsListed
  <2>3. ActiveStates(m, v) = C
    BY <1>1, ActiveOfConfig
  <2> HIDE DEF d, v
  <2>4. QED
    BY <2>2, <2>3, LeftIsBelow
<1>5. L \in SUBSET C
  BY DEF Left
<1>6. entered = PathTo(s, t) \cup EnterSubtree(m, t)
  <2>1. (c + 1)..Len(t) = ((c + 1)..(Len(t) - 1)) \cup {Len(t)}
    BY <1>2
  <2>2. PathTo(s, t) = above \cup {t}
    BY <1>2, <2>1, TakeAll DEF PathTo
  <2>3. t \in EnterSubtree(m, t)
    BY <1>1, SubtreeTop
  <2>4. QED
    BY <2>2, <2>3
<1> HIDE DEF d, n, entered, L
<1>7. entered \cap (C \ L) = {}
  <2>1. ASSUME NEW q \in EnterSubtree(m, t) PROVE q \notin C \ L
    BY EnteredIsBelow DEF L
  <2>2. ASSUME NEW q \in PathTo(s, t) PROVE q \notin C \ L
    <3>1. PICK k \in (CommonLen(s, t) + 1)..Len(t) : q = Take(t, k)
      BY DEF PathTo
    <3>2. QED
      BY <3>1, PathIsBelow DEF L
  <2>3. QED
    BY <1>6, <2>1, <2>2
<1>8. After(m, C, s, t) = (C \ L) \cup entered
  BY <1>6 DEF After, L
<1>9. entered \in SUBSET DOMAIN m.nodes
  <2>1. After(m, C, s, t) \subseteq DOMAIN m.nodes
    BY AfterIsConfig DEF IsConfig
  <2>2. QED
    BY <1>8, <2>1
<1>10. IsListing(n, entered)
  BY <1>1, <1>9, StatesListed DEF n
<1>11. ReplayAll(C, exits) = C \ L
  BY <1>4, <1>5, ReplayExits
<1>12. ReplayAll(C \ L, entries) = (C \ L) \cup entered
  BY <1>7, <1>10, ReplayEntries
<1>13. exits \in Seq(Effects(m))
  <2>1. d \in Seq(L) /\ L \subseteq DOMAIN m.nodes
    BY <1>1, <1>4, <1>5 DEF IsListing
  <2>2. DOMAIN d = 1..Len(d) /\ Len(d) \in Nat /\ \A i \in 1..Len(d) : d[i] \in DOMAIN m.nodes
    BY <2>1
  <2>3. QED
    BY <2>2 DEF Effects
<1>14. entries \in Seq(Effects(m))
  <2>1. n \in Seq(entered)
    BY <1>10 DEF IsListing
  <2>2. DOMAIN n = 1..Len(n) /\ Len(n) \in Nat /\ \A i \in 1..Len(n) : n[i] \in DOMAIN m.nodes
    BY <1>9, <2>1
  <2>3. QED
    BY <2>2 DEF Effects
<1> HIDE DEF exits, entries
<1>15. ReplayAll(C, exits \o entries) = ReplayAll(ReplayAll(C, exits), entries)
  BY <1>13, <1>14, ReplayConcat
<1>16. exits \o entries \in Seq(Effects(m))
  BY <1>13, <1>14
<1>17. QED
  BY <1>3, <1>8, <1>11, <1>12, <1>15, <1>16
-----------------------------------------------------------------------------
(* Steps in the making. *)

\* A transition that respects the regions takes a configuration to one.
LEMMA TransitionConfigured ==
  ASSUME NEW m, IsMachine(m), Accepted(m), Scoped(m), NEW step,
         Configured(m, step.value), NEW s \in ActiveStates(m, step.value), NEW ref,
         ref # NoRef => /\ ResolveTargetStatePath(m, s, ref) \in DOMAIN m.nodes
                        /\ Aligned(m, s, ResolveTargetStatePath(m, s, ref))
  PROVE  Configured(m, TakeTransition(m, step, s, ref).value)
<1> DEFINE t == ResolveTargetStatePath(m, s, ref)
<1>1. CASE ref = NoRef
  BY <1>1 DEF TakeTransition
<1>2. CASE ref # NoRef
  <2>1. TakeTransition(m, step, s, ref).value = NextStateValue(m, step.value, s, t)
    BY <1>2 DEF TakeTransition
  <2>2. t \in DOMAIN m.nodes /\ Aligned(m, s, t)
    BY <1>2
  <2> HIDE DEF t
  <2>3. QED
    BY <2>1, <2>2, NextConfigured
<1>3. QED
  BY <1>1, <1>2

\* Replaying the effects so far on the states of A leads to the active states.
Replays(m, A, step) ==
    /\ Configured(m, step.value)
    /\ step.effects \in Seq(Effects(m))
    /\ ReplayAll(A, step.effects) = ActiveStates(m, step.value)

LEMMA NothingReplays ==
  ASSUME NEW m, NEW v, Configured(m, v)
  PROVE  Replays(m, ActiveStates(m, v), Working(v))
<1> DEFINE A == ActiveStates(m, v)
           none == Working(v).effects
<1>1. none = <<>> /\ Working(v).value = v
  BY DEF Working
<1>2. Len(none) = 0 /\ none \in Seq(Effects(m))
  BY <1>1
<1> HIDE DEF none
<1>3. PICK f : Scans(f, A, none) /\ ReplayAll(A, none) = f[Len(none)]
  BY <1>2, ReplayScan
<1>4. ReplayAll(A, none) = A
  BY <1>2, <1>3 DEF Scans
<1>5. QED
  BY <1>1, <1>2, <1>4 DEF Replays, none

LEMMA TransitionReplays ==
  ASSUME NEW m, IsMachine(m), Accepted(m), Scoped(m), NEW A, NEW step,
         Replays(m, A, step), NEW s \in ActiveStates(m, step.value), NEW ref,
         ref # NoRef => /\ ResolveTargetStatePath(m, s, ref) \in DOMAIN m.nodes
                        /\ Aligned(m, s, ResolveTargetStatePath(m, s, ref))
  PROVE  Replays(m, A, TakeTransition(m, step, s, ref))
<1> DEFINE t == ResolveTargetStatePath(m, s, ref)
           C == ActiveStates(m, step.value)
           effs == ExitsAndEntries(m, step.value, s, t)
           next == TakeTransition(m, step, s, ref)
<1>1. /\ Configured(m, step.value) /\ step.effects \in Seq(Effects(m))
      /\ ReplayAll(A, step.effects) = C
  BY DEF Replays
<1>2. CASE ref = NoRef
  BY <1>2 DEF TakeTransition
<1>3. CASE ref # NoRef
  <2>1. next.value = NextStateValue(m, step.value, s, t) /\ next.effects = step.effects \o effs
    BY <1>3 DEF TakeTransition
  <2>2. t \in DOMAIN m.nodes /\ Aligned(m, s, t)
    BY <1>3
  <2> HIDE DEF t, next
  <2>3. /\ Applies(m, C, s, t) /\ Configured(m, NextStateValue(m, step.value, s, t))
        /\ ActiveStates(m, NextStateValue(m, step.value, s, t)) = After(m, C, s, t)
    BY <1>1, <2>2, NextConfigured
  <2>4. step.value = Words(m, C)
    BY <1>1 DEF Configured
  <2> HIDE DEF C
  <2>5. effs \in Seq(Effects(m)) /\ ReplayAll(C, effs) = After(m, C, s, t)
    BY <2>3, <2>4, TransitionReplayed
  <2> HIDE DEF effs
  <2>6. ReplayAll(A, step.effects \o effs) = ReplayAll(C, effs)
    BY <1>1, <2>5, ReplayConcat
  <2>7. step.effects \o effs \in Seq(Effects(m))
    BY <1>1, <2>5
  <2>8. QED
    BY <2>1, <2>3, <2>5, <2>6, <2>7 DEF Replays, next
<1>4. QED
  BY <1>2, <1>3

\* A target that an edge leads to when it succeeds respects the regions.
LEMMA EdgeTarget ==
  ASSUME NEW m, IsMachine(m), Accepted(m), Scoped(m), NEW s \in DOMAIN m.nodes,
         NEW edge \in EdgesOf(m.nodes[s]), NEW ref \in SuccessTargets(edge),
         ~Throws(m, s, ref), ref # NoRef
  PROVE  /\ ResolveTargetStatePath(m, s, ref) \in DOMAIN m.nodes
         /\ Aligned(m, s, ResolveTargetStatePath(m, s, ref))
<1>1. Resolvable(m, s, ref)
  BY DEF Throws
<1>2. ResolveTargetStatePath(m, s, ref) \in DOMAIN m.nodes
  BY <1>1, ResolvedIsNode
<1>3. QED
  BY <1>2, ScopedAligned

LEMMA EdgeReplays ==
  ASSUME NEW m, IsMachine(m), Accepted(m), Scoped(m), NEW A, NEW step,
         Replays(m, A, step), NEW s \in ActiveStates(m, step.value),
         NEW edge \in EdgesOf(m.nodes[s]), NEW ref \in SuccessTargets(edge),
         ~Throws(m, s, ref)
  PROVE  Replays(m, A, TakeTransition(m, step, s, ref))
<1>1. s \in DOMAIN m.nodes
  BY DEF ActiveStates
<1>2. QED
  BY <1>1, EdgeTarget, TransitionReplays

\* The states of other regions that handle the event too stay active.
LEMMA OthersStay ==
  ASSUME NEW m, IsMachine(m), Accepted(m), Scoped(m), NEW step,
         Configured(m, step.value), NEW e,
         NEW s \in ActiveStates(m, step.value), e \in DOMAIN m.nodes[s].on,
         NEW x \in ActiveStates(m, step.value), e \in DOMAIN m.nodes[x].on,
         Incomparable(s, x), NEW ref \in SuccessTargets(m.nodes[s].on[e]),
         ~Throws(m, s, ref)
  PROVE  x \in ActiveStates(m, TakeTransition(m, step, s, ref).value)
<1> DEFINE edge == m.nodes[s].on[e]
           t == ResolveTargetStatePath(m, s, ref)
           C == ActiveStates(m, step.value)
<1>1. s \in DOMAIN m.nodes /\ x \in DOMAIN m.nodes
  BY DEF ActiveStates
<1>2. edge \in EdgesOf(m.nodes[s])
  BY DEF EdgesOf
<1>3. CASE ref = NoRef
  BY <1>3 DEF TakeTransition
<1>4. CASE ref # NoRef
  <2>1. TakeTransition(m, step, s, ref).value = NextStateValue(m, step.value, s, t)
    BY <1>4 DEF TakeTransition
  <2>2. t \in DOMAIN m.nodes /\ Aligned(m, s, t)
    <3>1. ref \in SuccessTargets(edge)
      OBVIOUS
    <3> HIDE DEF edge
    <3>2. QED
      BY <1>1, <1>2, <1>4, <3>1, EdgeTarget
  <2>3. Apart(m, s, x)
    BY ActiveApart DEF Configured
  <2>4. edge.event = e
    BY <1>1 DEF IsMachine, IsStateNode
  <2>5. RegionsOf(m, t) = RegionsOf(m, s)
    <3>1. \E q \in DOMAIN m.nodes : Apart(m, s, q) /\ edge.event \in DOMAIN m.nodes[q].on
      BY <1>1, <2>3, <2>4
    <3>2. ref \in SuccessTargets(edge)
      OBVIOUS
    <3> HIDE DEF edge
    <3>3. QED
      BY <1>1, <1>2, <1>4, <3>1, <3>2 DEF Scoped
  <2> HIDE DEF t
  <2>6. /\ Applies(m, C, s, t)
        /\ ActiveStates(m, NextStateValue(m, step.value, s, t)) = After(m, C, s, t)
    BY <2>2, NextConfigured
  <2>7. x \in After(m, C, s, t)
    <3> HIDE DEF C
    <3>1. x \in C
      BY DEF C
    <3>2. QED
      BY <2>5, <2>6, <3>1, StaysActive
  <2>8. QED
    BY <2>1, <2>6, <2>7
<1>5. QED
  BY <1>3, <1>4

\* The edges an event matches, taken in order.
LEMMA BroadcastReplays ==
  ASSUME NEW m, IsMachine(m), Accepted(m), Scoped(m), NEW v, Configured(m, v), NEW e,
         NEW sources, Len(sources) \in Nat, DOMAIN sources = 1..Len(sources),
         NEW refs, Chosen(m, e, sources, refs),
         \A k \in 1..Len(sources) :
             sources[k] \in ActiveStates(m, v) /\ e \in DOMAIN m.nodes[sources[k]].on,
         \A j, k \in 1..Len(sources) : j # k => Incomparable(sources[j], sources[k])
  PROVE  LET after == Broadcast(m, v, sources, refs)
         IN  /\ Replays(m, ActiveStates(m, v), after)
             /\ \A x \in ActiveStates(m, v) :
                    /\ e \in DOMAIN m.nodes[x].on
                    /\ \A j \in 1..Len(sources) : Incomparable(sources[j], x)
                    => x \in ActiveStates(m, after.value)
<1> DEFINE f == CHOOSE g : IsBroadcast(g, m, v, sources, refs)
           Untouched(n, x) == /\ e \in DOMAIN m.nodes[x].on
                              /\ \A j \in 1..n : Incomparable(sources[j], x)
           Stays(n) == \A x \in ActiveStates(m, v) :
                           Untouched(n, x) => x \in ActiveStates(m, f[n].value)
           A == ActiveStates(m, v)
           Fine(n) == n <= Len(sources) => Replays(m, A, f[n]) /\ Stays(n)
           T == {n \in Nat : Fine(n)}
<1>1. IsBroadcast(f, m, v, sources, refs)
  BY BroadcastExists
<1>2. Broadcast(m, v, sources, refs) = f[Len(sources)]
  BY DEF Broadcast, IsBroadcast
<1> HIDE DEF f
<1>3. f[0] = Working(v)
  BY <1>1 DEF IsBroadcast
<1>4. Fine(0)
  BY <1>3, NothingReplays DEF Working
<1>5. ASSUME NEW n \in Nat, Fine(n) PROVE Fine(n + 1)
  <2> SUFFICES ASSUME n + 1 <= Len(sources)
               PROVE  Replays(m, A, f[n + 1]) /\ Stays(n + 1)
    OBVIOUS
  <2>1. Replays(m, A, f[n]) /\ Configured(m, f[n].value) /\ Stays(n)
    BY <1>5 DEF Replays
  <2>2. n + 1 \in 1..Len(sources) /\ n + 1 \in 0..Len(sources) /\ (n + 1) - 1 = n
        /\ n + 1 # 0 /\ 1..n \subseteq 1..Len(sources) /\ n + 1 \notin 1..n
        /\ 1..n \subseteq 1..(n + 1) /\ n + 1 \in 1..(n + 1)
    OBVIOUS
  <2> DEFINE s == sources[n + 1]
             edge == m.nodes[s].on[e]
             ref == refs[n + 1]
  <2>3. f[n + 1] = TakeTransition(m, f[n], s, ref)
    BY <1>1, <2>2 DEF IsBroadcast
  <2>4. s \in ActiveStates(m, v) /\ e \in DOMAIN m.nodes[s].on
    BY <2>2
  <2>5. \A j \in 1..n : Incomparable(sources[j], s)
    BY <2>2
  <2>6. s \in ActiveStates(m, f[n].value)
    BY <2>1, <2>4, <2>5
  <2>7. /\ edge \in EdgesOf(m.nodes[s]) /\ ref \in SuccessTargets(edge)
        /\ ~Throws(m, s, ref)
    BY <2>2, <2>4, ChosenTargets DEF EdgesOf
  <2>8. Replays(m, A, f[n + 1])
    <3> HIDE DEF s, edge, ref, Stays, A
    <3>1. QED
      BY <2>1, <2>3, <2>6, <2>7, EdgeReplays
  <2>9. Stays(n + 1)
    <3> SUFFICES ASSUME NEW x \in ActiveStates(m, v), Untouched(n + 1, x)
                 PROVE  x \in ActiveStates(m, f[n + 1].value)
      OBVIOUS
    <3>1. Untouched(n, x) /\ Incomparable(s, x) /\ e \in DOMAIN m.nodes[x].on
      BY <2>2
    <3>2. x \in ActiveStates(m, f[n].value)
      BY <2>1, <3>1
    <3> HIDE DEF s, ref, Stays, Untouched
    <3>3. QED
      BY <2>1, <2>3, <2>4, <2>6, <2>7, <3>1, <3>2, OthersStay
  <2>10. QED
    BY <2>8, <2>9
<1>6. \A n \in Nat : Fine(n)
  <2> HIDE DEF Fine
  <2>1. 0 \in T /\ \A n \in Nat : n \in T => n + 1 \in T
    BY <1>4, <1>5
  <2> HIDE DEF T
  <2>2. \A n \in Nat : n \in T
    BY <2>1, Induction
  <2>3. QED
    BY <2>2 DEF T
<1>7. QED
  BY <1>2, <1>6
\* The edges an event matches start in active states of different regions.
LEMMA SourcesOfConfig ==
  ASSUME NEW m, IsMachine(m), Accepted(m), Scoped(m), NEW v, Configured(m, v), NEW e
  PROVE  LET sources == ResolveTransitionsForEvent(m, v, e)
         IN  /\ Len(sources) \in Nat /\ DOMAIN sources = 1..Len(sources)
             /\ \A k \in 1..Len(sources) :
                    /\ sources[k] \in ActiveStates(m, v)
                    /\ e \in DOMAIN m.nodes[sources[k]].on
             /\ \A j, k \in 1..Len(sources) :
                    j # k => Incomparable(sources[j], sources[k])
             /\ sources = <<>> <=> \A p \in ActiveStates(m, v) : e \notin DOMAIN m.nodes[p].on
<1> DEFINE C == ActiveStates(m, v)
           handling == {p \in Searched(m, v) : e \in DOMAIN m.nodes[p].on}
           S == {p \in handling : ~\E q \in handling : Above(p, q)}
           sources == ResolveTransitionsForEvent(m, v, e)
<1>1. sources = DocumentOrder(m, S)
  BY DEF ResolveTransitionsForEvent
<1>2. Searched(m, v) = C
  BY SearchedOfConfig DEF Configured
<1>3. C \subseteq DOMAIN m.nodes
  BY DEF ActiveStates
<1>4. handling = {p \in C : e \in DOMAIN m.nodes[p].on}
  BY <1>2
<1> HIDE DEF C
<1>5. handling \in SUBSET DOMAIN m.nodes /\ S \in SUBSET handling /\ S \in SUBSET DOMAIN m.nodes
  BY <1>3, <1>4
<1>6. ASSUME NEW p \in S, NEW q \in S, p # q PROVE Incomparable(p, q)
  <2>1. ~Above(p, q) /\ ~Above(q, p)
    OBVIOUS
  <2>2. QED
    BY <1>6, <2>1 DEF Above, IsStrictPrefix, Incomparable
<1>7. handling # {} => S # {}
  <2> SUFFICES ASSUME handling # {} PROVE S # {}
    OBVIOUS
  <2>1. PICK p \in handling : \A q \in handling : Len(q) <= Len(p)
    <3> HIDE DEF handling
    <3>1. QED
      BY <1>5, DeepestState
  <2>2. ASSUME NEW q \in handling, Above(p, q) PROVE FALSE
    <3>1. p \in Path /\ q \in Path /\ Len(p) \in Nat /\ Len(q) \in Nat
      <4> HIDE DEF handling
      <4>1. QED
        BY <1>5, NodePath
    <3>2. Len(p) <= Len(q) /\ p = Take(q, Len(p)) /\ p # q
      <4> HIDE DEF handling
      <4>1. QED
        BY <2>2, <3>1, PrefixIsTake DEF Above, IsStrictPrefix
    <3>3. Len(q) = Len(p)
      BY <2>1, <3>1, <3>2
    <3>4. QED
      BY <3>1, <3>2, <3>3, TakeAll
  <2>3. p \in S
    BY <2>1, <2>2
  <2>4. QED
    BY <2>3
<1> HIDE DEF S, sources
<1>8. IsListing(sources, S)
  BY <1>1, <1>5, StatesListed
<1>9. /\ Len(sources) \in Nat /\ DOMAIN sources = 1..Len(sources)
      /\ \A k \in 1..Len(sources) : sources[k] \in S
      /\ sources = <<>> <=> S = {}
  BY <1>8, ListingNotEmpty
<1>10. \A j, k \in 1..Len(sources) : j # k => sources[j] # sources[k]
  BY <1>8, <1>9 DEF IsListing
<1>11. \A p \in S : p \in C /\ e \in DOMAIN m.nodes[p].on
  BY <1>4, <1>5
<1>12. S = {} <=> \A p \in C : e \notin DOMAIN m.nodes[p].on
  BY <1>4, <1>5, <1>7
<1> HIDE DEF handling
<1>13. \A j, k \in 1..Len(sources) : j # k => Incomparable(sources[j], sources[k])
  BY <1>6, <1>9, <1>10
<1>14. QED
  BY <1>9, <1>11, <1>12, <1>13 DEF C, sources

LEMMA OnDoneReplays ==
  ASSUME NEW m, IsMachine(m), Accepted(m), Scoped(m), NEW A, NEW step, Replays(m, A, step)
  PROVE  Replays(m, A, OnDoneRound(m, step))
<1> DEFINE pending == FindPendingOnDone(m, step.value)
           s == CHOOSE p \in pending : TRUE
           edge == m.nodes[s].onDone
<1>1. OnDoneRound(m, step) = IF pending = {} \/ edge.target = NoRef THEN step
                             ELSE TakeTransition(m, step, s, edge.target)
  BY DEF OnDoneRound
<1>2. CASE pending = {} \/ edge.target = NoRef
  BY <1>1, <1>2
<1>3. CASE pending # {} /\ edge.target # NoRef
  <2>1. s \in pending
    BY <1>3
  <2>2. s \in ActiveStates(m, step.value) /\ HasOnDone(m.nodes[s])
    <3> HIDE DEF s
    <3>1. QED
      BY <2>1, PendingIsActive
  <2>3. edge \in EdgesOf(m.nodes[s])
    BY <2>2 DEF EdgesOf
  <2>4. s \in DOMAIN m.nodes
    BY <2>2 DEF ActiveStates
  <2> HIDE DEF s, edge
  <2>5. edge.target \in SuccessTargets(edge) /\ ~Throws(m, s, edge.target)
    BY <1>3, <2>3, <2>4, AcceptedNode DEF EdgeIssues, SuccessTargets, Throws
  <2>6. QED
    BY <1>1, <1>3, <2>2, <2>3, <2>5, EdgeReplays
<1>4. QED
  BY <1>2, <1>3

LEMMA CascadeReplays ==
  ASSUME NEW m, IsMachine(m), Accepted(m), Scoped(m), NEW A, NEW step, Replays(m, A, step),
         NEW rounds \in Nat
  PROVE  Replays(m, A, CascadeOnDone(m, step, rounds))
<1> DEFINE f == CHOOSE g : IsCascade(g, m, step, rounds)
           Fine(n) == n <= rounds => Replays(m, A, f[n])
           T == {n \in Nat : Fine(n)}
<1>1. IsCascade(f, m, step, rounds)
  BY CascadeExists
<1>2. CascadeOnDone(m, step, rounds) = f[rounds]
  BY DEF CascadeOnDone, IsCascade
<1> HIDE DEF f
<1>3. f[0] = step
  BY <1>1 DEF IsCascade
<1>4. Fine(0)
  BY <1>3
<1>5. ASSUME NEW n \in Nat, Fine(n) PROVE Fine(n + 1)
  <2> SUFFICES ASSUME n + 1 <= rounds PROVE Replays(m, A, f[n + 1])
    OBVIOUS
  <2>1. Replays(m, A, f[n])
    BY <1>5
  <2>2. n + 1 \in 0..rounds /\ (n + 1) - 1 = n /\ n + 1 # 0
    OBVIOUS
  <2>3. f[n + 1] = OnDoneRound(m, f[n])
    BY <1>1, <2>2 DEF IsCascade
  <2>4. QED
    BY <2>1, <2>3, OnDoneReplays
<1>6. \A n \in Nat : Fine(n)
  <2> HIDE DEF Fine
  <2>1. 0 \in T /\ \A n \in Nat : n \in T => n + 1 \in T
    BY <1>4, <1>5
  <2> HIDE DEF T
  <2>2. \A n \in Nat : n \in T
    BY <2>1, Induction
  <2>3. QED
    BY <2>2 DEF T
<1>7. QED
  BY <1>2, <1>6
\* The state of a new transaction.
LEMMA InitialIsConfig ==
  ASSUME NEW m, IsMachine(m), Accepted(m)
  PROVE  IsConfig(m, InitialStates(m))
<1> DEFINE roots == IF m.type = "parallel" THEN Regions(m, <<>>) ELSE {<<m.initial>>}
           I == InitialStates(m)
<1>1. I = UNION {EnterSubtree(m, r) : r \in roots}
  BY DEF InitialStates, Regions
<1>2. <<>> \in Path /\ Len(<<>>) = 0 /\ (IsParallel(m, <<>>) <=> m.type = "parallel")
  BY RootFacts
<1>3. ASSUME NEW r \in roots PROVE /\ r \in DOMAIN m.nodes /\ r \in Path /\ Len(r) = 1
                                  /\ r \in Children(m, <<>>)
  <2>1. CASE m.type = "parallel"
    <3>1. r \in Children(m, <<>>)
      BY <2>1 DEF Regions
    <3>2. r \in DOMAIN m.nodes /\ Len(r) = 1
      BY <1>2, <3>1 DEF Children
    <3>3. QED
      BY <3>1, <3>2, NodePath
  <2>2. CASE m.type # "parallel"
    <3>1. m.type = "compound" /\ r = <<m.initial>>
      BY <2>2 DEF IsMachine
    <3>2. r \in DOMAIN m.nodes /\ Len(r) = 1
      BY <3>1 DEF Accepted, RootIssues
    <3>3. r \in Path
      BY <3>2, NodePath
    <3>4. 0 \in 0..(Len(r) - 1) /\ 0 + 1 = Len(r)
      BY <3>2
    <3>5. Take(r, 0) = <<>> /\ Take(r, 0 + 1) = r
      BY <3>3, <3>4, TakeNone, TakeAll
    <3>6. r \in Children(m, <<>>)
      BY <3>2, <3>3, <3>4, <3>5, NextKeyIsChild
    <3>7. QED
      BY <3>2, <3>3, <3>6
  <2>3. QED
    BY <2>1, <2>2
<1> HIDE DEF roots, I
<1>4. ASSUME NEW p \in I
      PROVE  /\ p \in DOMAIN m.nodes /\ p \in Path /\ p # <<>> /\ Len(p) \in Nat \ {0}
             /\ \E r \in roots : p \in EnterSubtree(m, r)
  <2>1. PICK r \in roots : p \in EnterSubtree(m, r)
    BY <1>1
  <2>2. p \in DOMAIN m.nodes
    BY <2>1 DEF EnterSubtree
  <2>3. QED
    BY <2>1, <2>2, NodePath
<1>5. ASSUME NEW p \in I, NEW k \in 1..(Len(p) - 1)
      PROVE  Take(p, k) \in I /\ Enters(m, Take(p, k), Take(p, k + 1))
  <2>1. PICK r \in roots : p \in EnterSubtree(m, r)
    BY <1>4
  <2>2. k \in Len(r)..(Len(p) - 1) /\ r \in DOMAIN m.nodes
    BY <1>3
  <2>3. Take(p, k) \in EnterSubtree(m, r) /\ Enters(m, Take(p, k), Take(p, k + 1))
    BY <2>1, <2>2, SubtreeStep
  <2>4. QED
    BY <1>1, <2>3
<1>6. I \subseteq DOMAIN m.nodes
  BY <1>4
<1>7. ASSUME NEW p \in I, NEW k \in 1..Len(p) PROVE Take(p, k) \in I
  <2>1. CASE k = Len(p)
    BY <1>4, <2>1, TakeAll
  <2>2. CASE k # Len(p)
    <3>1. k \in 1..(Len(p) - 1)
      BY <1>4, <2>2
    <3>2. QED
      BY <1>5, <3>1
  <2>3. QED
    BY <2>1, <2>2
<1>8. ASSUME NEW p \in I PROVE ChildrenOK(m, I, p)
  <2>1. /\ p \in DOMAIN m.nodes /\ p \in Path /\ p # <<>> /\ Len(p) \in Nat \ {0}
        /\ \E r \in roots : p \in EnterSubtree(m, r)
    BY <1>4
  <2>2. ASSUME NEW q \in Children(m, p), q \in I PROVE Enters(m, p, q)
    <3>1. q \in Path /\ Len(q) = Len(p) + 1 /\ Take(q, Len(p)) = p
      BY <2>1, ChildFacts
    <3>2. Len(p) \in 1..(Len(q) - 1) /\ Len(p) + 1 = Len(q)
      BY <2>1, <3>1
    <3>3. Enters(m, Take(q, Len(p)), Take(q, Len(p) + 1))
      BY <1>5, <2>2, <3>2
    <3>4. QED
      BY <3>1, <3>2, <3>3, TakeAll
  <2>3. ASSUME NEW q \in Children(m, p), Enters(m, p, q) PROVE q \in I
    <3>1. PICK r \in roots : p \in EnterSubtree(m, r)
      BY <2>1
    <3>2. q \in EnterSubtree(m, r)
      BY <1>3, <2>3, <3>1, SubtreeChild
    <3>3. QED
      BY <1>1, <3>2
  <2>4. QED
    BY <2>1, <2>2, <2>3, ChildrenEntered
<1>9. Children(m, <<>>) \cap I = roots
  <2>1. ASSUME NEW q \in Children(m, <<>>), q \in I PROVE q \in roots
    <3>1. q \in DOMAIN m.nodes /\ Len(q) = 1
      BY <1>2 DEF Children
    <3>2. q \in Path
      BY <3>1, NodePath
    <3>3. PICK r \in roots : q \in EnterSubtree(m, r)
      BY <1>4, <2>1
    <3>4. r = Take(q, Len(r)) /\ Len(r) = 1
      BY <1>3, <3>3, SubtreeFacts
    <3>5. r = q
      BY <3>1, <3>2, <3>4, TakeAll
    <3>6. QED
      BY <3>5
  <2>2. ASSUME NEW r \in roots PROVE r \in Children(m, <<>>) /\ r \in I
    <3>1. r \in EnterSubtree(m, r)
      BY <1>3, SubtreeTop
    <3>2. QED
      BY <1>1, <1>3, <3>1
  <2>3. QED
    BY <2>1, <2>2
<1>10. ChildrenOK(m, I, <<>>)
  <2>1. CASE m.type = "parallel"
    BY <1>2, <1>9, <2>1 DEF ChildrenOK, roots
  <2>2. CASE m.type # "parallel"
    <3>1. Children(m, <<>>) \cap I = {<<m.initial>>}
      BY <1>9, <2>2 DEF roots
    <3>2. QED
      BY <1>2, <2>2, <3>1 DEF ChildrenOK
  <2>3. QED
    BY <2>1, <2>2
<1>11. QED
  BY <1>6, <1>7, <1>8, <1>10 DEF IsConfig, I

-----------------------------------------------------------------------------
(* The inductive invariant. *)

\* In a scoped machine the state value is the words of a configuration.
InConfiguration == status # None /\ Scoped(machine) => Configured(machine, value)

CInv == IInv /\ InConfiguration

LEMMA StartConfigured == IInv /\ Start => InConfiguration'
<1> SUFFICES ASSUME IInv, Start, Scoped(machine), machine' = machine
             PROVE  Configured(machine, value')
  BY CommitFacts DEF Start, InConfiguration, documents
<1>1. IsMachine(machine) /\ Accepted(machine)
  BY MachineLoaded DEF Start, IInv
<1>2. value' = ResolveInitialState(machine)
  BY DEF Start, Commit
<1>3. QED
  BY <1>1, <1>2, InitialIsConfig, WordsConfigured DEF ResolveInitialState

LEMMA SucceedReplays ==
  ASSUME CInv, NEW e \in Events, Succeed(e), Scoped(machine)
  PROVE  /\ Configured(machine, value') /\ machine' = machine
         /\ ReplayAll(ActiveStates(machine, value), effects') = ActiveStates(machine, value')
<1> DEFINE sources == ResolveTransitionsForEvent(machine, value, e)
<1>0. PICK refs :
          LET step == SuccessfulStep(machine, value, sources, refs)
          IN  /\ Chosen(machine, e, sources, refs)
              /\ Commit(step,
                        ResolveSettledTransactionStatus(machine, step.value, FALSE),
                        "succeeded")
  BY SucceedFacts
<1> DEFINE after == Broadcast(machine, value, sources, refs)
           step == CascadeOnDone(machine, after, OnDoneRounds)
           A == ActiveStates(machine, value)
<1>1. /\ machine' = machine /\ value' = step.value /\ effects' = step.effects
      /\ status # None /\ Chosen(machine, e, sources, refs)
  BY <1>0, SucceedFacts DEF SuccessfulStep, Commit, documents
<1>2. Accepted(machine) /\ IsMachine(machine) /\ Configured(machine, value)
  BY <1>1, MachineLoaded DEF CInv, InConfiguration, IInv, DocumentsOK
<1>3. /\ Len(sources) \in Nat /\ DOMAIN sources = 1..Len(sources)
      /\ \A k \in 1..Len(sources) : /\ sources[k] \in ActiveStates(machine, value)
                                    /\ e \in DOMAIN machine.nodes[sources[k]].on
      /\ \A j, k \in 1..Len(sources) : j # k => Incomparable(sources[j], sources[k])
  BY <1>2, SourcesOfConfig
<1> HIDE DEF sources
<1>4. Replays(machine, A, after)
  BY <1>1, <1>2, <1>3, BroadcastReplays
<1> HIDE DEF after, A
<1>5. OnDoneRounds \in Nat
  BY DEF OnDoneRounds
<1>6. Replays(machine, A, step)
  BY <1>2, <1>4, <1>5, CascadeReplays
<1> HIDE DEF step
<1>7. QED
  BY <1>1, <1>6 DEF Replays, A

\* The fallback of the k-th edge is taken on the working state of those before.
LEMMA FailConfigured ==
  ASSUME CInv, NEW e \in Events, Fail(e)
  PROVE  InConfiguration'
<1> DEFINE sources == ResolveTransitionsForEvent(machine, value, e)
<1>0. PICK k \in DOMAIN sources : \E refs : Failing(e, sources, refs, k)
  BY FailFacts
<1>00. PICK refs : Failing(e, sources, refs, k)
  BY <1>0
<1> DEFINE s == sources[k]
           edge == machine.nodes[s].on[e]
           policy == EffectivePolicy(machine, edge)
           ref == policy.failTarget
           first == Take(sources, k - 1)
           before == Broadcast(machine, value, first, refs)
           cleared == [before EXCEPT !.effects = <<>>]
           step == TakeTransition(machine, cleared, s, ref)
           newStatus == ResolveSettledTransactionStatus(machine, step.value,
                                                        policy.compensate)
           left == IF policy.compensate THEN "COMPENSATING" ELSE "IN_FLIGHT"
<1>1. /\ status # None /\ k \in DOMAIN sources /\ CanFail(machine, edge)
      /\ Chosen(machine, e, first, refs)
      /\ IF Resolvable(machine, s, ref) THEN Commit(step, newStatus, "failed")
         ELSE Commit(Working(value), left, "thrown")
  BY <1>00, FailFacts DEF Failing, FailedStep
<1>2. Accepted(machine) /\ IsMachine(machine)
  BY <1>1, MachineLoaded DEF CInv, IInv, DocumentsOK
<1>3. machine' = machine
  <2> HIDE DEF step, newStatus, left
  <2>1. QED
    BY <1>1, CommitFacts DEF documents
<1> SUFFICES ASSUME Scoped(machine) PROVE Configured(machine, value')
  BY <1>3 DEF InConfiguration
<1>4. Configured(machine, value)
  BY <1>1 DEF CInv, InConfiguration
<1>5. CASE ~Resolvable(machine, s, ref)
  <2>1. value' = value
    BY <1>1, <1>5 DEF Commit, Working
  <2>2. QED
    BY <1>4, <2>1
<1>6. CASE Resolvable(machine, s, ref)
  <2>1. value' = step.value
    <3> HIDE DEF step, newStatus
    <3>1. QED
      BY <1>1, <1>6, CommitFacts
  <2>2. /\ Len(sources) \in Nat /\ DOMAIN sources = 1..Len(sources)
        /\ \A i \in 1..Len(sources) : /\ sources[i] \in ActiveStates(machine, value)
                                      /\ e \in DOMAIN machine.nodes[sources[i]].on
        /\ \A i, j \in 1..Len(sources) : i # j => Incomparable(sources[i], sources[j])
    BY <1>2, <1>4, SourcesOfConfig
  <2> HIDE DEF sources
  <2>3. k \in 1..Len(sources)
    BY <1>1, <2>2
  <2>4. /\ Len(first) = k - 1 /\ DOMAIN first = 1..Len(first)
        /\ \A i \in 1..(k - 1) : first[i] = sources[i]
    <3>1. first = [i \in 1..(k - 1) |-> sources[i]]
      BY <2>3 DEF Take
    <3>2. QED
      BY <2>3, <3>1
  <2>5. 1..(k - 1) \subseteq 1..Len(sources) /\ k \notin 1..(k - 1) /\ k - 1 \in Nat
    BY <2>2, <2>3
  <2> HIDE DEF first
  <2>6. \A i \in 1..Len(first) :
            /\ first[i] \in ActiveStates(machine, value)
            /\ e \in DOMAIN machine.nodes[first[i]].on
            /\ Incomparable(first[i], s)
    BY <2>2, <2>3, <2>4, <2>5
  <2>7. \A i, j \in 1..Len(first) : i # j => Incomparable(first[i], first[j])
    BY <2>2, <2>4, <2>5
  <2>8. s \in ActiveStates(machine, value) /\ e \in DOMAIN machine.nodes[s].on
    BY <2>2, <2>3
  <2>9. Configured(machine, before.value) /\ s \in ActiveStates(machine, before.value)
    <3>1. Len(first) \in Nat
      BY <2>4, <2>5
    <3> HIDE DEF s
    <3>2. QED
      BY <1>1, <1>2, <1>4, <2>4, <2>6, <2>7, <2>8, <3>1, BroadcastReplays DEF Replays
  <2>10. cleared.value = before.value
    <3>1. "value" \in DOMAIN before
      BY <2>4, <2>5, BroadcastFields
    <3> HIDE DEF before
    <3>2. QED
      BY <3>1
  <2>11. s \in DOMAIN machine.nodes /\ edge \in EdgesOf(machine.nodes[s])
    BY <2>8 DEF ActiveStates, EdgesOf
  <2>12. ref # NoRef => /\ ResolveTargetStatePath(machine, s, ref) \in DOMAIN machine.nodes
                        /\ Aligned(machine, s, ResolveTargetStatePath(machine, s, ref))
    <3>1. /\ ResolveTargetStatePath(machine, s, ref) \in DOMAIN machine.nodes
          /\ ~Throws(machine, s, ref)
      BY <1>2, <1>6, ResolvedIsNode DEF Throws
    <3> HIDE DEF s, edge
    <3>2. QED
      BY <1>1, <2>11, <3>1, ScopedAligned
  <2> HIDE DEF cleared, s, ref
  <2>13. Configured(machine, step.value)
    BY <1>2, <2>9, <2>10, <2>12, TransitionConfigured
  <2>14. QED
    BY <2>1, <2>13
<1>7. QED
  BY <1>5, <1>6

LEMMA CInvStep == CInv /\ [Next]_vars => CInv'
<1> SUFFICES ASSUME CInv, [Next]_vars PROVE CInv'
  OBVIOUS
<1>1. IInv'
  BY IInvStep DEF CInv
<1>2. CASE UNCHANGED vars
  BY <1>1, <1>2 DEF CInv, InConfiguration, vars
<1>3. CASE Start
  BY <1>1, <1>3, StartConfigured DEF CInv
<1>4. ASSUME NEW e \in Events, Succeed(e) PROVE CInv'
  <2>1. machine' = machine
    BY <1>4, SucceedFacts, CommitFacts DEF documents
  <2>2. InConfiguration'
    BY <1>4, <2>1, SucceedReplays DEF InConfiguration
  <2>3. QED
    BY <1>1, <2>2 DEF CInv
<1>5. ASSUME NEW e \in Events, ReturnsUnresolved(e) PROVE CInv'
  <2>1. /\ status # None /\ machine' = machine /\ value' = value
    BY <1>5 DEF ReturnsUnresolved, Commit, Working, documents
  <2>2. QED
    BY <1>1, <2>1 DEF CInv, InConfiguration
<1>6. ASSUME NEW e \in Events, Fail(e) PROVE CInv'
  BY <1>1, <1>6, FailConfigured DEF CInv
<1>7. QED
  BY <1>2, <1>3, <1>4, <1>5, <1>6 DEF Next

LEMMA CInvInvariant == Spec => []CInv
<1>1. Init => CInv
  BY IInvInit DEF Init, CInv, InConfiguration
<1>2. QED
  BY <1>1, CInvStep, PTL DEF Spec

-----------------------------------------------------------------------------
(* Its consequences. *)

\* Whatever is fired and fails, in any order, applyTargetTransition keeps the
\* state value a configuration of the tree: exactly one child of every active
\* compound state, all regions of every active parallel one.
THEOREM LegalConfigurationHolds == Spec => []LegalConfiguration
<1>1. CInv => LegalConfiguration
  <2> SUFFICES ASSUME CInv, status # None, Scoped(machine)
               PROVE  IsConfiguration(machine, value)
    BY DEF LegalConfiguration
  <2>1. Accepted(machine) /\ IsMachine(machine) /\ Configured(machine, value)
    BY MachineLoaded DEF CInv, InConfiguration, IInv, DocumentsOK
  <2>2. QED
    BY <2>1, ConfigIsConfiguration DEF Configured
<1>2. QED
  BY <1>1, CInvInvariant, PTL

\* getAvailableEvents, which looks at the active states, and transition, which
\* searches the tree along the state value, agree on which events are handled.
THEOREM AvailableEventsExactHolds == Spec => []AvailableEventsExact
<1>1. CInv => AvailableEventsExact
  <2> SUFFICES ASSUME CInv, status # None, Scoped(machine), NEW e \in Events
               PROVE  e \in GetAvailableEvents(machine, value) <=>
                          ResolveTransitionsForEvent(machine, value, e) # <<>>
    BY DEF AvailableEventsExact
  <2>1. Accepted(machine) /\ IsMachine(machine) /\ Configured(machine, value)
    BY MachineLoaded DEF CInv, InConfiguration, IInv, DocumentsOK
  <2>2. ResolveTransitionsForEvent(machine, value, e) = <<>> <=>
            \A p \in ActiveStates(machine, value) : e \notin DOMAIN machine.nodes[p].on
    BY <2>1, SourcesOfConfig
  <2>3. \A p \in ActiveStates(machine, value) :
            NodeType(machine, p) = "final" => DOMAIN machine.nodes[p].on = {}
    BY <2>1, AcceptedNode DEF ActiveStates
  <2>4. e \in GetAvailableEvents(machine, value) <=>
            \E p \in ActiveStates(machine, value) : e \in DOMAIN machine.nodes[p].on
    BY <2>3 DEF GetAvailableEvents
  <2>5. QED
    BY <2>2, <2>4
<1>2. QED
  BY <1>1, CInvInvariant, PTL

\* The exit and entry effects of an event that succeeds, of all its matched
\* edges and of the onDone cascade, account for the change of the active
\* states: collectBottomUpExitEffects exits each state that is left once, and
\* no state is entered that is still active.
THEOREM EffectsReplayHolds == Spec => EffectsReplay
<1> DEFINE A == outcome' = "succeeded" /\ Scoped(machine) =>
                    ReplayAll(ActiveStates(machine, value), effects')
                        = ActiveStates(machine, value')
<1>1. CInv /\ [Next]_vars => [A]_vars
  <2> SUFFICES ASSUME CInv, [Next]_vars, vars' # vars, outcome' = "succeeded",
                      Scoped(machine)
               PROVE  ReplayAll(ActiveStates(machine, value), effects')
                          = ActiveStates(machine, value')
    OBVIOUS
  <2>1. ASSUME Start PROVE FALSE
    <3>1. outcome' = "started"
      BY <2>1 DEF Start, Commit
    <3>2. QED
      BY <3>1
  <2>2. ASSUME NEW e \in Events, Fail(e) \/ ReturnsUnresolved(e) PROVE FALSE
    BY <2>2, FailStep, ReturnStep DEF CInv
  <2>3. ASSUME NEW e \in Events, Succeed(e)
        PROVE  ReplayAll(ActiveStates(machine, value), effects')
                   = ActiveStates(machine, value')
    BY <2>3, SucceedReplays
  <2>4. QED
    BY <2>1, <2>2, <2>3 DEF Next
<1>2. QED
  BY <1>1, CInvInvariant, PTL DEF Spec, EffectsReplay
=============================================================================
