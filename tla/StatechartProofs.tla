------------------------- MODULE StatechartProofs ---------------------------
(***************************************************************************)
(* Proofs about StatechartRun, for every set of documents and events: a    *)
(* state value never leaves a set of states that is closed under entering, *)
(* targets and fail targets (InClosedSets, the inductive invariant), all   *)
(* states form such a set, and so do those the editor's search reaches.    *)
(***************************************************************************)
EXTENDS StatechartRun, FiniteSetTheorems, WellFoundedInduction, TLAPS

\* Paths and words.  (That "error" is a string is not known to the provers.)
Path == Seq(STRING \cup {"error"})

LEMMA StringsArePaths == Seq(STRING) \subseteq Path
BY DEF Path

LEMMA LessWellFounded == IsWellFoundedOn({p \in Nat \X Nat : p[1] < p[2]}, Nat)
<1>1. IsWellFoundedOn(OpToRel(<, Nat), Nat)
  BY NatLessThanWellFounded
<1>2. {p \in Nat \X Nat : p[1] < p[2]} = OpToRel(<, Nat)
  BY DEF OpToRel
<1>3. QED
  BY <1>1, <1>2

LEMMA LeastElement ==
  ASSUME NEW T \in SUBSET Nat, T # {}
  PROVE  \E x \in T : \A y \in T : x <= y
<1> DEFINE R == {p \in Nat \X Nat : p[1] < p[2]}
<1>1. PICK x \in T : \A y \in T : ~(<<y, x>> \in R)
  BY LessWellFounded, WFMin
<1>2. \A y \in T : ~(y < x)
  BY <1>1 DEF R
<1>3. QED
  BY <1>2

LEMMA Induction ==
  ASSUME NEW S, 0 \in S, \A n \in Nat : n \in S => n + 1 \in S
  PROVE  \A n \in Nat : n \in S
<1> DEFINE T == Nat \ S
<1>1. SUFFICES ASSUME T # {} PROVE FALSE
  OBVIOUS
<1>2. PICK x \in T : \A y \in T : x <= y
  BY <1>1, LeastElement
<1>3. x # 0 /\ x - 1 \in Nat /\ x - 1 \notin T
  BY <1>2
<1>4. QED
  BY <1>2, <1>3

LEMMA GreatestElement ==
  ASSUME NEW N \in Nat, NEW T \in SUBSET (0..N), T # {}
  PROVE  \E x \in T : \A y \in T : y <= x
<1> DEFINE U == {n \in Nat : N - n \in T}
<1>1. U # {} /\ U \in SUBSET Nat
  <2>1. PICK y \in T : TRUE
    OBVIOUS
  <2>2. N - y \in U
    BY <2>1
  <2>3. QED
    BY <2>2
<1>2. PICK n \in U : \A k \in U : n <= k
  BY <1>1, LeastElement
<1>3. \A y \in T : N - y \in U
  OBVIOUS
<1>4. N - n \in T /\ \A y \in T : y <= N - n
  BY <1>2, <1>3
<1>5. QED
  BY <1>4

LEMMA PathEqual ==
  ASSUME NEW p \in Path, NEW q \in Path, Len(p) = Len(q),
         \A i \in 1..Len(p) : p[i] = q[i]
  PROVE  p = q
BY DEF Path

LEMMA TakeFacts ==
  ASSUME NEW p \in Path, NEW k \in 0..Len(p)
  PROVE  /\ Take(p, k) \in Path
         /\ Len(Take(p, k)) = k
         /\ \A i \in 1..k : Take(p, k)[i] = p[i]
BY DEF Path, Take

LEMMA TakeTake ==
  ASSUME NEW p \in Path, NEW k \in 0..Len(p), NEW j \in 0..k
  PROVE  Take(Take(p, k), j) = Take(p, j)
<1>1. Take(p, k) \in Path /\ Len(Take(p, k)) = k
  BY TakeFacts
<1>2. Take(p, j) \in Path /\ Len(Take(p, j)) = j
  BY TakeFacts
<1>3. j \in 0..Len(Take(p, k))
  BY <1>1
<1>4. Take(Take(p, k), j) \in Path /\ Len(Take(Take(p, k), j)) = j
  BY <1>1, <1>3, TakeFacts
<1>5. \A i \in 1..j : Take(Take(p, k), j)[i] = Take(p, j)[i]
  BY <1>1, <1>3, TakeFacts
<1>6. QED
  BY <1>2, <1>4, <1>5, PathEqual

LEMMA TakeAll == ASSUME NEW p \in Path PROVE Take(p, Len(p)) = p
<1>1. Len(p) \in 0..Len(p)
  BY DEF Path
<1>2. QED
  BY <1>1, TakeFacts, PathEqual

LEMMA TakeNone == ASSUME NEW p \in Path PROVE Take(p, 0) = <<>>
BY DEF Path, Take

LEMMA TakeEqual ==
  ASSUME NEW p \in Path, NEW q \in Path, NEW k \in Nat, k <= Len(p), k <= Len(q)
  PROVE  Take(p, k) = Take(q, k) <=> \A i \in 1..k : p[i] = q[i]
<1>1. k \in 0..Len(p) /\ k \in 0..Len(q)
  OBVIOUS
<1>2. /\ Take(p, k) \in Path /\ Len(Take(p, k)) = k
      /\ \A i \in 1..k : Take(p, k)[i] = p[i]
  BY <1>1, TakeFacts
<1>3. /\ Take(q, k) \in Path /\ Len(Take(q, k)) = k
      /\ \A i \in 1..k : Take(q, k)[i] = q[i]
  BY <1>1, TakeFacts
<1>4. QED
  BY <1>2, <1>3, PathEqual

LEMMA PrefixIsTake ==
  ASSUME NEW p \in Path, NEW q \in Path
  PROVE  IsPrefix(p, q) <=> Len(p) <= Len(q) /\ p = Take(q, Len(p))
<1>1. Len(p) \in Nat /\ Len(q) \in Nat
  BY DEF Path
<1>2. IsPrefix(p, q) <=> Len(p) <= Len(q) /\ Take(p, Len(p)) = Take(q, Len(p))
  BY DEF IsPrefix, Take
<1>3. QED
  BY <1>2, TakeAll

LEMMA FrontIsTake ==
  ASSUME NEW p \in Path, p # <<>>
  PROVE  /\ Len(p) - 1 \in 0..Len(p) /\ Len(p) \in Nat \ {0}
         /\ Front(p) = Take(p, Len(p) - 1)
         /\ Front(p) \in Path /\ Len(Front(p)) = Len(p) - 1
<1>1. Len(p) - 1 \in 0..Len(p) /\ Len(p) \in Nat \ {0}
  BY DEF Path
<1>2. Front(p) = Take(p, Len(p) - 1)
  BY DEF Front, Take
<1>3. QED
  BY <1>1, <1>2, TakeFacts

-----------------------------------------------------------------------------
(* Document order. *)

\* f is the function DocumentOrder is the last value of.
IsFilter(f, order, S) ==
    f = [i \in 0..Len(order) |->
            IF i = 0 THEN <<>>
            ELSE IF order[i] \in S THEN Append(f[i - 1], order[i])
            ELSE f[i - 1]]

LEMMA FilterExists ==
  ASSUME NEW order, Len(order) \in Nat, NEW S
  PROVE  \E f : IsFilter(f, order, S)
<1> DEFINE Step(g, i) == IF i = 0 THEN <<>>
                         ELSE IF order[i] \in S THEN Append(g[i - 1], order[i])
                         ELSE g[i - 1]
           UpTo(g, n) == g = [i \in 0..n |-> Step(g, i)]
           T == {n \in Nat : \E g : UpTo(g, n)}
<1>1. 0 \in T
  <2>1. UpTo([i \in 0..0 |-> <<>>], 0)
    OBVIOUS
  <2> HIDE DEF UpTo
  <2>2. QED
    BY <2>1
<1>2. ASSUME NEW n \in Nat, n \in T PROVE n + 1 \in T
  <2>1. PICK f : UpTo(f, n)
    BY <1>2
  <2> DEFINE g == [i \in 0..(n + 1) |-> IF i <= n THEN f[i] ELSE Step(f, i)]
  <2>2. \A i \in 0..n : f[i] = Step(f, i)
    BY <2>1
  <2>3. \A i \in 0..(n + 1) : g[i] = IF i <= n THEN f[i] ELSE Step(f, i)
    <3> HIDE DEF Step
    <3>1. QED
      OBVIOUS
  <2>4. \A i \in 0..(n + 1) : Step(f, i) = Step(g, i)
    <3>1. \A i \in 0..(n + 1) : i # 0 => i - 1 \in 0..(n + 1) /\ i - 1 <= n
      OBVIOUS
    <3> HIDE DEF g
    <3>2. \A i \in 0..(n + 1) : i # 0 => g[i - 1] = f[i - 1]
      BY <2>3, <3>1
    <3>3. QED
      BY <3>2
  <2>5. \A i \in 0..(n + 1) : g[i] = Step(f, i)
    <3> HIDE DEF g, Step
    <3>1. QED
      BY <2>2, <2>3
  <2>6. UpTo(g, n + 1)
    BY <2>4, <2>5
  <2> HIDE DEF UpTo, g
  <2>7. QED
    BY <2>6
<1>3. Len(order) \in T
  <2> HIDE DEF T
  <2>1. QED
    BY <1>1, <1>2, Induction
<1>4. PICK g : UpTo(g, Len(order))
  BY <1>3
<1>5. IsFilter(g, order, S)
  BY <1>4 DEF IsFilter
<1>6. QED
  BY <1>5

\* The states of S in document order, each once.
IsListing(d, S) ==
    /\ d \in Seq(S)
    /\ \A p \in S : \E k \in DOMAIN d : d[k] = p
    /\ \A j, k \in DOMAIN d : d[j] = d[k] => j = k

LEMMA ListingAppend ==
  ASSUME NEW S, NEW d, IsListing(d, S), NEW p, p \notin S
  PROVE  IsListing(Append(d, p), S \cup {p})
<1>1. /\ Append(d, p) \in Seq(S \cup {p}) /\ Len(d) \in Nat
      /\ Len(Append(d, p)) = Len(d) + 1 /\ Append(d, p)[Len(d) + 1] = p
      /\ \A k \in 1..Len(d) : Append(d, p)[k] = d[k] /\ d[k] \in S
  BY DEF IsListing
<1>2. DOMAIN d = 1..Len(d) /\ DOMAIN Append(d, p) = 1..(Len(d) + 1)
  BY <1>1 DEF IsListing
<1>3. \A q \in S \cup {p} : \E k \in DOMAIN Append(d, p) : Append(d, p)[k] = q
  BY <1>1, <1>2 DEF IsListing
<1>4. \A j, k \in DOMAIN Append(d, p) :
          Append(d, p)[j] = Append(d, p)[k] => j = k
  <2> SUFFICES ASSUME NEW j \in 1..(Len(d) + 1), NEW k \in 1..(Len(d) + 1),
                      Append(d, p)[j] = Append(d, p)[k]
               PROVE  j = k
    BY <1>2
  <2>1. CASE j = Len(d) + 1 /\ k # Len(d) + 1
    <3>1. k \in 1..Len(d)
      BY <1>1, <2>1
    <3>2. QED
      BY <1>1, <2>1, <3>1
  <2>2. CASE j # Len(d) + 1 /\ k = Len(d) + 1
    <3>1. j \in 1..Len(d)
      BY <1>1, <2>2
    <3>2. QED
      BY <1>1, <2>2, <3>1
  <2>3. CASE j # Len(d) + 1 /\ k # Len(d) + 1
    <3>1. j \in 1..Len(d) /\ k \in 1..Len(d)
      BY <1>1, <2>3
    <3>2. QED
      BY <1>1, <1>2, <3>1 DEF IsListing
  <2>4. QED
    BY <2>1, <2>2, <2>3
<1>5. QED
  BY <1>1, <1>3, <1>4 DEF IsListing

LEMMA DocumentOrderLists ==
  ASSUME NEW m, NEW X, m.order \in Seq(X),
         \A i, j \in DOMAIN m.order : m.order[i] = m.order[j] => i = j,
         NEW S, \A p \in S : \E i \in DOMAIN m.order : m.order[i] = p
  PROVE  IsListing(DocumentOrder(m, S), S)
<1> DEFINE order == m.order
           f == CHOOSE g : IsFilter(g, order, S)
           Seen(n) == {p \in S : \E i \in 1..n : order[i] = p}
           Lists(n) == n <= Len(order) => IsListing(f[n], Seen(n))
           T == {n \in Nat : Lists(n)}
<1>1. Len(order) \in Nat /\ DOMAIN order = 1..Len(order)
  OBVIOUS
<1>2. DocumentOrder(m, S) = f[Len(order)]
  BY DEF DocumentOrder, IsFilter
<1>3. \A i \in 0..Len(order) :
          f[i] = IF i = 0 THEN <<>>
                 ELSE IF order[i] \in S THEN Append(f[i - 1], order[i])
                 ELSE f[i - 1]
  <2>1. IsFilter(f, order, S)
    BY <1>1, FilterExists
  <2> HIDE DEF f
  <2>2. QED
    BY <2>1 DEF IsFilter
<1> HIDE DEF f
<1>4. Lists(0)
  <2>1. f[0] = <<>>
    BY <1>1, <1>3
  <2>2. IsListing(<<>>, Seen(0))
    BY DEF IsListing
  <2>3. QED
    BY <2>1, <2>2
<1>5. ASSUME NEW n \in Nat, Lists(n) PROVE Lists(n + 1)
  <2> SUFFICES ASSUME n + 1 <= Len(order) PROVE IsListing(f[n + 1], Seen(n + 1))
    OBVIOUS
  <2>1. n + 1 \in 1..Len(order) /\ n + 1 \in 0..Len(order) /\ (n + 1) - 1 = n
    BY <1>1
  <2>2. f[n + 1] = IF order[n + 1] \in S THEN Append(f[n], order[n + 1]) ELSE f[n]
    BY <1>3, <2>1
  <2>3. IsListing(f[n], Seen(n))
    BY <1>1, <1>5, <2>1
  <2>4. CASE order[n + 1] \in S
    <3>1. order[n + 1] \notin Seen(n)
      BY <1>1, <2>1
    <3>2. Seen(n + 1) = Seen(n) \cup {order[n + 1]}
      BY <2>1, <2>4
    <3>3. QED
      BY <2>2, <2>3, <2>4, <3>1, <3>2, ListingAppend
  <2>5. CASE order[n + 1] \notin S
    <3>1. Seen(n + 1) = Seen(n)
      BY <2>1, <2>5
    <3>2. QED
      BY <2>2, <2>3, <2>5, <3>1
  <2>6. QED
    BY <2>4, <2>5
<1>6. Lists(Len(order))
  <2> HIDE DEF Lists
  <2>1. 0 \in T /\ \A n \in Nat : n \in T => n + 1 \in T
    BY <1>4, <1>5
  <2> HIDE DEF T
  <2>2. Len(order) \in T
    BY <1>1, <2>1, Induction
  <2>3. QED
    BY <2>2 DEF T
<1>7. IsListing(f[Len(order)], Seen(Len(order)))
  BY <1>1, <1>6
<1>8. Seen(Len(order)) = S
  BY <1>1
<1>9. QED
  BY <1>2, <1>7, <1>8

-----------------------------------------------------------------------------
(* Machines: what the two loaders make of a document. *)

IsMachine(m) ==
    /\ m.type \in {"compound", "parallel"} /\ m.implicitError \in BOOLEAN
    /\ DOMAIN m.nodes \subseteq Path
    /\ IsTree(m.nodes, m.order)
    /\ \A p \in DOMAIN m.nodes : IsStateNode(m.nodes[p]) /\ m.nodes[p].type # None
    /\ IsPartialPolicy(m.defaults) /\ IsPartialPolicy(m.global)
    /\ ErrorPath \in DOMAIN m.nodes
    /\ m.implicitError => m.nodes[ErrorPath] = ImplicitError

LEMMA ErrorIsPath ==
  /\ ErrorPath \in Path /\ ErrorPath # <<>> /\ Len(ErrorPath) = 1
  /\ DOMAIN ErrorPath = {1} /\ ErrorPath[1] # None
<1>1. "error" \in STRING \cup {"error"} /\ "error" # ""
  OBVIOUS
<1>2. ErrorPath = <<"error">>
  BY DEF ErrorPath
<1>3. ErrorPath \in Path
  BY <1>1, <1>2 DEF Path
<1>4. QED
  BY <1>1, <1>2, <1>3 DEF Path, None

LEMMA EmptyHasNoFields == DOMAIN <<>> = {}
OBVIOUS

LEMMA NoEdgeTyped ==
  IsTransition(NoEdge) /\ NoEdge.returns = {} /\ ~(NoEdge.event # None)
<1>1. /\ NoEdge.target = NoRef /\ NoEdge.policy = <<>> /\ NoEdge.decorator = <<>>
      /\ NoEdge.event = None /\ NoEdge.returns = {}
  BY DEF NoEdge
<1>2. IsPartialPolicy(<<>>)
  BY EmptyHasNoFields DEF IsPartialPolicy
<1>3. QED
  BY <1>1, <1>2 DEF IsTransition

LEMMA ImplicitErrorNode ==
  IsStateNode(ImplicitError) /\ ImplicitError.type # None
<1>1. /\ DOMAIN ImplicitError = {"type", "initial", "on", "onDone"}
      /\ ImplicitError.type = "final" /\ ImplicitError.on = <<>>
      /\ ImplicitError.onDone = NoEdge
  BY DEF ImplicitError
<1>2. QED
  BY <1>1, NoEdgeTyped, EmptyHasNoFields DEF IsStateNode, None

LEMMA NodesTyped ==
  ASSUME NEW raw, IsDocument(raw), NEW p \in DOMAIN raw.nodes
  PROVE  IsStateNode(ParseStateNode(raw, p)) /\ ParseStateNode(raw, p).type # None
<1>1. IsStateNode(raw.nodes[p])
  BY DEF IsDocument
<1> DEFINE node == raw.nodes[p]
           type == IF node.type # None THEN node.type
                   ELSE IF Children(raw, p) # {} THEN "compound" ELSE "atomic"
<1>2. ParseStateNode(raw, p) = [node EXCEPT !.type = type]
  BY DEF ParseStateNode
<1>3. type \in {"atomic", "compound", "parallel", "final"}
  BY <1>1 DEF IsStateNode, None
<1> HIDE DEF type
<1>4. /\ DOMAIN ParseStateNode(raw, p) = {"type", "initial", "on", "onDone"}
      /\ ParseStateNode(raw, p).type = type
      /\ ParseStateNode(raw, p).on = node.on
      /\ ParseStateNode(raw, p).onDone = node.onDone
  BY <1>1, <1>2 DEF IsStateNode
<1> HIDE DEF node
<1>5. QED
  BY <1>1, <1>3, <1>4 DEF IsStateNode, None, node

LEMMA TreeWithError ==
  ASSUME NEW nodes, NEW order, IsTree(nodes, order), ErrorPath \notin DOMAIN nodes
  PROVE  IsTree(WithImplicitError(nodes), Append(order, ErrorPath))
<1> DEFINE more == WithImplicitError(nodes)
           after == Append(order, ErrorPath)
<1>1. more = [p \in DOMAIN more |-> more[p]] /\ DOMAIN more = DOMAIN nodes \cup {ErrorPath}
  BY DEF WithImplicitError
<1>2. IsFiniteSet(DOMAIN more) /\ DOMAIN more # {}
  BY <1>1, FS_AddElement DEF IsTree
<1>3. ASSUME NEW p \in DOMAIN more
      PROVE  /\ p # <<>>
             /\ \A i \in DOMAIN p : p[i] # None
             /\ Len(p) > 1 => Front(p) \in DOMAIN more
  <2>1. CASE p \in DOMAIN nodes
    BY <1>1, <2>1 DEF IsTree
  <2>2. CASE p = ErrorPath
    BY <2>2, ErrorIsPath DEF Path
  <2>3. QED
    BY <1>1, <2>1, <2>2
<1>4. IsListing(order, DOMAIN nodes)
  BY DEF IsTree, IsListing
<1>5. IsListing(after, DOMAIN more)
  BY <1>1, <1>4, ListingAppend
<1> HIDE DEF more, after
<1>6. IsTree(more, after)
  BY <1>1, <1>2, <1>3, <1>5 DEF IsTree, IsListing
<1>7. QED
  BY <1>6 DEF more, after

LEMMA LoadedMachine ==
  ASSUME NEW raw, IsDocument(raw)
  PROVE  IsMachine(ParseYamlMachine(raw))
<1> DEFINE nodes == [p \in DOMAIN raw.nodes |-> ParseStateNode(raw, p)]
           m == ParseYamlMachine(raw)
<1>1. IsTree(nodes, raw.order)
  BY DEF IsDocument, IsTree
<1>2. /\ DOMAIN nodes \subseteq Path
      /\ \A p \in DOMAIN nodes : IsStateNode(nodes[p]) /\ nodes[p].type # None
  BY NodesTyped, StringsArePaths DEF IsDocument
<1>3. CASE ErrorPath \in DOMAIN nodes
  <2>1. m = [raw EXCEPT !.nodes = nodes]
    BY <1>3 DEF ParseYamlMachine
  <2> HIDE DEF nodes
  <2>2. /\ m.nodes = nodes /\ m.order = raw.order /\ m.type = raw.type
        /\ m.defaults = raw.defaults /\ m.global = raw.global
        /\ m.implicitError = raw.implicitError
    BY <2>1 DEF IsDocument
  <2> HIDE DEF m
  <2>3. ~m.implicitError /\ m.implicitError \in BOOLEAN
    BY <2>2 DEF IsDocument
  <2>4. QED
    BY <1>1, <1>2, <1>3, <2>2, <2>3 DEF IsMachine, IsDocument, m
<1>4. CASE ErrorPath \notin DOMAIN nodes
  <2>1. m = [raw EXCEPT !.nodes = WithImplicitError(nodes),
                        !.order = Append(@, ErrorPath), !.implicitError = TRUE]
    BY <1>4 DEF ParseYamlMachine
  <2> HIDE DEF nodes
  <2>2. /\ m.nodes = WithImplicitError(nodes) /\ m.order = Append(raw.order, ErrorPath)
        /\ m.type = raw.type /\ m.defaults = raw.defaults /\ m.global = raw.global
        /\ m.implicitError = TRUE
    BY <2>1 DEF IsDocument
  <2> HIDE DEF m
  <2>3. IsTree(m.nodes, m.order)
    BY <1>1, <1>4, <2>2, TreeWithError
  <2>4. /\ DOMAIN m.nodes \subseteq Path
        /\ \A p \in DOMAIN m.nodes : IsStateNode(m.nodes[p]) /\ m.nodes[p].type # None
    BY <1>2, <2>2, ErrorIsPath, ImplicitErrorNode DEF WithImplicitError
  <2>5. ErrorPath \in DOMAIN m.nodes /\ m.nodes[ErrorPath] = ImplicitError
    BY <1>4, <2>2 DEF WithImplicitError
  <2>6. QED
    BY <2>2, <2>3, <2>4, <2>5 DEF IsMachine, IsDocument, m
<1>5. QED
  BY <1>3, <1>4

LEMMA PathIsNat == ASSUME NEW p \in Path PROVE Len(p) \in Nat /\ DOMAIN p = 1..Len(p)
BY DEF Path

LEMMA NodePath ==
  ASSUME NEW m, IsMachine(m), NEW p \in DOMAIN m.nodes
  PROVE  /\ p \in Path /\ p # <<>> /\ Len(p) \in Nat \ {0}
         /\ <<>> \notin DOMAIN m.nodes
         /\ \A i \in 1..Len(p) : p[i] # None
<1>1. p \in Path /\ p # <<>> /\ <<>> \notin DOMAIN m.nodes
  BY DEF IsMachine, IsTree
<1>2. Len(p) \in Nat \ {0} /\ DOMAIN p = 1..Len(p)
  BY <1>1, FrontIsTake, PathIsNat
<1>3. \A i \in DOMAIN p : p[i] # None
  BY DEF IsMachine, IsTree
<1>4. QED
  BY <1>1, <1>2, <1>3

\* The states above a state are states.
LEMMA PrefixesAreNodes ==
  ASSUME NEW m, IsMachine(m), NEW p \in DOMAIN m.nodes, NEW k \in 1..Len(p)
  PROVE  Take(p, k) \in DOMAIN m.nodes
<1> DEFINE Up(n) == n < Len(p) => Take(p, Len(p) - n) \in DOMAIN m.nodes
           T == {n \in Nat : Up(n)}
<1>1. p \in Path /\ Len(p) \in Nat \ {0}
  BY NodePath
<1>2. Up(0)
  BY <1>1, TakeAll
<1>3. ASSUME NEW n \in Nat, Up(n) PROVE Up(n + 1)
  <2> SUFFICES ASSUME n + 1 < Len(p) PROVE Take(p, Len(p) - (n + 1)) \in DOMAIN m.nodes
    OBVIOUS
  <2> DEFINE j == Len(p) - n
             q == Take(p, j)
  <2>1. j \in 0..Len(p) /\ j > 1 /\ j - 1 \in 0..j /\ j - 1 = Len(p) - (n + 1)
    BY <1>1
  <2>2. q \in DOMAIN m.nodes
    BY <1>1, <1>3
  <2>3. q \in Path /\ Len(q) = j
    BY <1>1, <2>1, TakeFacts
  <2>4. Front(q) \in DOMAIN m.nodes
    BY <2>1, <2>2, <2>3 DEF IsMachine, IsTree
  <2>5. Front(q) = Take(q, j - 1)
    BY <2>2, <2>3, FrontIsTake, NodePath
  <2>6. Take(q, j - 1) = Take(p, j - 1)
    BY <1>1, <2>1, TakeTake
  <2>7. QED
    BY <2>1, <2>4, <2>5, <2>6
<1>4. \A n \in Nat : Up(n)
  <2> HIDE DEF Up
  <2>1. 0 \in T /\ \A n \in Nat : n \in T => n + 1 \in T
    BY <1>2, <1>3
  <2> HIDE DEF T
  <2>2. \A n \in Nat : n \in T
    BY <2>1, Induction
  <2>3. QED
    BY <2>2 DEF T
<1>5. Up(Len(p) - k) /\ Len(p) - (Len(p) - k) = k /\ Len(p) - k < Len(p)
  BY <1>1, <1>4
<1>6. QED
  BY <1>5

\* A state is listed at exactly one place, so every set of states is listed.
LEMMA StatesListed ==
  ASSUME NEW m, IsMachine(m), NEW S \in SUBSET DOMAIN m.nodes
  PROVE  IsListing(DocumentOrder(m, S), S)
BY DocumentOrderLists DEF IsMachine, IsTree

LEMMA ListingNotEmpty ==
  ASSUME NEW S, NEW d, IsListing(d, S)
  PROVE  /\ Len(d) \in Nat /\ DOMAIN d = 1..Len(d)
         /\ \A k \in 1..Len(d) : d[k] \in S
         /\ (d = <<>>) <=> (S = {})
         /\ S # {} => Head(d) \in S
<1>1. Len(d) \in Nat /\ DOMAIN d = 1..Len(d) /\ \A k \in 1..Len(d) : d[k] \in S
  BY DEF IsListing
<1>2. d = <<>> => S = {}
  BY DEF IsListing
<1>3. S = {} => d = <<>>
  BY <1>1 DEF IsListing
<1>4. S # {} => Head(d) \in S
  BY <1>1, <1>2 DEF IsListing
<1>5. QED
  BY <1>1, <1>2, <1>3, <1>4

-----------------------------------------------------------------------------
(* The two loaders make the same machine, and resolve references alike. *)

LEMMA SameMachine ==
  ASSUME NEW raw, IsDocument(raw)
  PROVE  ParseDfsmYaml(raw) = ParseYamlMachine(raw)
<1>1. ASSUME NEW p \in DOMAIN raw.nodes PROVE ParseStatePair(raw, p) = ParseStateNode(raw, p)
  <2>1. (\E q \in DOMAIN raw.nodes : Len(q) = Len(p) + 1 /\ Above(p, q))
            <=> Children(raw, p) # {}
    <3>1. \A q \in DOMAIN raw.nodes : Len(q) = Len(p) + 1 => p # q
      <4>1. p \in Path
        BY StringsArePaths DEF IsDocument
      <4>2. QED
        BY <4>1, PathIsNat
    <3>2. QED
      BY <3>1 DEF Children, Above, IsStrictPrefix
  <2>2. QED
    BY <2>1 DEF ParseStatePair, ParseStateNode, None
<1> DEFINE nodes == [p \in DOMAIN raw.nodes |-> ParseStateNode(raw, p)]
<1>2. [p \in DOMAIN raw.nodes |-> ParseStatePair(raw, p)] = nodes
  BY <1>1
<1> HIDE DEF nodes
<1>3. raw.implicitError = FALSE /\ DOMAIN raw = {"type", "initial", "order", "nodes",
          "defaults", "global", "implicitError"}
  BY DEF IsDocument
<1>4. CASE ErrorPath \in DOMAIN nodes
  <2>1. ParseDfsmYaml(raw) = [raw EXCEPT !.implicitError = FALSE, !.nodes = nodes,
                                         !.order = @]
    BY <1>2, <1>4 DEF ParseDfsmYaml
  <2>2. ParseYamlMachine(raw) = [raw EXCEPT !.nodes = nodes]
    BY <1>4 DEF ParseYamlMachine, nodes
  <2>3. QED
    BY <1>3, <2>1, <2>2
<1>5. CASE ErrorPath \notin DOMAIN nodes
  <2>1. ParseDfsmYaml(raw) = [raw EXCEPT !.implicitError = TRUE,
                                         !.nodes = WithImplicitError(nodes),
                                         !.order = Append(@, ErrorPath)]
    BY <1>2, <1>5 DEF ParseDfsmYaml
  <2>2. ParseYamlMachine(raw) = [raw EXCEPT !.nodes = WithImplicitError(nodes),
                                            !.order = Append(@, ErrorPath),
                                            !.implicitError = TRUE]
    BY <1>5 DEF ParseYamlMachine, nodes
  <2>3. QED
    BY <1>3, <2>1, <2>2
<1>6. QED
  BY <1>4, <1>5

LEMMA ResolvedIsNode ==
  ASSUME NEW m, IsMachine(m), NEW p, NEW ref
  PROVE  /\ ResolveTargetStatePath(m, p, ref) \in DOMAIN m.nodes \cup {<<>>}
         /\ Resolvable(m, p, ref) <=> ResolveTargetStatePath(m, p, ref) \in DOMAIN m.nodes
<1>1. <<>> \notin DOMAIN m.nodes
  BY DEF IsMachine, IsTree
<1>2. QED
  BY <1>1 DEF ResolveTargetStatePath, Resolvable

LEMMA SameTarget ==
  ASSUME NEW m, IsMachine(m), NEW p \in Path, NEW ref, ref.path # <<>>,
         ref.root \in BOOLEAN, ref.spelling \notin {"blanks", "gaps"}
  PROVE  ResolveStateTarget(m, p, ref) = ResolveTargetStatePath(m, p, ref)
<1> DEFINE sibling == Front(p) \o ref.path
           scoped == ~ref.root /\ Len(p) > 1
<1>1. Len(p) \in Nat
  BY PathIsNat
<1>2. CASE scoped
  <2> DEFINE found == {i \in DOMAIN <<sibling, ref.path>> :
                           <<sibling, ref.path>>[i] \in DOMAIN m.nodes}
  <2>1. ResolveStateTarget(m, p, ref) =
            IF found = {} THEN <<>> ELSE <<sibling, ref.path>>[Min(found)]
    <3>1. ~(ref.root \/ Len(p) < 2)
      BY <1>1, <1>2
    <3>2. QED
      BY <3>1 DEF ResolveStateTarget
  <2>2. \A i : (i \in found) <=> ((i = 1 /\ sibling \in DOMAIN m.nodes)
                                     \/ (i = 2 /\ ref.path \in DOMAIN m.nodes))
    <3> HIDE DEF sibling
    <3>1. DOMAIN <<sibling, ref.path>> = {1, 2}
      OBVIOUS
    <3>2. QED
      BY <3>1
  <2>3. ResolveTargetStatePath(m, p, ref) =
            IF sibling \in DOMAIN m.nodes THEN sibling
            ELSE IF ref.path \in DOMAIN m.nodes THEN ref.path ELSE <<>>
    <3>1. p # <<>>
      BY <1>2
    <3>2. QED
      BY <1>2, <3>1 DEF ResolveTargetStatePath
  <2> HIDE DEF sibling, found
  <2>4. CASE sibling \in DOMAIN m.nodes
    <3>1. 1 \in found /\ \A i \in found : 1 <= i
      BY <2>2, <2>4
    <3>2. Min(found) = 1
      BY <3>1, <2>2 DEF Min
    <3>3. QED
      BY <2>1, <2>3, <2>4, <3>1, <3>2
  <2>5. CASE sibling \notin DOMAIN m.nodes /\ ref.path \in DOMAIN m.nodes
    <3>1. found = {2}
      BY <2>2, <2>5
    <3>2. Min(found) = 2
      BY <3>1 DEF Min
    <3>3. QED
      BY <2>1, <2>3, <2>5, <3>1, <3>2
  <2>6. CASE sibling \notin DOMAIN m.nodes /\ ref.path \notin DOMAIN m.nodes
    <3>1. found = {}
      BY <2>2, <2>6
    <3>2. QED
      BY <2>1, <2>3, <2>6, <3>1
  <2>7. QED
    BY <2>4, <2>5, <2>6
<1>3. CASE ~scoped
  <2> DEFINE found == {i \in DOMAIN <<ref.path>> : <<ref.path>>[i] \in DOMAIN m.nodes}
  <2>1. ResolveStateTarget(m, p, ref) =
            IF found = {} THEN <<>> ELSE <<ref.path>>[Min(found)]
    <3>1. ref.root \/ Len(p) < 2
      BY <1>1, <1>3
    <3>2. QED
      BY <3>1 DEF ResolveStateTarget
  <2>2. found = IF ref.path \in DOMAIN m.nodes THEN {1} ELSE {}
    OBVIOUS
  <2>3. ResolveTargetStatePath(m, p, ref) =
            IF ref.path \in DOMAIN m.nodes THEN ref.path ELSE <<>>
    BY <1>3 DEF ResolveTargetStatePath
  <2> HIDE DEF found
  <2>4. CASE ref.path \in DOMAIN m.nodes
    <3>1. Min(found) = 1
      BY <2>2, <2>4 DEF Min
    <3>2. QED
      BY <2>1, <2>2, <2>3, <2>4, <3>1
  <2>5. CASE ref.path \notin DOMAIN m.nodes
    BY <2>1, <2>2, <2>3, <2>5
  <2>6. QED
    BY <2>4, <2>5
<1>4. QED
  BY <1>2, <1>3

\* A text that both resolve leads to one state: the SDK resolves none with
\* blanks, the editor none with gaps.
LEMMA BothResolve ==
  ASSUME NEW m, IsMachine(m), NEW p \in Path, NEW ref, IsReference(ref),
         ref.spelling # "blanks" \/ Resolvable(m, p, ref),
         ResolveStateTarget(m, p, ref) # <<>>
  PROVE  /\ ResolveStateTarget(m, p, ref) = ResolveTargetStatePath(m, p, ref)
         /\ Resolvable(m, p, ref)
<1>1. ref.spelling # "gaps" /\ ref.path # <<>>
  BY DEF ResolveStateTarget
<1>2. ref.spelling # "blanks"
  BY DEF Resolvable, ResolveTargetStatePath
<1>3. ref.root \in BOOLEAN
  BY DEF IsReference
<1>4. QED
  BY <1>1, <1>2, <1>3, SameTarget DEF Resolvable

-----------------------------------------------------------------------------
(* The editor's diagnostics. *)

LEMMA EdgesTyped ==
  ASSUME NEW m, IsMachine(m), NEW p \in DOMAIN m.nodes,
         NEW edge \in EdgesOf(m.nodes[p])
  PROVE  IsTransition(edge)
<1>1. IsStateNode(m.nodes[p])
  BY DEF IsMachine
<1>2. QED
  BY <1>1 DEF EdgesOf, IsStateNode

LEMMA LoadedFacts ==
  ASSUME NEW raw, IsDocument(raw), NEW m, m = ParseYamlMachine(raw)
  PROVE  /\ DOMAIN m.nodes = DOMAIN raw.nodes \cup {ErrorPath}
         /\ m.implicitError <=> ErrorPath \notin DOMAIN raw.nodes
         /\ \A p \in DOMAIN raw.nodes : m.nodes[p] = ParseStateNode(raw, p)
         /\ m.implicitError => m.order = Append(raw.order, ErrorPath)
         /\ m.type = raw.type /\ m.initial = raw.initial
         /\ m.defaults = raw.defaults /\ m.global = raw.global
<1> DEFINE nodes == [p \in DOMAIN raw.nodes |-> ParseStateNode(raw, p)]
<1>1. DOMAIN nodes = DOMAIN raw.nodes
      /\ \A p \in DOMAIN raw.nodes : nodes[p] = ParseStateNode(raw, p)
  OBVIOUS
<1>2. CASE ErrorPath \in DOMAIN nodes
  <2>1. m = [raw EXCEPT !.nodes = nodes]
    BY <1>2 DEF ParseYamlMachine
  <2> HIDE DEF nodes
  <2>2. /\ m.nodes = nodes /\ m.implicitError = FALSE /\ m.type = raw.type
        /\ m.initial = raw.initial /\ m.defaults = raw.defaults
        /\ m.global = raw.global
    BY <2>1 DEF IsDocument
  <2>3. QED
    BY <1>1, <1>2, <2>2
<1>3. CASE ErrorPath \notin DOMAIN nodes
  <2>1. m = [raw EXCEPT !.nodes = WithImplicitError(nodes),
                        !.order = Append(@, ErrorPath), !.implicitError = TRUE]
    BY <1>3 DEF ParseYamlMachine
  <2> HIDE DEF nodes
  <2>2. /\ m.nodes = WithImplicitError(nodes) /\ m.implicitError = TRUE
        /\ m.order = Append(raw.order, ErrorPath) /\ m.type = raw.type
        /\ m.initial = raw.initial /\ m.defaults = raw.defaults
        /\ m.global = raw.global
    BY <2>1 DEF IsDocument
  <2>3. /\ DOMAIN m.nodes = DOMAIN nodes \cup {ErrorPath}
        /\ \A p \in DOMAIN nodes : m.nodes[p] = nodes[p]
    BY <2>2 DEF WithImplicitError
  <2>4. QED
    BY <1>1, <1>3, <2>2, <2>3
<1>4. QED
  BY <1>2, <1>3

\* The implicit error state has no children and is nobody's child but the
\* root's.
LEMMA LoadedChildren ==
  ASSUME NEW raw, IsDocument(raw), NEW m, m = ParseYamlMachine(raw),
         NEW p \in DOMAIN m.nodes
  PROVE  /\ p \in DOMAIN raw.nodes => Children(m, p) = Children(raw, p)
         /\ p \notin DOMAIN raw.nodes => Children(m, p) = {}
<1>1. /\ DOMAIN m.nodes = DOMAIN raw.nodes \cup {ErrorPath}
      /\ m.implicitError <=> ErrorPath \notin DOMAIN raw.nodes
  BY LoadedFacts
<1>2. IsMachine(m)
  BY LoadedMachine
<1>3. p \in Path /\ Len(p) \in Nat \ {0}
  BY <1>2, NodePath
<1>4. ErrorPath \notin Children(m, p)
  BY <1>3, ErrorIsPath DEF Children
<1>5. p \in DOMAIN raw.nodes => Children(m, p) = Children(raw, p)
  BY <1>1, <1>4 DEF Children
<1>6. ASSUME p \notin DOMAIN raw.nodes, NEW q \in Children(m, p) PROVE FALSE
  <2>1. p = ErrorPath /\ q \in DOMAIN m.nodes /\ Len(q) = Len(p) + 1 /\ IsPrefix(p, q)
    BY <1>1, <1>6 DEF Children
  <2>2. q \in DOMAIN raw.nodes /\ Len(q) = 2
    BY <1>1, <1>4, <1>6, <2>1, ErrorIsPath
  <2>6. IsTree(raw.nodes, raw.order)
    BY DEF IsDocument
  <2>7. Front(q) \in DOMAIN raw.nodes
    <3>1. \A r \in DOMAIN raw.nodes : Len(r) > 1 => Front(r) \in DOMAIN raw.nodes
      BY <2>6 DEF IsTree
    <3>2. Len(q) > 1
      BY <2>2
    <3>3. QED
      BY <2>2, <3>1, <3>2
  <2>3. q \in Path /\ q # <<>>
    BY <1>2, <2>1, NodePath
  <2>4. Front(q) = Take(q, 1) /\ p = Take(q, 1)
    <3>1. Len(q) - 1 = 1 /\ Len(p) = 1
      BY <2>1, <2>2, ErrorIsPath
    <3>2. Front(q) = Take(q, Len(q) - 1)
      BY <2>3, FrontIsTake
    <3>3. p = Take(q, Len(p))
      BY <1>3, <2>1, <2>3, PrefixIsTake
    <3>4. QED
      BY <3>1, <3>2, <3>3
  <2>5. QED
    BY <1>6, <2>7, <2>4
<1>7. QED
  BY <1>5, <1>6

LEMMA EditorResolves ==
  ASSUME NEW m, IsMachine(m), NEW p \in DOMAIN m.nodes,
         NEW edge \in EdgesOf(m.nodes[p]), EdgeIssues(m, p, edge),
         edge.target.spelling # "blanks",
         "failTarget" \in DOMAIN edge.policy =>
             edge.policy.failTarget.spelling # "blanks"
  PROVE  UnresolvedTarget(m, p, edge)
<1>1. IsTransition(edge)
  BY EdgesTyped
<1>2. p \in Path
  BY NodePath
<1>3. ASSUME NEW ref, IsReference(ref), ref.spelling # "blanks", ~Resolvable(m, p, ref)
      PROVE  ResolveStateTarget(m, p, ref) = <<>>
  BY <1>2, <1>3, BothResolve
<1>4. CASE edge.target # NoRef /\ ~Resolvable(m, p, edge.target)
  BY <1>1, <1>3, <1>4 DEF UnresolvedTarget, IsTransition
<1>5. CASE "failTarget" \in DOMAIN edge.policy
               /\ ~Resolvable(m, p, edge.policy.failTarget)
  BY <1>1, <1>3, <1>5 DEF UnresolvedTarget, IsTransition, IsPartialPolicy
<1>6. QED
  BY <1>4, <1>5 DEF EdgeIssues

LEMMA ValidRoot ==
  ASSUME NEW raw, IsDocument(raw), NEW m, m = ParseYamlMachine(raw), IsValid(m),
         "failTarget" \in DOMAIN m.defaults => m.defaults.failTarget.spelling # "blanks"
  PROVE  ~RootIssues(m)
<1>1. IsMachine(m)
  BY LoadedMachine
<1>2. ~(m.order = <<ErrorPath>> /\ m.implicitError)
  <2> SUFFICES ASSUME m.order = <<ErrorPath>>, m.implicitError PROVE FALSE
    OBVIOUS
  <2>1. m.order = Append(raw.order, ErrorPath) /\ ErrorPath \notin DOMAIN raw.nodes
    BY LoadedFacts
  <2>2. PICK p \in DOMAIN raw.nodes : TRUE
    BY DEF IsDocument, IsTree
  <2>3. PICK i \in DOMAIN raw.order : raw.order[i] = p
    BY DEF IsDocument, IsTree
  <2>4. raw.order \in Seq(DOMAIN raw.nodes)
    BY DEF IsDocument, IsTree
  <2>5. Len(Append(raw.order, ErrorPath)) = Len(raw.order) + 1 /\ Len(raw.order) # 0
    BY <2>3, <2>4
  <2>6. Len(m.order) = 1
    OBVIOUS
  <2>7. QED
    BY <2>1, <2>4, <2>5, <2>6
<1>3. ~(m.type = "compound" /\ <<m.initial>> \notin DOMAIN m.nodes)
  BY DEF IsValid, TopStates, Children
<1>4. ~(m.type = "parallel" /\ m.initial # None)
  BY DEF IsValid
<1>5. ASSUME "failTarget" \in DOMAIN m.defaults PROVE Resolvable(m, <<>>, m.defaults.failTarget)
  <2> DEFINE ref == m.defaults.failTarget
  <2>1. IsReference(ref) /\ ref.spelling # "blanks" /\ <<>> \in Path
    BY <1>1, <1>5 DEF IsMachine, IsPartialPolicy, Path
  <2>2. ResolveStateTarget(m, <<>>, ref) # <<>>
    BY <1>5 DEF IsValid
  <2> HIDE DEF ref
  <2>3. Resolvable(m, <<>>, ref)
    BY <1>1, <2>1, <2>2, BothResolve
  <2>4. QED
    BY <2>3 DEF ref
<1>6. QED
  BY <1>2, <1>3, <1>4, <1>5 DEF RootIssues

\* Loading leaves the edges of a state alone.
LEMMA ParsedEdges ==
  ASSUME NEW raw, NEW p, IsStateNode(raw.nodes[p])
  PROVE  EdgesOf(ParseStateNode(raw, p)) = EdgesOf(raw.nodes[p])
<1>1. /\ ParseStateNode(raw, p).on = raw.nodes[p].on
      /\ ParseStateNode(raw, p).onDone = raw.nodes[p].onDone
  BY DEF ParseStateNode, IsStateNode
<1>2. QED
  BY <1>1 DEF EdgesOf, HasOnDone

LEMMA EdgeReferences ==
  ASSUME NEW raw, NEW p \in DOMAIN raw.nodes, NEW edge \in EdgesOf(raw.nodes[p])
  PROVE  /\ edge.target \in References(raw)
         /\ "failTarget" \in DOMAIN edge.policy =>
                edge.policy.failTarget \in References(raw)
<1> DEFINE edges == UNION {EdgesOf(raw.nodes[q]) : q \in DOMAIN raw.nodes}
           layers == {raw.defaults} \cup {ed.policy : ed \in edges}
           given == {l \in layers : "failTarget" \in DOMAIN l}
<1>1. edge \in edges /\ edge.policy \in layers
  OBVIOUS
<1>2. References(raw) = {ed.target : ed \in edges} \cup {layer.failTarget : layer \in given}
  BY DEF References
<1> HIDE DEF edges
<1>3. edge.target \in {ed.target : ed \in edges}
  BY <1>1
<1>4. "failTarget" \in DOMAIN edge.policy => edge.policy \in given
  BY <1>1
<1> HIDE DEF given
<1>5. QED
  BY <1>2, <1>3, <1>4

LEMMA DefaultReference ==
  ASSUME NEW raw, "failTarget" \in DOMAIN raw.defaults
  PROVE  raw.defaults.failTarget \in References(raw)
<1> DEFINE edges == UNION {EdgesOf(raw.nodes[q]) : q \in DOMAIN raw.nodes}
           given == {l \in {raw.defaults} \cup {ed.policy : ed \in edges} :
                         "failTarget" \in DOMAIN l}
<1>1. References(raw) = {ed.target : ed \in edges} \cup {layer.failTarget : layer \in given}
  BY DEF References
<1>2. raw.defaults \in given
  OBVIOUS
<1> HIDE DEF given
<1>3. QED
  BY <1>1, <1>2

LEMMA ValidNodes ==
  ASSUME NEW raw, IsDocument(raw), NEW m, m = ParseYamlMachine(raw), IsValid(m),
         \A p \in DOMAIN raw.nodes : raw.nodes[p].type = "atomic" => Children(raw, p) = {},
         \A ref \in References(raw) : ref.spelling # "blanks",
         NEW p \in DOMAIN m.nodes
  PROVE  ~NodeIssues(m, p)
<1> DEFINE node == m.nodes[p]
<1>1. IsMachine(m)
  BY LoadedMachine
<1>2. /\ DOMAIN m.nodes = DOMAIN raw.nodes \cup {ErrorPath}
      /\ m.implicitError <=> ErrorPath \notin DOMAIN raw.nodes
      /\ \A q \in DOMAIN raw.nodes : m.nodes[q] = ParseStateNode(raw, q)
  BY LoadedFacts
<1>3. CASE p = ErrorPath /\ m.implicitError
  <2>1. /\ node.type = "final" /\ node.initial = None /\ node.on = <<>>
        /\ node.onDone = NoEdge
    BY <1>1, <1>3 DEF IsMachine, ImplicitError
  <2>2. EdgesOf(node) = {} /\ DOMAIN node.on = {}
    BY <2>1, NoEdgeTyped, EmptyHasNoFields DEF EdgesOf, HasOnDone
  <2>3. Children(m, p) = {}
    BY <1>2, <1>3, LoadedChildren
  <2> HIDE DEF node
  <2>4. QED
    BY <2>1, <2>2, <2>3 DEF NodeIssues, node
<1>4. CASE ~(p = ErrorPath /\ m.implicitError)
  <2>1. ~StateSemantics(m, p)
    BY <1>4 DEF IsValid, ExplicitStates
  <2>2. p \in DOMAIN raw.nodes
    BY <1>2, <1>4
  <2>3. Children(m, p) = Children(raw, p)
    BY <2>2, LoadedChildren
  <2>4. ASSUME node.type = "atomic" PROVE Children(m, p) = {}
    <3>1. node = ParseStateNode(raw, p) /\ IsStateNode(raw.nodes[p])
      BY <1>2, <2>2 DEF IsDocument
    <3>2. node.type = IF raw.nodes[p].type # None THEN raw.nodes[p].type
                      ELSE IF Children(raw, p) # {} THEN "compound" ELSE "atomic"
      BY <3>1 DEF ParseStateNode, IsStateNode
    <3>3. QED
      BY <2>2, <2>3, <2>4, <3>2
  <2>5. ~\E edge \in EdgesOf(node) : EdgeIssues(m, p, edge)
    <3> SUFFICES ASSUME NEW edge \in EdgesOf(node), EdgeIssues(m, p, edge) PROVE FALSE
      OBVIOUS
    <3>1. EdgesOf(node) = EdgesOf(raw.nodes[p])
      BY <1>2, <2>2, ParsedEdges DEF IsDocument
    <3>2. /\ edge.target \in References(raw)
          /\ "failTarget" \in DOMAIN edge.policy => edge.policy.failTarget \in References(raw)
      BY <2>2, <3>1, EdgeReferences
    <3>3. /\ edge.target.spelling # "blanks"
          /\ "failTarget" \in DOMAIN edge.policy =>
                 edge.policy.failTarget.spelling # "blanks"
      BY <3>2
    <3>4. QED
      BY <1>1, <2>1, <3>3, EditorResolves DEF StateSemantics
  <2>6. IsLeaf(m, p) <=> node.type \in {"atomic", "final"}
    BY DEF IsLeaf, NodeType
  <2> HIDE DEF node
  <2>7. ~(IsLeaf(m, p) /\ (Children(m, p) # {} \/ node.initial # None))
    BY <2>1, <2>4, <2>6 DEF StateSemantics, node
  <2>8. QED
    BY <2>1, <2>5, <2>7 DEF NodeIssues, StateSemantics, node
<1>5. QED
  BY <1>3, <1>4

-----------------------------------------------------------------------------
(* The documents of a run never change. *)

DocumentsOK ==
    /\ definition \in Definitions
    /\ machine = ParseYamlMachine(definition)
    /\ editor = Analyze(ParseDfsmYaml(definition))
    /\ status # None => Accepted(machine)

LEMMA CommitFacts ==
  ASSUME NEW step, NEW newStatus, NEW how, Commit(step, newStatus, how)
  PROVE  /\ UNCHANGED documents /\ outcome' = how /\ value' = step.value
         /\ taken' = step.taken /\ status' = newStatus
BY DEF Commit

\* The targets that are chosen when e succeeds in the given sources.
Chosen(m, e, sources, refs) ==
    /\ refs \in Outputs(m, e, sources)
    /\ \A k \in DOMAIN sources : ~Throws(m, sources[k], refs[k])

LEMMA ChosenTargets ==
  ASSUME NEW m, NEW e, NEW sources, NEW refs, Chosen(m, e, sources, refs),
         NEW k \in DOMAIN sources
  PROVE  /\ refs[k] \in SuccessTargets(m.nodes[sources[k]].on[e])
         /\ ~Throws(m, sources[k], refs[k])
BY DEF Chosen, Outputs

\* What a call that succeeds commits.
SuccessfulStep(m, v, sources, refs) ==
    CascadeOnDone(m, Broadcast(m, v, sources, refs), OnDoneRounds)

LEMMA SucceedFacts ==
  ASSUME NEW e, Succeed(e)
  PROVE  /\ status # None
         /\ LET sources == ResolveTransitionsForEvent(machine, value, e) IN
            \E refs :
                LET step == SuccessfulStep(machine, value, sources, refs)
                IN  /\ Chosen(machine, e, sources, refs)
                    /\ Commit(step,
                              ResolveSettledTransactionStatus(machine, step.value, FALSE),
                              "succeeded")
BY DEF Succeed, Chosen, SuccessfulStep

\* What a call whose k-th edge fails commits when the fallback resolves.
FailedStep(m, v, e, sources, refs, k) ==
    TakeTransition(m,
        [Broadcast(m, v, Take(sources, k - 1), refs) EXCEPT !.effects = <<>>],
        sources[k], EffectivePolicy(m, m.nodes[sources[k]].on[e]).failTarget)

\* What a call whose k-th edge fails does.
Failing(e, sources, refs, k) ==
    LET edge == machine.nodes[sources[k]].on[e]
        policy == EffectivePolicy(machine, edge)
        step == FailedStep(machine, value, e, sources, refs, k)
    IN  /\ CanFail(machine, edge)
        /\ Chosen(machine, e, Take(sources, k - 1), refs)
        /\ IF Resolvable(machine, sources[k], policy.failTarget)
           THEN Commit(step,
                       ResolveSettledTransactionStatus(machine, step.value, policy.compensate),
                       "failed")
           ELSE Commit(Working(value),
                       IF policy.compensate THEN "COMPENSATING" ELSE "IN_FLIGHT", "thrown")

LEMMA FailFacts ==
  ASSUME NEW e, Fail(e)
  PROVE  /\ status # None
         /\ LET sources == ResolveTransitionsForEvent(machine, value, e) IN
            \E k \in DOMAIN sources : \E refs : Failing(e, sources, refs, k)
BY DEF Fail, Failing, Chosen, FailedStep

LEMMA FailingFacts ==
  ASSUME NEW e, NEW sources, NEW refs, NEW k, Failing(e, sources, refs, k)
  PROVE  UNCHANGED documents /\ (outcome' = "thrown" => status' # None)
<1> DEFINE policy == EffectivePolicy(machine, machine.nodes[sources[k]].on[e])
           step == FailedStep(machine, value, e, sources, refs, k)
           newStatus == ResolveSettledTransactionStatus(machine, step.value,
                                                        policy.compensate)
           left == IF policy.compensate THEN "COMPENSATING" ELSE "IN_FLIGHT"
<1>1. \/ Commit(step, newStatus, "failed")
      \/ Commit(Working(value), left, "thrown")
  BY DEF Failing
<1>2. left # None
  BY DEF None
<1> HIDE DEF step, newStatus, left
<1>3. QED
  BY <1>1, <1>2, CommitFacts

LEMMA SettledStatus ==
  ASSUME NEW m, NEW v, NEW compensated
  PROVE  ResolveSettledTransactionStatus(m, v, compensated)
             \in {"IDLE", "COMPLETED", "FAILED", "COMPENSATED"}
BY DEF ResolveSettledTransactionStatus

LEMMA DocumentsStep ==
  ASSUME DocumentsOK, [Next]_vars
  PROVE  DocumentsOK' /\ UNCHANGED documents
<1>1. CASE UNCHANGED vars
  BY <1>1 DEF DocumentsOK, vars, documents
<1>2. CASE Start
  BY <1>2, CommitFacts DEF Start, DocumentsOK, documents
<1>3. ASSUME NEW e \in Events, Succeed(e) PROVE DocumentsOK' /\ UNCHANGED documents
  BY <1>3, SucceedFacts, CommitFacts DEF DocumentsOK, documents
<1>4. ASSUME NEW e \in Events, ReturnsUnresolved(e)
      PROVE  DocumentsOK' /\ UNCHANGED documents
  BY <1>4, CommitFacts DEF ReturnsUnresolved, DocumentsOK, documents
<1>5. ASSUME NEW e \in Events, Fail(e) PROVE DocumentsOK' /\ UNCHANGED documents
  <2>1. PICK k, refs :
            Failing(e, ResolveTransitionsForEvent(machine, value, e), refs, k)
    BY <1>5, FailFacts
  <2>2. status # None /\ UNCHANGED documents
    BY <1>5, <2>1, FailFacts, FailingFacts
  <2>3. QED
    BY <2>2 DEF DocumentsOK, documents
<1>6. QED
  BY <1>1, <1>2, <1>3, <1>4, <1>5 DEF Next

LEMMA DocumentsInit == Init => DocumentsOK
BY DEF Init, DocumentsOK

LEMMA DocumentsInvariant == Spec => []DocumentsOK
<1>1. DocumentsOK /\ [Next]_vars => DocumentsOK'
  BY DocumentsStep
<1>2. QED
  BY <1>1, DocumentsInit, PTL DEF Spec

\* A definition the editor shows no error for is loaded by the SDK, unless a
\* state declared atomic has children or a target has blanks around it.  Any
\* other text that the editor resolves the SDK resolves alike (BothResolve), so
\* what is left is that each issue of finalizeAndValidateMachineIR is a
\* diagnostic.
THEOREM EditorErrorsCompleteHolds == Spec => []EditorErrorsComplete
<1>1. DocumentsOK => EditorErrorsComplete
  <2> SUFFICES ASSUME DocumentsOK, editor.valid,
                      ~\E p \in DOMAIN definition.nodes :
                           definition.nodes[p].type = "atomic" /\ Children(definition, p) # {},
                      ~\E ref \in References(definition) : ref.spelling = "blanks"
               PROVE  Accepted(machine)
    BY DEF EditorErrorsComplete
  <2>1. IsDocument(definition) /\ machine = ParseYamlMachine(definition)
    BY DefinitionsAssumption DEF DocumentsOK
  <2>2. IsValid(machine)
    BY <2>1, SameMachine DEF DocumentsOK, Analyze
  <2>3. "failTarget" \in DOMAIN machine.defaults =>
            machine.defaults.failTarget.spelling # "blanks"
    BY <2>1, LoadedFacts, DefaultReference
  <2>4. QED
    BY <2>1, <2>2, <2>3, ValidRoot, ValidNodes DEF Accepted
<1>2. QED
  BY <1>1, DocumentsInvariant, PTL
-----------------------------------------------------------------------------
(* The tree of states. *)

LEMMA DepthBounded ==
  ASSUME NEW m, IsMachine(m)
  PROVE  \E b \in Nat : \A p \in DOMAIN m.nodes : Len(p) <= b
<1> DEFINE order == m.order
           Bounded(n) == n <= Len(order) =>
                             \E b \in Nat : \A i \in 1..n : Len(order[i]) <= b
           T == {n \in Nat : Bounded(n)}
<1>1. /\ order \in Seq(DOMAIN m.nodes) /\ Len(order) \in Nat
      /\ DOMAIN order = 1..Len(order)
      /\ \A p \in DOMAIN m.nodes : \E i \in DOMAIN order : order[i] = p
      /\ \A i \in DOMAIN order : order[i] \in DOMAIN m.nodes
  BY DEF IsMachine, IsTree
<1> HIDE DEF order
<1>2. Bounded(0)
  OBVIOUS
<1>3. ASSUME NEW n \in Nat, Bounded(n) PROVE Bounded(n + 1)
  <2> SUFFICES ASSUME n + 1 <= Len(order)
               PROVE  \E b \in Nat : \A i \in 1..(n + 1) : Len(order[i]) <= b
    OBVIOUS
  <2>1. PICK b \in Nat : \A i \in 1..n : Len(order[i]) <= b
    BY <1>1, <1>3
  <2>2. order[n + 1] \in DOMAIN m.nodes
    BY <1>1
  <2>3. Len(order[n + 1]) \in Nat
    BY <2>2, NodePath
  <2> DEFINE c == IF Len(order[n + 1]) <= b THEN b ELSE Len(order[n + 1])
  <2>4. c \in Nat /\ b <= c /\ Len(order[n + 1]) <= c
    BY <2>3
  <2> HIDE DEF c
  <2>5. ASSUME NEW i \in 1..(n + 1) PROVE Len(order[i]) <= c
    <3>1. CASE i = n + 1
      BY <2>4, <3>1
    <3>2. CASE i # n + 1
      <4>1. i \in 1..n /\ i \in DOMAIN order
        BY <1>1, <3>2
      <4>2. Len(order[i]) \in Nat
        BY <1>1, <4>1, NodePath
      <4>3. QED
        BY <2>1, <2>4, <4>1, <4>2
    <3>3. QED
      BY <3>1, <3>2
  <2>6. QED
    BY <2>4, <2>5
<1>4. Bounded(Len(order))
  <2> HIDE DEF Bounded
  <2>1. 0 \in T /\ \A n \in Nat : n \in T => n + 1 \in T
    BY <1>2, <1>3
  <2> HIDE DEF T
  <2>2. Len(order) \in T
    BY <1>1, <2>1, Induction
  <2>3. QED
    BY <2>2 DEF T
<1>5. PICK b \in Nat : \A i \in 1..Len(order) : Len(order[i]) <= b
  BY <1>1, <1>4
<1>6. ASSUME NEW p \in DOMAIN m.nodes PROVE Len(p) <= b
  <2>1. PICK i \in DOMAIN order : order[i] = p
    BY <1>1
  <2>2. QED
    BY <1>1, <1>5, <2>1
<1>7. QED
  BY <1>6

\* Every set of states has a deepest one.
LEMMA DeepestState ==
  ASSUME NEW m, IsMachine(m), NEW S \in SUBSET DOMAIN m.nodes, S # {}
  PROVE  \E p \in S : \A q \in S : Len(q) <= Len(p)
<1>1. PICK b \in Nat : \A p \in DOMAIN m.nodes : Len(p) <= b
  BY DepthBounded
<1> DEFINE T == {Len(p) : p \in S}
<1>2. \A p \in S : Len(p) \in 0..b
  BY <1>1, NodePath
<1>3. T # {} /\ T \in SUBSET (0..b)
  BY <1>2
<1>4. \A p \in S : Len(p) \in T
  OBVIOUS
<1>5. PICK x \in T : \A y \in T : y <= x
  BY <1>3, GreatestElement
<1>6. PICK p \in S : x = Len(p)
  BY <1>5
<1>7. \A q \in S : Len(q) <= Len(p)
  BY <1>4, <1>5, <1>6
<1>8. QED
  BY <1>7

LEMMA ChildFacts ==
  ASSUME NEW m, IsMachine(m), NEW p \in Path, NEW q \in Children(m, p)
  PROVE  /\ q \in DOMAIN m.nodes /\ q \in Path /\ q # <<>> /\ Len(p) \in Nat
         /\ Len(q) = Len(p) + 1
         /\ Take(q, Len(p)) = p /\ Front(q) = p
         /\ \A i \in 1..Len(p) : q[i] = p[i]
         /\ Last(q) = q[Len(q)]
         /\ q = p \o <<Last(q)>>
<1>1. q \in DOMAIN m.nodes /\ Len(q) = Len(p) + 1 /\ IsPrefix(p, q)
  BY DEF Children
<1>2. q \in Path /\ q # <<>> /\ Len(p) \in Nat
  BY <1>1, NodePath, PathIsNat
<1>3. Take(q, Len(p)) = p
  BY <1>1, <1>2, PrefixIsTake
<1>4. Front(q) = p
  BY <1>1, <1>2, <1>3, FrontIsTake
<1>5. \A i \in 1..Len(p) : q[i] = p[i]
  BY <1>1, <1>2, <1>3, TakeFacts
<1>6. Last(q) = q[Len(q)]
  BY DEF Last
<1>7. q = p \o <<Last(q)>>
  BY <1>1, <1>2, <1>5, <1>6 DEF Path
<1>8. QED
  BY <1>1, <1>2, <1>3, <1>4, <1>5, <1>6, <1>7

LEMMA NextKeyIsChild ==
  ASSUME NEW m, IsMachine(m), NEW p \in Path, NEW k \in 0..(Len(p) - 1),
         Take(p, k + 1) \in DOMAIN m.nodes
  PROVE  Take(p, k + 1) \in Children(m, Take(p, k))
<1>1. Len(p) \in Nat
  BY PathIsNat
<1>2. k \in 0..Len(p) /\ k + 1 \in 0..Len(p) /\ k \in 0..(k + 1)
  BY <1>1
<1>3. Take(p, k) \in Path /\ Len(Take(p, k)) = k
  BY <1>2, TakeFacts
<1>4. Take(p, k + 1) \in Path /\ Len(Take(p, k + 1)) = k + 1
  BY <1>2, TakeFacts
<1>5. Take(Take(p, k + 1), k) = Take(p, k)
  BY <1>2, TakeTake
<1>6. IsPrefix(Take(p, k), Take(p, k + 1))
  BY <1>2, <1>3, <1>4, <1>5, PrefixIsTake
<1>7. QED
  BY <1>3, <1>4, <1>6 DEF Children

\* What an accepted machine guarantees of a state.
LEMMA AcceptedNode ==
  ASSUME NEW m, IsMachine(m), Accepted(m), NEW p \in DOMAIN m.nodes
  PROVE  /\ m.nodes[p].type \in {"atomic", "compound", "parallel", "final"}
         /\ NodeType(m, p) = m.nodes[p].type
         /\ m.nodes[p].type = "compound" =>
                p \o <<m.nodes[p].initial>> \in Children(m, p)
         /\ m.nodes[p].type = "parallel" =>
                Children(m, p) # {} /\ m.nodes[p].initial = None
         /\ IsLeaf(m, p) => Children(m, p) = {} /\ m.nodes[p].initial = None
         /\ ~IsLeaf(m, p) => m.nodes[p].type \in {"compound", "parallel"}
         /\ IsParallel(m, p) <=> m.nodes[p].type = "parallel"
         /\ m.nodes[p].type = "final" => DOMAIN m.nodes[p].on = {}
         /\ \A edge \in EdgesOf(m.nodes[p]) : ~EdgeIssues(m, p, edge)
<1>1. ~NodeIssues(m, p)
  BY DEF Accepted
<1>2. m.nodes[p].type \in {"atomic", "compound", "parallel", "final"}
  BY DEF IsMachine, IsStateNode, None
<1>3. p # <<>>
  BY NodePath
<1>4. NodeType(m, p) = m.nodes[p].type
  BY DEF NodeType
<1>5. IsLeaf(m, p) <=> m.nodes[p].type \in {"atomic", "final"}
  BY <1>4 DEF IsLeaf
<1>6. QED
  BY <1>1, <1>2, <1>3, <1>4, <1>5 DEF NodeIssues, IsParallel

\* p \in Path is a state that its child q is entered with.
Enters(m, p, q) ==
    q \in Children(m, p) /\ (IsParallel(m, p) \/ m.nodes[p].initial = Last(q))

LEMMA SubtreeTop ==
  ASSUME NEW m, IsMachine(m), NEW t \in DOMAIN m.nodes
  PROVE  t \in EnterSubtree(m, t)
<1>1. t \in Path /\ Len(t) \in Nat
  BY NodePath
<1>2. IsPrefix(t, t)
  BY <1>1, PrefixIsTake, TakeAll
<1>3. Len(t)..(Len(t) - 1) = {}
  BY <1>1
<1>4. QED
  BY <1>2, <1>3 DEF EnterSubtree

LEMMA SubtreeFacts ==
  ASSUME NEW m, IsMachine(m), NEW t \in Path, NEW q \in EnterSubtree(m, t)
  PROVE  /\ q \in DOMAIN m.nodes /\ q \in Path /\ q # <<>>
         /\ Len(t) \in Nat /\ Len(q) \in Nat /\ Len(t) <= Len(q)
         /\ t = Take(q, Len(t)) /\ IsPrefix(t, q)
<1>1. q \in DOMAIN m.nodes /\ IsPrefix(t, q)
  BY DEF EnterSubtree
<1>2. q \in Path /\ q # <<>> /\ Len(t) \in Nat /\ Len(q) \in Nat
  BY <1>1, NodePath, PathIsNat
<1>3. QED
  BY <1>1, <1>2, PrefixIsTake

\* A child that is entered with a state of the subtree is in the subtree.
LEMMA SubtreeChild ==
  ASSUME NEW m, IsMachine(m), NEW t \in Path, NEW q \in EnterSubtree(m, t),
         NEW c, Enters(m, q, c)
  PROVE  c \in EnterSubtree(m, t)
<1>1. /\ q \in Path /\ Len(t) \in Nat /\ Len(q) \in Nat /\ Len(t) <= Len(q)
      /\ t = Take(q, Len(t))
  BY SubtreeFacts
<1>2. c \in Children(m, q)
  BY DEF Enters
<1>3. c \in DOMAIN m.nodes /\ c \in Path /\ Len(c) = Len(q) + 1
  BY <1>1, <1>2, ChildFacts
<1>4. Take(c, Len(q)) = q /\ Last(c) = c[Len(c)]
  BY <1>1, <1>2, ChildFacts
<1>5. \A k \in 0..Len(q) : Take(c, k) = Take(q, k)
  BY <1>1, <1>3, <1>4, TakeTake
<1>6. \A i \in 1..Len(q) : c[i] = q[i]
  BY <1>1, <1>3, <1>4, TakeFacts
<1>7. IsPrefix(t, c)
  BY <1>1, <1>3, <1>5, PrefixIsTake
<1>8. ASSUME NEW k \in Len(t)..(Len(c) - 1)
      PROVE  \/ IsParallel(m, Take(c, k))
             \/ m.nodes[Take(c, k)].initial = c[k + 1]
  <2>1. CASE k = Len(q)
    BY <1>3, <1>4, <2>1 DEF Enters
  <2>2. CASE k # Len(q)
    <3>1. k \in Len(t)..(Len(q) - 1) /\ k \in 0..Len(q) /\ k + 1 \in 1..Len(q)
      BY <1>1, <1>3, <2>2
    <3>2. \/ IsParallel(m, Take(q, k))
          \/ m.nodes[Take(q, k)].initial = q[k + 1]
      BY <3>1 DEF EnterSubtree
    <3>3. QED
      BY <1>5, <1>6, <3>1, <3>2
  <2>3. QED
    BY <2>1, <2>2
<1>9. QED
  BY <1>3, <1>7, <1>8 DEF EnterSubtree

\* The states between t and a state of its subtree are entered one by one.
LEMMA SubtreeStep ==
  ASSUME NEW m, IsMachine(m), NEW t \in DOMAIN m.nodes, NEW q \in EnterSubtree(m, t),
         NEW k \in Len(t)..(Len(q) - 1)
  PROVE  /\ Take(q, k) \in DOMAIN m.nodes /\ Take(q, k) \in Path
         /\ Take(q, k) \in EnterSubtree(m, t)
         /\ Enters(m, Take(q, k), Take(q, k + 1))
<1>1. /\ t \in Path /\ q \in DOMAIN m.nodes /\ q \in Path /\ Len(t) \in Nat \ {0}
      /\ Len(q) \in Nat /\ Len(t) <= Len(q) /\ t = Take(q, Len(t))
  BY NodePath, SubtreeFacts
<1>2. k \in 1..Len(q) /\ k + 1 \in 1..Len(q) /\ k \in 0..Len(q)
      /\ k + 1 \in 0..Len(q) /\ k \in 0..(Len(q) - 1)
  BY <1>1
<1>3. Take(q, k) \in DOMAIN m.nodes /\ Take(q, k + 1) \in DOMAIN m.nodes
  BY <1>1, <1>2, PrefixesAreNodes
<1>4. Take(q, k) \in Path /\ Len(Take(q, k)) = k
  BY <1>1, <1>2, TakeFacts
<1>5. \A j \in 0..k : Take(Take(q, k), j) = Take(q, j)
  BY <1>1, <1>2, TakeTake
<1>6. \A i \in 1..k : Take(q, k)[i] = q[i]
  BY <1>1, <1>2, TakeFacts
<1>7. Take(q, k) \in EnterSubtree(m, t)
  <2>1. IsPrefix(t, Take(q, k))
    BY <1>1, <1>2, <1>4, <1>5, PrefixIsTake
  <2>2. ASSUME NEW j \in Len(t)..(k - 1)
        PROVE  \/ IsParallel(m, Take(Take(q, k), j))
               \/ m.nodes[Take(Take(q, k), j)].initial = Take(q, k)[j + 1]
    <3>1. j \in Len(t)..(Len(q) - 1) /\ j \in 0..k /\ j + 1 \in 1..k
      BY <1>1
    <3>2. \/ IsParallel(m, Take(q, j))
          \/ m.nodes[Take(q, j)].initial = q[j + 1]
      BY <3>1 DEF EnterSubtree
    <3>3. QED
      BY <1>5, <1>6, <3>1, <3>2
  <2>3. QED
    BY <1>3, <1>4, <2>1, <2>2 DEF EnterSubtree
<1>8. Take(q, k + 1) \in Children(m, Take(q, k))
  BY <1>1, <1>2, <1>3, NextKeyIsChild
<1>9. Last(Take(q, k + 1)) = q[k + 1]
  <2>1. Len(Take(q, k + 1)) = k + 1 /\ \A i \in 1..(k + 1) : Take(q, k + 1)[i] = q[i]
    BY <1>1, <1>2, TakeFacts
  <2>2. k + 1 \in 1..(k + 1)
    BY <1>2
  <2>3. QED
    BY <2>1, <2>2 DEF Last
<1>10. IsParallel(m, Take(q, k)) \/ m.nodes[Take(q, k)].initial = q[k + 1]
  BY DEF EnterSubtree
<1>11. QED
  BY <1>3, <1>4, <1>7, <1>8, <1>9, <1>10 DEF Enters

\* A state that is not a leaf enters a child.
LEMMA EntersChild ==
  ASSUME NEW m, IsMachine(m), Accepted(m), NEW q \in DOMAIN m.nodes, ~IsLeaf(m, q)
  PROVE  \E c : Enters(m, q, c)
<1>1. q \in Path
  BY NodePath
<1>2. CASE m.nodes[q].type = "parallel"
  BY <1>2, AcceptedNode DEF Enters
<1>3. CASE m.nodes[q].type = "compound"
  <2> DEFINE c == q \o <<m.nodes[q].initial>>
  <2>1. c \in Children(m, q)
    BY <1>3, AcceptedNode
  <2>2. Last(c) = m.nodes[q].initial
    BY <1>1 DEF Path, Last
  <2>3. QED
    BY <2>1, <2>2 DEF Enters
<1>4. QED
  BY <1>2, <1>3, AcceptedNode

\* Entering a state enters a leaf.
LEMMA SubtreeHasLeaf ==
  ASSUME NEW m, IsMachine(m), Accepted(m), NEW t \in DOMAIN m.nodes
  PROVE  \E q \in EnterSubtree(m, t) : IsLeaf(m, q)
<1> DEFINE S == EnterSubtree(m, t)
<1>1. t \in S /\ t \in Path
  BY SubtreeTop, NodePath
<1>2. S \in SUBSET DOMAIN m.nodes
  BY DEF EnterSubtree
<1>3. PICK q \in S : \A r \in S : Len(r) <= Len(q)
  BY <1>1, <1>2, DeepestState
<1>4. q \in DOMAIN m.nodes /\ q \in Path /\ Len(q) \in Nat
  BY <1>2, NodePath
<1>5. ASSUME ~IsLeaf(m, q) PROVE FALSE
  <2>1. PICK c : Enters(m, q, c)
    BY <1>4, <1>5, EntersChild
  <2>2. c \in S
    BY <1>1, <2>1, SubtreeChild
  <2>3. Len(c) = Len(q) + 1
    BY <2>1 DEF Enters, Children
  <2>4. QED
    BY <1>3, <1>4, <2>2, <2>3
<1>6. QED
  BY <1>5
-----------------------------------------------------------------------------
(* Sets of states that the engine does not leave. *)

Closed(m, R) ==
    /\ R \subseteq DOMAIN m.nodes
    /\ \A p \in R : \A k \in 1..Len(p) : Take(p, k) \in R
    /\ \A p \in R : \A q : Enters(m, p, q) => q \in R
    /\ m.type = "compound" => <<m.initial>> \in R
    /\ m.type = "parallel" =>
           Children(m, <<>>) \ (IF m.implicitError THEN {ErrorPath} ELSE {}) \subseteq R
    /\ \A p \in R : \A edge \in EdgesOf(m.nodes[p]) :
           \A ref \in (SuccessTargets(edge) \cup {EffectivePolicy(m, edge).failTarget})
                         \ {NoRef} :
               Resolvable(m, p, ref) => ResolveTargetStatePath(m, p, ref) \in R

\* The word of a state of R: its path, for a childless region with the last
\* key twice.
IsWord(m, R, w) ==
    w \in Path /\ (w \in R \/ (w # <<>> /\ w \notin DOMAIN m.nodes /\ Front(w) \in R))

Within(m, R, v) == \A w \in v : IsWord(m, R, w)

LEMMA WordFacts ==
  ASSUME NEW m, IsMachine(m), NEW R, Closed(m, R), NEW w, IsWord(m, R, w)
  PROVE  /\ w \in Path /\ w # <<>> /\ Len(w) \in Nat \ {0}
         /\ \A k \in 1..(Len(w) - 1) : Take(w, k) \in R
         /\ \A k \in 1..Len(w) : Take(w, k) \in DOMAIN m.nodes => Take(w, k) \in R
         /\ w \in DOMAIN m.nodes \/ Front(w) \in DOMAIN m.nodes
         /\ Take(w, 1) \in R
<1>1. R \subseteq DOMAIN m.nodes /\ \A p \in R : \A k \in 1..Len(p) : Take(p, k) \in R
  BY DEF Closed
<1>2. w \in Path /\ w # <<>>
  BY <1>1, NodePath DEF IsWord
<1>3. /\ Len(w) \in Nat \ {0} /\ Front(w) = Take(w, Len(w) - 1)
      /\ Len(Front(w)) = Len(w) - 1 /\ Len(w) - 1 \in 0..Len(w)
  BY <1>2, FrontIsTake
<1>4. CASE w \in R
  <2>1. \A k \in 1..Len(w) : Take(w, k) \in R
    BY <1>1, <1>4
  <2>2. 1 \in 1..Len(w) /\ 1..(Len(w) - 1) \subseteq 1..Len(w)
    BY <1>3
  <2>3. QED
    BY <1>1, <1>2, <1>3, <1>4, <2>1, <2>2
<1>5. CASE w \notin DOMAIN m.nodes /\ Front(w) \in R
  <2>1. \A k \in 1..(Len(w) - 1) : Take(Front(w), k) \in R
    BY <1>1, <1>3, <1>5
  <2>2. \A k \in 0..(Len(w) - 1) : Take(Front(w), k) = Take(w, k)
    BY <1>2, <1>3, TakeTake
  <2>3. \A k \in 1..(Len(w) - 1) : Take(w, k) \in R
    BY <2>1, <2>2
  <2>4. Len(w) - 1 # 0
    BY <1>1, <1>3, <1>5, NodePath
  <2>5. 1 \in 1..(Len(w) - 1)
    BY <1>3, <2>4
  <2>6. Take(w, Len(w)) = w
    BY <1>2, TakeAll
  <2>7. \A k \in 1..Len(w) : k \in 1..(Len(w) - 1) \/ k = Len(w)
    BY <1>3
  <2>8. \A k \in 1..Len(w) : Take(w, k) \in DOMAIN m.nodes => Take(w, k) \in R
    BY <1>5, <2>3, <2>6, <2>7
  <2>9. QED
    BY <1>1, <1>2, <1>3, <1>5, <2>3, <2>5, <2>8
<1>6. QED
  BY <1>4, <1>5 DEF IsWord

LEMMA LeafWord ==
  ASSUME NEW m, IsMachine(m), Accepted(m), NEW R, NEW p \in R, p \in DOMAIN m.nodes,
         IsLeaf(m, p)
  PROVE  IsWord(m, R, Word(m, p)) /\ IsWord(m, R, p)
<1>1. p \in Path /\ p # <<>> /\ Len(p) \in Nat \ {0} /\ \A i \in 1..Len(p) : p[i] # None
  BY NodePath
<1> DEFINE w == p \o <<Last(p)>>
<1>2. /\ w \in Path /\ Len(w) = Len(p) + 1 /\ w # <<>>
      /\ \A i \in 1..Len(p) : w[i] = p[i]
  BY <1>1 DEF Path, Last
<1> HIDE DEF w
<1>3. Len(p) \in 0..Len(w) /\ Len(w) - 1 = Len(p)
  BY <1>1, <1>2
<1>4. Take(w, Len(p)) = p
  <2>1. Take(w, Len(p)) \in Path /\ Len(Take(w, Len(p))) = Len(p)
    BY <1>2, <1>3, TakeFacts
  <2>2. \A i \in 1..Len(p) : Take(w, Len(p))[i] = w[i]
    BY <1>2, <1>3, TakeFacts
  <2>3. QED
    BY <1>1, <1>2, <2>1, <2>2, PathEqual
<1>5. Front(w) = p
  BY <1>2, <1>3, <1>4, FrontIsTake
<1>6. IsPrefix(p, w)
  BY <1>1, <1>2, <1>3, <1>4, PrefixIsTake
<1>7. w \notin DOMAIN m.nodes
  BY <1>2, <1>6, AcceptedNode DEF Children
<1>8. IsWord(m, R, w) /\ IsWord(m, R, p)
  BY <1>1, <1>2, <1>5, <1>7 DEF IsWord
<1>9. QED
  BY <1>8 DEF Word, w

\* A closed set contains the subtrees of its states.
LEMMA SubtreeWithin ==
  ASSUME NEW m, IsMachine(m), NEW R, Closed(m, R), NEW t \in R
  PROVE  EnterSubtree(m, t) \subseteq R
<1> SUFFICES ASSUME NEW q \in EnterSubtree(m, t) PROVE q \in R
  OBVIOUS
<1>1. t \in DOMAIN m.nodes /\ t \in Path
  BY NodePath DEF Closed
<1>2. /\ q \in Path /\ Len(t) \in Nat /\ Len(q) \in Nat /\ Len(t) <= Len(q)
      /\ t = Take(q, Len(t))
  BY <1>1, SubtreeFacts
<1> DEFINE In(n) == Len(t) + n <= Len(q) => Take(q, Len(t) + n) \in R
           T == {n \in Nat : In(n)}
<1>3. In(0)
  BY <1>2
<1>4. ASSUME NEW n \in Nat, In(n) PROVE In(n + 1)
  <2> SUFFICES ASSUME Len(t) + (n + 1) <= Len(q) PROVE Take(q, Len(t) + (n + 1)) \in R
    OBVIOUS
  <2>1. Len(t) + n \in Len(t)..(Len(q) - 1) /\ Len(t) + (n + 1) = (Len(t) + n) + 1
    BY <1>2
  <2>2. Take(q, Len(t) + n) \in R
    BY <1>2, <1>4
  <2>3. Enters(m, Take(q, Len(t) + n), Take(q, (Len(t) + n) + 1))
    BY <1>1, <2>1, SubtreeStep
  <2>4. QED
    BY <2>1, <2>2, <2>3 DEF Closed
<1>5. \A n \in Nat : In(n)
  <2> HIDE DEF In
  <2>1. 0 \in T /\ \A n \in Nat : n \in T => n + 1 \in T
    BY <1>3, <1>4
  <2> HIDE DEF T
  <2>2. \A n \in Nat : n \in T
    BY <2>1, Induction
  <2>3. QED
    BY <2>2 DEF T
<1>6. In(Len(q) - Len(t)) /\ Len(t) + (Len(q) - Len(t)) = Len(q)
  BY <1>2, <1>5
<1>7. QED
  BY <1>2, <1>6, TakeAll
-----------------------------------------------------------------------------
(* Reading a state value. *)

\* f is the function LeafOf is the first value of.
IsLeafScan(f, m, w) ==
    f = [k \in 1..(Len(w) + 1) |->
            IF k >= Len(w) THEN w
            ELSE IF NodeType(m, Take(w, k)) = "parallel" /\ Len(w) > k + 1
                 THEN IF IsLeaf(m, Take(w, k + 1)) THEN Take(w, k + 1)
                      ELSE f[k + 2]
                 ELSE f[k + 1]]

LEMMA LeafScanExists ==
  ASSUME NEW m, NEW w, Len(w) \in Nat
  PROVE  \E f : IsLeafScan(f, m, w)
<1> DEFINE L == Len(w)
           Skips(k) == NodeType(m, Take(w, k)) = "parallel" /\ Len(w) > k + 1
           Step(g, k) == IF k >= Len(w) THEN w
                         ELSE IF Skips(k)
                              THEN IF IsLeaf(m, Take(w, k + 1)) THEN Take(w, k + 1)
                                   ELSE g[k + 2]
                              ELSE g[k + 1]
           From(g, n) == g = [k \in ((L + 1) - n)..(L + 1) |-> Step(g, k)]
           Scan(n) == n <= L => \E g : From(g, n)
           T == {n \in Nat : Scan(n)}
<1>1. \A k : Skips(k) => Len(w) > k + 1
  OBVIOUS
<1> HIDE DEF Skips
<1>2. Scan(0)
  <2>1. From([k \in ((L + 1) - 0)..(L + 1) |-> w], 0)
    OBVIOUS
  <2>2. QED
    BY <2>1
<1>3. ASSUME NEW n \in Nat, Scan(n) PROVE Scan(n + 1)
  <2> SUFFICES ASSUME n + 1 <= L PROVE \E g : From(g, n + 1)
    OBVIOUS
  <2>1. PICK g : From(g, n)
    BY <1>3
  <2> DEFINE j == L - n
             d == Step(g, j)
             h == [k \in j..(L + 1) |-> IF k = j THEN d ELSE g[k]]
  <2>2. j \in Nat /\ (L + 1) - (n + 1) = j /\ (L + 1) - n = j + 1 /\ j < L + 1
    OBVIOUS
  <2> HIDE DEF d, j
  <2>3. \A k \in (j + 1)..(L + 1) : g[k] = Step(g, k) /\ h[k] = g[k]
    <3>1. \A k \in (j + 1)..(L + 1) : g[k] = Step(g, k)
      BY <2>1, <2>2
    <3>2. \A k \in (j + 1)..(L + 1) : h[k] = g[k]
      BY <2>2
    <3>3. QED
      BY <3>1, <3>2
  <2>4. h[j] = Step(g, j)
    <3>1. j \in j..(L + 1)
      BY <2>2
    <3>2. h[j] = d
      BY <3>1
    <3>3. QED
      BY <3>2 DEF d
  <2>5. ASSUME NEW k \in j..(L + 1) PROVE h[k] = Step(h, k)
    <3> HIDE DEF h
    <3>1. h[k] = Step(g, k)
      <4>1. k = j \/ k \in (j + 1)..(L + 1)
        BY <2>2
      <4>2. QED
        BY <2>3, <2>4, <4>1
    <3>2. CASE k >= Len(w)
      BY <3>1, <3>2
    <3>3. CASE k < Len(w)
      <4>1. k + 1 \in (j + 1)..(L + 1)
        BY <2>2, <3>3
      <4>2. Skips(k) => k + 2 \in (j + 1)..(L + 1)
        BY <1>1, <2>2, <3>3
      <4>3. h[k + 1] = g[k + 1] /\ (Skips(k) => h[k + 2] = g[k + 2])
        BY <2>3, <4>1, <4>2
      <4> HIDE DEF h
      <4>4. QED
        BY <3>1, <4>3
    <3>4. QED
      BY <3>2, <3>3
  <2>6. From(h, n + 1)
    <3>1. h = [k \in j..(L + 1) |-> h[k]]
      BY <2>2
    <3>2. h = [k \in j..(L + 1) |-> Step(h, k)]
      BY <2>5, <3>1
    <3>3. QED
      BY <2>2, <3>2
  <2>7. QED
    BY <2>6
<1>4. Scan(L)
  <2> HIDE DEF Scan
  <2>1. 0 \in T /\ \A n \in Nat : n \in T => n + 1 \in T
    BY <1>2, <1>3
  <2> HIDE DEF T
  <2>2. L \in T
    BY <2>1, Induction
  <2>3. QED
    BY <2>2 DEF T
<1>5. PICK g : From(g, L)
  BY <1>4
<1>6. IsLeafScan(g, m, w)
  <2>1. (L + 1) - L = 1
    OBVIOUS
  <2>2. QED
    BY <1>5, <2>1 DEF IsLeafScan, Skips
<1>7. QED
  BY <1>6

LEMMA LeafScan ==
  ASSUME NEW m, NEW w, Len(w) \in Nat
  PROVE  \E f : IsLeafScan(f, m, w) /\ LeafOf(m, w) = f[1]
<1> DEFINE f == CHOOSE g : IsLeafScan(g, m, w)
<1>1. IsLeafScan(f, m, w)
  BY LeafScanExists
<1>2. LeafOf(m, w) = f[1]
  BY DEF LeafOf, IsLeafScan
<1>3. QED
  BY <1>1, <1>2

\* The leaf a word stands for is one of its prefixes.
LEMMA LeafIsPrefix ==
  ASSUME NEW m, NEW w \in Path, w # <<>>
  PROVE  \E j \in 1..Len(w) : LeafOf(m, w) = Take(w, j)
<1> DEFINE L == Len(w)
<1>1. L \in Nat \ {0} /\ Take(w, L) = w
  BY FrontIsTake, TakeAll
<1>2. PICK f : IsLeafScan(f, m, w) /\ LeafOf(m, w) = f[1]
  BY <1>1, LeafScan
<1> DEFINE Skips(k) == NodeType(m, Take(w, k)) = "parallel" /\ Len(w) > k + 1
           Ok(k) == \E j \in 1..L : f[k] = Take(w, j)
           Fine(n) == n <= L => \A k \in ((L + 1) - n)..(L + 1) : Ok(k)
           T == {n \in Nat : Fine(n)}
<1>3. \A k \in 1..(L + 1) :
          f[k] = IF k >= Len(w) THEN w
                 ELSE IF Skips(k)
                      THEN IF IsLeaf(m, Take(w, k + 1)) THEN Take(w, k + 1)
                           ELSE f[k + 2]
                      ELSE f[k + 1]
  BY <1>2 DEF IsLeafScan
<1>4. \A k : Skips(k) => L > k + 1
  OBVIOUS
<1> HIDE DEF Skips
<1>5. Fine(0)
  <2>1. f[L + 1] = w
    BY <1>1, <1>3
  <2>2. L \in 1..L
    BY <1>1
  <2>3. QED
    BY <1>1, <2>1, <2>2
<1>6. ASSUME NEW n \in Nat, Fine(n) PROVE Fine(n + 1)
  <2> SUFFICES ASSUME n + 1 <= L, NEW k \in ((L + 1) - (n + 1))..(L + 1) PROVE Ok(k)
    OBVIOUS
  <2>1. CASE k \in ((L + 1) - n)..(L + 1)
    BY <1>1, <1>6, <2>1
  <2>2. CASE k >= L
    BY <1>1, <1>3, <2>2
  <2>3. CASE k < L /\ k = L - n
    <3>1. k \in 1..(L + 1) /\ k + 1 \in ((L + 1) - n)..(L + 1)
      BY <1>1, <2>3
    <3>2. Ok(k + 1) /\ (Skips(k) => Ok(k + 2))
      <4>1. \A i \in ((L + 1) - n)..(L + 1) : Ok(i)
        BY <1>1, <1>6
      <4>2. Skips(k) => k + 2 \in ((L + 1) - n)..(L + 1)
        BY <1>1, <1>4, <2>3
      <4>3. QED
        BY <3>1, <4>1, <4>2
    <3>3. k + 1 \in 1..L
      BY <1>1, <2>3
    <3>4. f[k] = IF Skips(k)
                 THEN IF IsLeaf(m, Take(w, k + 1)) THEN Take(w, k + 1) ELSE f[k + 2]
                 ELSE f[k + 1]
      BY <1>1, <1>3, <2>3, <3>1
    <3>5. QED
      BY <3>2, <3>3, <3>4
  <2>4. QED
    BY <1>1, <2>1, <2>2, <2>3
<1>7. Fine(L)
  <2> HIDE DEF Fine
  <2>1. 0 \in T /\ \A n \in Nat : n \in T => n + 1 \in T
    BY <1>5, <1>6
  <2> HIDE DEF T
  <2>2. L \in T
    BY <1>1, <2>1, Induction
  <2>3. QED
    BY <2>2 DEF T
<1>8. Ok(1)
  <2>1. 1 \in ((L + 1) - L)..(L + 1)
    BY <1>1
  <2>2. QED
    BY <1>1, <1>7, <2>1
<1>9. QED
  BY <1>2, <1>8

\* What is active, and what the search for an event looks at, is in the set.
LEMMA ActiveWithin ==
  ASSUME NEW m, IsMachine(m), NEW R, Closed(m, R), NEW v, Within(m, R, v)
  PROVE  ActiveStates(m, v) \subseteq R
<1> SUFFICES ASSUME NEW p \in ActiveStates(m, v) PROVE p \in R
  OBVIOUS
<1>1. p \in DOMAIN m.nodes /\ \E w \in v : IsPrefix(p, LeafOf(m, w))
  BY DEF ActiveStates, GetActiveLeafPaths
<1>2. PICK w \in v : IsPrefix(p, LeafOf(m, w))
  BY <1>1
<1>3. IsWord(m, R, w)
  BY DEF Within
<1>4. w \in Path /\ w # <<>> /\ Len(w) \in Nat
  BY <1>3, WordFacts
<1>5. PICK j \in 1..Len(w) : LeafOf(m, w) = Take(w, j)
  BY <1>4, LeafIsPrefix
<1>6. p \in Path /\ Len(p) \in Nat \ {0}
  BY <1>1, NodePath
<1>7. Take(w, j) \in Path /\ Len(Take(w, j)) = j
  BY <1>4, TakeFacts
<1>8. Len(p) <= j /\ p = Take(Take(w, j), Len(p))
  BY <1>2, <1>5, <1>6, <1>7, PrefixIsTake
<1>9. Len(p) \in 1..Len(w) /\ p = Take(w, Len(p))
  <2>1. Len(p) \in 0..j /\ j \in 0..Len(w)
    BY <1>4, <1>6, <1>8
  <2>2. QED
    BY <1>4, <1>6, <1>8, <2>1, TakeTake
<1>10. QED
  BY <1>1, <1>3, <1>9, WordFacts

LEMMA SearchedWithin ==
  ASSUME NEW m, IsMachine(m), NEW R, Closed(m, R), NEW v, Within(m, R, v)
  PROVE  Searched(m, v) \subseteq R
<1> SUFFICES ASSUME NEW p \in Searched(m, v) PROVE p \in R
  OBVIOUS
<1>1. /\ p \in DOMAIN m.nodes
      /\ \E w \in v : w[1] = p[1]
      /\ \A k \in 1..(Len(p) - 1) :
             \/ NodeType(m, Take(p, k)) = "parallel"
             \/ \E w \in v : IsPrefix(Take(p, k + 1), w)
  BY DEF Searched
<1>2. p \in Path /\ Len(p) \in Nat \ {0}
  BY <1>1, NodePath
<1>3. \A k \in 1..Len(p) : Take(p, k) \in DOMAIN m.nodes
  BY <1>1, PrefixesAreNodes
<1> DEFINE In(n) == n + 1 <= Len(p) => Take(p, n + 1) \in R
           T == {n \in Nat : In(n)}
<1>4. In(0)
  <2>1. PICK w \in v : w[1] = p[1]
    BY <1>1
  <2>2. w \in Path /\ Len(w) \in Nat \ {0} /\ Take(w, 1) \in R
    BY <2>1, WordFacts DEF Within
  <2>3. Take(p, 1) = Take(w, 1)
    BY <1>2, <2>1, <2>2, TakeEqual
  <2>4. QED
    BY <2>2, <2>3
<1>5. ASSUME NEW n \in Nat, In(n) PROVE In(n + 1)
  <2> SUFFICES ASSUME (n + 1) + 1 <= Len(p) PROVE Take(p, (n + 1) + 1) \in R
    OBVIOUS
  <2> DEFINE k == n + 1
  <2>1. k \in 1..(Len(p) - 1) /\ k + 1 \in 1..Len(p) /\ k \in 0..(Len(p) - 1)
        /\ k \in 1..Len(p) /\ k \in Nat
    BY <1>2
  <2>2. Take(p, k) \in R
    BY <1>2, <1>5
  <2> HIDE DEF k
  <2>3. Take(p, k + 1) \in DOMAIN m.nodes /\ Take(p, k) \in DOMAIN m.nodes
    BY <1>3, <2>1
  <2>4. CASE NodeType(m, Take(p, k)) = "parallel"
    <3>1. Take(p, k + 1) \in Children(m, Take(p, k))
      BY <1>2, <2>1, <2>3, NextKeyIsChild
    <3>2. IsParallel(m, Take(p, k))
      BY <2>3, <2>4, NodePath DEF IsParallel
    <3>3. QED
      BY <2>2, <3>1, <3>2 DEF Closed, Enters, k
  <2>5. CASE \E w \in v : IsPrefix(Take(p, k + 1), w)
    <3>1. PICK w \in v : IsPrefix(Take(p, k + 1), w)
      BY <2>5
    <3>2. IsWord(m, R, w)
      BY DEF Within
    <3>3. w \in Path /\ Len(w) \in Nat
      BY <3>2, WordFacts
    <3>4. Take(p, k + 1) \in Path /\ Len(Take(p, k + 1)) = k + 1
      BY <1>2, <2>1, TakeFacts
    <3>5. k + 1 <= Len(w) /\ Take(p, k + 1) = Take(w, k + 1)
      BY <3>1, <3>3, <3>4, PrefixIsTake
    <3>6. k + 1 \in 1..Len(w)
      BY <2>1, <3>3, <3>5
    <3>7. QED
      BY <2>3, <3>2, <3>5, <3>6, WordFacts DEF k
  <2>6. QED
    BY <1>1, <2>1, <2>4, <2>5
<1>6. \A n \in Nat : In(n)
  <2> HIDE DEF In
  <2>1. 0 \in T /\ \A n \in Nat : n \in T => n + 1 \in T
    BY <1>4, <1>5
  <2> HIDE DEF T
  <2>2. \A n \in Nat : n \in T
    BY <2>1, Induction
  <2>3. QED
    BY <2>2 DEF T
<1>7. In(Len(p) - 1) /\ Len(p) - 1 \in Nat /\ (Len(p) - 1) + 1 = Len(p)
  BY <1>2, <1>6
<1>8. QED
  BY <1>2, <1>7, TakeAll
-----------------------------------------------------------------------------
(* Taking transitions. *)

StepIn(m, R, step) ==
    step.value # {} /\ Within(m, R, step.value) /\ step.taken \subseteq R \X R

\* A move along an edge, to its target or to one its handler returned.
Followed(m, move) ==
    \E p \in DOMAIN m.nodes : \E edge \in EdgesOf(m.nodes[p]) :
        \E ref \in SuccessTargets(edge) :
            ref # NoRef /\ move = <<p, ResolveTargetStatePath(m, p, ref)>>

AllFollowed(m, step) == \A move \in step.taken : Followed(m, move)

LEMMA NextValueWithin ==
  ASSUME NEW m, IsMachine(m), Accepted(m), NEW R, Closed(m, R), NEW v,
         Within(m, R, v), NEW s, NEW t \in R
  PROVE  Within(m, R, NextStateValue(m, v, s, t)) /\ NextStateValue(m, v, s, t) # {}
<1> DEFINE c == CommonLen(s, t)
           KeptAt(j) == j < c \/ Preserved(m, v, t, c, Take(t, j))
           kept == {k \in 0..(Len(t) - 1) : KeptAt(k)}
           target == IF IsLeaf(m, t)
                     THEN {IF KeptAt(Len(t) - 1) THEN Word(m, t) ELSE t}
                     ELSE Words(m, EnterSubtree(m, t))
           beside == UNION {Beside(v, t, j) : j \in kept}
<1>1. NextStateValue(m, v, s, t) = target \cup beside
  BY DEF NextStateValue
<1>2. beside \subseteq v
  BY DEF Beside
<1>3. t \in DOMAIN m.nodes
  BY DEF Closed
<1> HIDE DEF beside, kept, KeptAt
<1>4. CASE IsLeaf(m, t)
  <2>1. target = {Word(m, t)} \/ target = {t}
    BY <1>4
  <2>2. IsWord(m, R, Word(m, t)) /\ IsWord(m, R, t)
    BY <1>3, <1>4, LeafWord
  <2> HIDE DEF target
  <2>3. QED
    BY <1>1, <1>2, <2>1, <2>2 DEF Within
<1>5. CASE ~IsLeaf(m, t)
  <2>1. target = {Word(m, p) : p \in {q \in EnterSubtree(m, t) : IsLeaf(m, q)}}
    BY <1>5 DEF Words
  <2>2. \A p \in EnterSubtree(m, t) : p \in R /\ p \in DOMAIN m.nodes
    BY SubtreeWithin DEF Closed
  <2>3. \E q \in EnterSubtree(m, t) : IsLeaf(m, q)
    BY <1>3, SubtreeHasLeaf
  <2> HIDE DEF target
  <2>4. \A w \in target : IsWord(m, R, w)
    BY <2>1, <2>2, LeafWord
  <2>5. target # {}
    BY <2>1, <2>3
  <2>6. QED
    BY <1>1, <1>2, <2>4, <2>5 DEF Within
<1>6. QED
  BY <1>4, <1>5

LEMMA TakeTransitionWithin ==
  ASSUME NEW m, IsMachine(m), Accepted(m), NEW R, Closed(m, R), NEW step,
         StepIn(m, R, step), NEW s \in R, NEW ref,
         ref # NoRef => ResolveTargetStatePath(m, s, ref) \in R
  PROVE  /\ StepIn(m, R, TakeTransition(m, step, s, ref))
         /\ ref = NoRef => TakeTransition(m, step, s, ref) = step
         /\ ref # NoRef =>
                TakeTransition(m, step, s, ref).taken =
                    step.taken \cup {<<s, ResolveTargetStatePath(m, s, ref)>>}
<1> DEFINE t == ResolveTargetStatePath(m, s, ref)
<1>1. CASE ref = NoRef
  BY <1>1 DEF TakeTransition
<1>2. CASE ref # NoRef
  <2>1. /\ TakeTransition(m, step, s, ref).value = NextStateValue(m, step.value, s, t)
        /\ TakeTransition(m, step, s, ref).taken = step.taken \cup {<<s, t>>}
    BY <1>2 DEF TakeTransition
  <2>2. t \in R
    BY <1>2
  <2> HIDE DEF t
  <2>3. /\ Within(m, R, NextStateValue(m, step.value, s, t))
        /\ NextStateValue(m, step.value, s, t) # {}
    BY <2>2, NextValueWithin DEF StepIn
  <2>4. QED
    BY <1>2, <2>1, <2>2, <2>3 DEF StepIn, t
<1>3. QED
  BY <1>1, <1>2

\* Along an edge.
LEMMA FollowWithin ==
  ASSUME NEW m, IsMachine(m), Accepted(m), NEW R, Closed(m, R), NEW step,
         StepIn(m, R, step), AllFollowed(m, step), NEW s \in R,
         NEW edge \in EdgesOf(m.nodes[s]), NEW ref \in SuccessTargets(edge),
         ~Throws(m, s, ref)
  PROVE  /\ StepIn(m, R, TakeTransition(m, step, s, ref))
         /\ AllFollowed(m, TakeTransition(m, step, s, ref))
<1> DEFINE next == TakeTransition(m, step, s, ref)
<1>1. s \in DOMAIN m.nodes
  BY DEF Closed
<1>2. ref # NoRef => Resolvable(m, s, ref)
  BY DEF Throws
<1>3. ref # NoRef => ResolveTargetStatePath(m, s, ref) \in R
  BY <1>2 DEF Closed
<1>4. /\ StepIn(m, R, next)
      /\ ref = NoRef => next = step
      /\ ref # NoRef =>
             next.taken = step.taken \cup {<<s, ResolveTargetStatePath(m, s, ref)>>}
  BY <1>3, TakeTransitionWithin
<1>5. AllFollowed(m, next)
  <2>1. ASSUME ref # NoRef PROVE Followed(m, <<s, ResolveTargetStatePath(m, s, ref)>>)
    BY <1>1, <2>1 DEF Followed
  <2> HIDE DEF next
  <2>2. QED
    BY <1>4, <2>1 DEF AllFollowed
<1>6. QED
  BY <1>4, <1>5

\* f is the function Broadcast is the last value of.
IsBroadcast(f, m, v, sources, refs) ==
    f = [k \in 0..Len(sources) |->
            IF k = 0 THEN Working(v)
            ELSE TakeTransition(m, f[k - 1], sources[k], refs[k])]

LEMMA BroadcastExists ==
  ASSUME NEW m, NEW v, NEW sources, NEW refs, Len(sources) \in Nat
  PROVE  \E f : IsBroadcast(f, m, v, sources, refs)
<1> DEFINE Step(g, k) == IF k = 0 THEN Working(v)
                         ELSE TakeTransition(m, g[k - 1], sources[k], refs[k])
           UpTo(g, n) == g = [k \in 0..n |-> Step(g, k)]
           T == {n \in Nat : \E g : UpTo(g, n)}
<1>1. 0 \in T
  <2>1. UpTo([k \in 0..0 |-> Working(v)], 0)
    OBVIOUS
  <2>2. QED
    BY <2>1
<1>2. ASSUME NEW n \in Nat, n \in T PROVE n + 1 \in T
  <2>1. PICK g : UpTo(g, n)
    BY <1>2
  <2> DEFINE d == TakeTransition(m, g[n], sources[n + 1], refs[n + 1])
             h == [k \in 0..(n + 1) |-> IF k = n + 1 THEN d ELSE g[k]]
  <2>2. \A k \in 0..n : g[k] = Step(g, k)
    BY <2>1
  <2>3. d = Step(h, n + 1)
    <3>1. h[n] = g[n]
      OBVIOUS
    <3>2. (n + 1) - 1 = n /\ n + 1 # 0
      OBVIOUS
    <3> HIDE DEF h
    <3>3. QED
      BY <3>1, <3>2
  <2> HIDE DEF d
  <2>4. \A k \in 0..n : h[k] = g[k]
    OBVIOUS
  <2>5. h[n + 1] = d
    OBVIOUS
  <2>6. ASSUME NEW k \in 0..(n + 1) PROVE h[k] = Step(h, k)
    <3> HIDE DEF h
    <3>1. CASE k = n + 1
      BY <2>3, <2>5, <3>1
    <3>2. CASE k # n + 1
      <4>1. k \in 0..n /\ (k # 0 => k - 1 \in 0..n)
        BY <3>2
      <4>2. QED
        BY <2>2, <2>4, <4>1
    <3>3. QED
      BY <3>1, <3>2
  <2>7. UpTo(h, n + 1)
    <3>1. h = [k \in 0..(n + 1) |-> h[k]]
      OBVIOUS
    <3> HIDE DEF h, Step
    <3>2. h = [k \in 0..(n + 1) |-> Step(h, k)]
      BY <2>6, <3>1
    <3>3. QED
      BY <3>2
  <2> HIDE DEF UpTo, h
  <2>8. QED
    BY <2>7
<1>3. Len(sources) \in T
  <2> HIDE DEF T
  <2>1. QED
    BY <1>1, <1>2, Induction
<1>4. PICK g : UpTo(g, Len(sources))
  BY <1>3
<1>5. IsBroadcast(g, m, v, sources, refs)
  BY <1>4 DEF IsBroadcast
<1>6. QED
  BY <1>5

\* A step in the making has its fields.
LEMMA BroadcastFields ==
  ASSUME NEW m, NEW v, NEW sources, NEW refs, Len(sources) \in Nat
  PROVE  /\ "value" \in DOMAIN Broadcast(m, v, sources, refs)
         /\ "taken" \in DOMAIN Broadcast(m, v, sources, refs)
<1> DEFINE f == CHOOSE g : IsBroadcast(g, m, v, sources, refs)
           Made(n) == n <= Len(sources) =>
                          "value" \in DOMAIN f[n] /\ "taken" \in DOMAIN f[n]
           T == {n \in Nat : Made(n)}
<1>1. IsBroadcast(f, m, v, sources, refs)
  BY BroadcastExists
<1>2. Broadcast(m, v, sources, refs) = f[Len(sources)]
  BY DEF Broadcast, IsBroadcast
<1> HIDE DEF f
<1>3. Made(0)
  BY <1>1 DEF IsBroadcast, Working
<1>4. ASSUME NEW n \in Nat, Made(n) PROVE Made(n + 1)
  <2> SUFFICES ASSUME n + 1 <= Len(sources)
               PROVE  "value" \in DOMAIN f[n + 1] /\ "taken" \in DOMAIN f[n + 1]
    OBVIOUS
  <2> DEFINE next == refs[n + 1]
  <2>1. n + 1 \in 0..Len(sources) /\ n + 1 # 0 /\ (n + 1) - 1 = n
    OBVIOUS
  <2>2. f[n + 1] = TakeTransition(m, f[n], sources[n + 1], next)
    BY <1>1, <2>1 DEF IsBroadcast
  <2>3. "value" \in DOMAIN f[n] /\ "taken" \in DOMAIN f[n]
    BY <1>4
  <2>4. CASE next = NoRef
    BY <2>2, <2>3, <2>4 DEF TakeTransition
  <2>5. CASE next # NoRef
    <3>1. DOMAIN TakeTransition(m, f[n], sources[n + 1], next)
              = {"value", "effects", "taken"}
      BY <2>5 DEF TakeTransition
    <3>2. QED
      BY <2>2, <3>1
  <2>6. QED
    BY <2>4, <2>5
<1>5. \A n \in Nat : Made(n)
  <2> HIDE DEF Made
  <2>1. 0 \in T /\ \A n \in Nat : n \in T => n + 1 \in T
    BY <1>3, <1>4
  <2> HIDE DEF T
  <2>2. \A n \in Nat : n \in T
    BY <2>1, Induction
  <2>3. QED
    BY <2>2 DEF T
<1>6. QED
  BY <1>2, <1>5

LEMMA BroadcastWithin ==
  ASSUME NEW m, IsMachine(m), Accepted(m), NEW R, Closed(m, R), NEW v, v # {},
         Within(m, R, v), NEW e, NEW sources, Len(sources) \in Nat,
         DOMAIN sources = 1..Len(sources), NEW refs, Chosen(m, e, sources, refs),
         \A k \in 1..Len(sources) :
             sources[k] \in R /\ e \in DOMAIN m.nodes[sources[k]].on
  PROVE  /\ StepIn(m, R, Broadcast(m, v, sources, refs))
         /\ AllFollowed(m, Broadcast(m, v, sources, refs))
<1> DEFINE f == CHOOSE g : IsBroadcast(g, m, v, sources, refs)
           Fine(n) == n <= Len(sources) => StepIn(m, R, f[n]) /\ AllFollowed(m, f[n])
           T == {n \in Nat : Fine(n)}
<1>1. IsBroadcast(f, m, v, sources, refs)
  BY BroadcastExists
<1>2. Broadcast(m, v, sources, refs) = f[Len(sources)]
  BY DEF Broadcast, IsBroadcast
<1> HIDE DEF f
<1>3. f[0] = Working(v)
  BY <1>1 DEF IsBroadcast
<1>4. Fine(0)
  BY <1>3 DEF Working, StepIn, AllFollowed
<1>5. ASSUME NEW n \in Nat, Fine(n) PROVE Fine(n + 1)
  <2> SUFFICES ASSUME n + 1 <= Len(sources)
               PROVE  StepIn(m, R, f[n + 1]) /\ AllFollowed(m, f[n + 1])
    OBVIOUS
  <2>1. StepIn(m, R, f[n]) /\ AllFollowed(m, f[n])
    BY <1>5
  <2>2. n + 1 \in 1..Len(sources) /\ n + 1 \in 0..Len(sources) /\ (n + 1) - 1 = n
        /\ n + 1 # 0
    OBVIOUS
  <2> DEFINE s == sources[n + 1]
             edge == m.nodes[s].on[e]
             ref == refs[n + 1]
  <2>3. f[n + 1] = TakeTransition(m, f[n], s, ref)
    BY <1>1, <2>2 DEF IsBroadcast
  <2>4. /\ s \in R /\ edge \in EdgesOf(m.nodes[s])
        /\ ref \in SuccessTargets(edge) /\ ~Throws(m, s, ref)
    BY <2>2, ChosenTargets DEF EdgesOf
  <2> HIDE DEF s, edge, ref
  <2>5. QED
    BY <2>1, <2>3, <2>4, FollowWithin
<1>6. \A n \in Nat : Fine(n)
  <2> HIDE DEF Fine
  <2>1. 0 \in T /\ \A n \in Nat : n \in T => n + 1 \in T
    BY <1>4, <1>5
  <2> HIDE DEF T
  <2>2. \A n \in Nat : n \in T
    BY <2>1, Induction
  <2>3. QED
    BY <2>2 DEF T
<1>7. QED
  BY <1>2, <1>6

LEMMA SourcesWithin ==
  ASSUME NEW m, IsMachine(m), NEW R, Closed(m, R), NEW v, Within(m, R, v), NEW e
  PROVE  LET sources == ResolveTransitionsForEvent(m, v, e)
         IN  /\ Len(sources) \in Nat /\ DOMAIN sources = 1..Len(sources)
             /\ \A k \in 1..Len(sources) :
                    /\ sources[k] \in Searched(m, v)
                    /\ sources[k] \in R /\ sources[k] \in DOMAIN m.nodes
                    /\ e \in DOMAIN m.nodes[sources[k]].on
<1> DEFINE handling == {p \in Searched(m, v) : e \in DOMAIN m.nodes[p].on}
           S == {p \in handling : ~\E q \in handling : Above(p, q)}
           sources == ResolveTransitionsForEvent(m, v, e)
<1>1. sources = DocumentOrder(m, S)
  BY DEF ResolveTransitionsForEvent
<1>2. \A p \in S : p \in Searched(m, v) /\ e \in DOMAIN m.nodes[p].on
  OBVIOUS
<1>3. Searched(m, v) \subseteq R /\ R \subseteq DOMAIN m.nodes
  BY SearchedWithin DEF Closed
<1> HIDE DEF S, sources
<1>4. IsListing(sources, S)
  BY <1>1, <1>2, <1>3, StatesListed
<1>5. QED
  BY <1>2, <1>3, <1>4, ListingNotEmpty DEF sources

\* f is the function CascadeOnDone is the last value of.
IsCascade(f, m, step, rounds) ==
    f = [n \in 0..rounds |-> IF n = 0 THEN step ELSE OnDoneRound(m, f[n - 1])]

LEMMA CascadeExists ==
  ASSUME NEW m, NEW step, NEW rounds \in Nat
  PROVE  \E f : IsCascade(f, m, step, rounds)
<1> DEFINE Step(g, k) == IF k = 0 THEN step ELSE OnDoneRound(m, g[k - 1])
           UpTo(g, n) == g = [k \in 0..n |-> Step(g, k)]
           T == {n \in Nat : \E g : UpTo(g, n)}
<1>1. 0 \in T
  <2>1. UpTo([k \in 0..0 |-> step], 0)
    OBVIOUS
  <2>2. QED
    BY <2>1
<1>2. ASSUME NEW n \in Nat, n \in T PROVE n + 1 \in T
  <2>1. PICK g : UpTo(g, n)
    BY <1>2
  <2> DEFINE d == OnDoneRound(m, g[n])
             h == [k \in 0..(n + 1) |-> IF k = n + 1 THEN d ELSE g[k]]
  <2>2. \A k \in 0..n : g[k] = Step(g, k)
    BY <2>1
  <2>3. d = Step(h, n + 1)
    <3>1. h[n] = g[n]
      OBVIOUS
    <3>2. (n + 1) - 1 = n /\ n + 1 # 0
      OBVIOUS
    <3> HIDE DEF h
    <3>3. QED
      BY <3>1, <3>2
  <2> HIDE DEF d
  <2>4. \A k \in 0..n : h[k] = g[k]
    OBVIOUS
  <2>5. h[n + 1] = d
    OBVIOUS
  <2>6. ASSUME NEW k \in 0..(n + 1) PROVE h[k] = Step(h, k)
    <3> HIDE DEF h
    <3>1. CASE k = n + 1
      BY <2>3, <2>5, <3>1
    <3>2. CASE k # n + 1
      <4>1. k \in 0..n /\ (k # 0 => k - 1 \in 0..n)
        BY <3>2
      <4>2. QED
        BY <2>2, <2>4, <4>1
    <3>3. QED
      BY <3>1, <3>2
  <2>7. UpTo(h, n + 1)
    <3>1. h = [k \in 0..(n + 1) |-> h[k]]
      OBVIOUS
    <3> HIDE DEF h, Step
    <3>2. h = [k \in 0..(n + 1) |-> Step(h, k)]
      BY <2>6, <3>1
    <3>3. QED
      BY <3>2
  <2> HIDE DEF UpTo, h
  <2>8. QED
    BY <2>7
<1>3. rounds \in T
  <2> HIDE DEF T
  <2>1. QED
    BY <1>1, <1>2, Induction
<1>4. PICK g : UpTo(g, rounds)
  BY <1>3
<1>5. IsCascade(g, m, step, rounds)
  BY <1>4 DEF IsCascade
<1>6. QED
  BY <1>5

\* The pending onDone belongs to an active state.
LEMMA PendingIsActive ==
  ASSUME NEW m, IsMachine(m), NEW v, NEW p \in FindPendingOnDone(m, v)
  PROVE  /\ p \in ActiveStates(m, v) /\ p \in DOMAIN m.nodes /\ HasOnDone(m.nodes[p])
         /\ IsDone(m, GetActiveLeafPaths(m, v), p)
<1> DEFINE leaves == GetActiveLeafPaths(m, v)
           done == {q \in ActiveStates(m, v) :
                        HasOnDone(m.nodes[q]) /\ IsDone(m, leaves, q)}
           deepest == {q \in done : \A r \in done : Len(r) <= Len(q)}
<1>1. FindPendingOnDone(m, v) =
          IF done = {} THEN {} ELSE {Head(DocumentOrder(m, deepest))}
  BY DEF FindPendingOnDone
<1>2. done \in SUBSET DOMAIN m.nodes /\ deepest \in SUBSET DOMAIN m.nodes
  BY DEF ActiveStates
<1>3. deepest \subseteq done /\ \A q \in done : /\ q \in ActiveStates(m, v)
                                              /\ HasOnDone(m.nodes[q])
                                              /\ IsDone(m, leaves, q)
  OBVIOUS
<1>4. done # {} => deepest # {}
  BY <1>2, DeepestState
<1> HIDE DEF done, deepest
<1>5. done # {} /\ p = Head(DocumentOrder(m, deepest))
  BY <1>1
<1>6. p \in deepest
  BY <1>2, <1>4, <1>5, StatesListed, ListingNotEmpty
<1>7. QED
  BY <1>2, <1>3, <1>6

LEMMA OnDoneRoundWithin ==
  ASSUME NEW m, IsMachine(m), Accepted(m), NEW R, Closed(m, R), NEW step,
         StepIn(m, R, step), AllFollowed(m, step)
  PROVE  StepIn(m, R, OnDoneRound(m, step)) /\ AllFollowed(m, OnDoneRound(m, step))
<1> DEFINE pending == FindPendingOnDone(m, step.value)
           s == CHOOSE p \in pending : TRUE
           edge == m.nodes[s].onDone
<1>1. OnDoneRound(m, step) = IF pending = {} \/ edge.target = NoRef THEN step
                             ELSE TakeTransition(m, step, s, edge.target)
  BY DEF OnDoneRound
<1>2. CASE pending = {} \/ edge.target = NoRef
  BY <1>1, <1>2
<1>3. CASE pending # {} /\ edge.target # NoRef
  <2>1. s \in pending
    BY <1>3
  <2>2. s \in ActiveStates(m, step.value) /\ HasOnDone(m.nodes[s])
    <3> HIDE DEF s
    <3>1. QED
      BY <2>1, PendingIsActive
  <2>3. s \in R /\ s \in DOMAIN m.nodes /\ edge \in EdgesOf(m.nodes[s])
    BY <2>2, ActiveWithin DEF StepIn, EdgesOf, Closed
  <2> HIDE DEF s, edge
  <2>4. edge.target \in SuccessTargets(edge) /\ ~Throws(m, s, edge.target)
    BY <2>3, AcceptedNode DEF EdgeIssues, SuccessTargets, Throws
  <2>5. QED
    BY <1>1, <1>3, <2>3, <2>4, FollowWithin
<1>4. QED
  BY <1>2, <1>3

LEMMA CascadeWithin ==
  ASSUME NEW m, IsMachine(m), Accepted(m), NEW R, Closed(m, R), NEW step,
         StepIn(m, R, step), AllFollowed(m, step), NEW rounds \in Nat
  PROVE  /\ StepIn(m, R, CascadeOnDone(m, step, rounds))
         /\ AllFollowed(m, CascadeOnDone(m, step, rounds))
<1> DEFINE f == CHOOSE g : IsCascade(g, m, step, rounds)
           Fine(n) == n <= rounds => StepIn(m, R, f[n]) /\ AllFollowed(m, f[n])
           T == {n \in Nat : Fine(n)}
<1>1. IsCascade(f, m, step, rounds)
  BY CascadeExists
<1>2. CascadeOnDone(m, step, rounds) = f[rounds]
  BY DEF CascadeOnDone, IsCascade
<1> HIDE DEF f
<1>3. f[0] = step
  BY <1>1 DEF IsCascade
<1>4. Fine(0)
  BY <1>3
<1>5. ASSUME NEW n \in Nat, Fine(n) PROVE Fine(n + 1)
  <2> SUFFICES ASSUME n + 1 <= rounds
               PROVE  StepIn(m, R, f[n + 1]) /\ AllFollowed(m, f[n + 1])
    OBVIOUS
  <2>1. StepIn(m, R, f[n]) /\ AllFollowed(m, f[n])
    BY <1>5
  <2>2. n + 1 \in 0..rounds /\ (n + 1) - 1 = n /\ n + 1 # 0
    OBVIOUS
  <2>3. f[n + 1] = OnDoneRound(m, f[n])
    BY <1>1, <2>2 DEF IsCascade
  <2>4. QED
    BY <2>1, <2>3, OnDoneRoundWithin
<1>6. \A n \in Nat : Fine(n)
  <2> HIDE DEF Fine
  <2>1. 0 \in T /\ \A n \in Nat : n \in T => n + 1 \in T
    BY <1>4, <1>5
  <2> HIDE DEF T
  <2>2. \A n \in Nat : n \in T
    BY <2>1, Induction
  <2>3. QED
    BY <2>2 DEF T
<1>7. QED
  BY <1>2, <1>6
-----------------------------------------------------------------------------
(* The steps of an actor stay within every closed set. *)

LEMMA InitialWithin ==
  ASSUME NEW m, IsMachine(m), Accepted(m), NEW R, Closed(m, R)
  PROVE  Within(m, R, ResolveInitialState(m)) /\ ResolveInitialState(m) # {}
<1> DEFINE regions == Children(m, <<>>) \ (IF m.implicitError THEN {ErrorPath} ELSE {})
           roots == IF m.type = "parallel" THEN regions ELSE {<<m.initial>>}
<1>0. <<>> \in Path /\ R \subseteq DOMAIN m.nodes
  BY DEF Path, Closed
<1>1. InitialStates(m) = UNION {EnterSubtree(m, r) : r \in roots}
  BY DEF InitialStates
<1>2. roots \subseteq R
  BY DEF Closed, IsMachine
<1>3. roots # {}
  <2>1. CASE m.type # "parallel"
    BY <2>1
  <2>2. CASE m.type = "parallel"
    <3> SUFFICES ASSUME regions = {} PROVE FALSE
      BY <2>2
    <3>1. \A p \in DOMAIN m.nodes : Take(p, 1) \in Children(m, <<>>)
      <4> TAKE p \in DOMAIN m.nodes
      <4>1. p \in Path /\ Len(p) \in Nat \ {0}
        BY NodePath
      <4>2. 0 \in 0..(Len(p) - 1) /\ 0 + 1 = 1 /\ 1 \in 1..Len(p)
        BY <4>1
      <4>3. Take(p, 1) \in DOMAIN m.nodes
        BY <4>2, PrefixesAreNodes
      <4>4. Take(p, 0) = <<>>
        BY <4>1, TakeNone
      <4>5. QED
        BY <4>1, <4>2, <4>3, <4>4, NextKeyIsChild
    <3>2. PICK p \in DOMAIN m.nodes : TRUE
      BY DEF IsMachine
    <3>3. m.implicitError /\ \A q \in Children(m, <<>>) : q = ErrorPath
      BY <3>1, <3>2
    <3>4. IsLeaf(m, ErrorPath) /\ ErrorPath \in DOMAIN m.nodes
      BY <3>3 DEF IsMachine, ImplicitError, IsLeaf, NodeType
    <3>5. ASSUME NEW q \in DOMAIN m.nodes PROVE q = ErrorPath
      <4>1. q \in Path /\ Len(q) \in Nat \ {0} /\ Take(q, 1) = ErrorPath
        BY <3>1, <3>3, NodePath
      <4>2. CASE Len(q) = 1
        BY <4>1, <4>2, TakeAll
      <4>3. CASE Len(q) # 1
        <5> DEFINE len == Len(q)
        <5>0. len \in Nat \ {0} /\ len # 1
          BY <4>1, <4>3
        <5> HIDE DEF len
        <5>1. 2 \in 1..len /\ 1 \in 0..(len - 1) /\ 1 + 1 = 2
          BY <5>0
        <5> USE DEF len
        <5>2. Take(q, 2) \in DOMAIN m.nodes
          BY <5>1, PrefixesAreNodes
        <5>3. Take(q, 2) \in Children(m, ErrorPath)
          BY <4>1, <5>1, <5>2, NextKeyIsChild
        <5>4. QED
          BY <3>4, <5>3, AcceptedNode
      <4>4. QED
        BY <4>2, <4>3
    <3>6. m.order = <<ErrorPath>>
      <4>1. /\ m.order \in Seq(DOMAIN m.nodes)
            /\ \E i \in DOMAIN m.order : m.order[i] = ErrorPath
            /\ \A i, j \in DOMAIN m.order : m.order[i] = m.order[j] => i = j
        BY <3>4 DEF IsMachine, IsTree
      <4>2. DOMAIN m.order = 1..Len(m.order) /\ Len(m.order) \in Nat
            /\ \A i \in DOMAIN m.order : m.order[i] = ErrorPath
        BY <3>5, <4>1
      <4>3. \A i, j \in 1..Len(m.order) : i = j
        BY <4>1, <4>2
      <4>4. Len(m.order) # 0
        BY <4>1, <4>2
      <4>5. ~(Len(m.order) > 1)
        <5> SUFFICES ASSUME Len(m.order) > 1 PROVE FALSE
          OBVIOUS
        <5>1. 1 \in 1..Len(m.order) /\ 2 \in 1..Len(m.order)
          BY <4>2
        <5>2. QED
          BY <4>3, <5>1
      <4>6. Len(m.order) = 1
        <5> DEFINE len == Len(m.order)
        <5>1. len \in Nat /\ len # 0 /\ ~(len > 1)
          BY <4>2, <4>4, <4>5
        <5> HIDE DEF len
        <5>2. len = 1
          BY <5>1
        <5>3. QED
          BY <5>2 DEF len
      <4>7. QED
        BY <4>1, <4>2, <4>6
    <3>7. QED
      BY <3>3, <3>6 DEF Accepted, RootIssues
  <2>3. QED
    BY <2>1, <2>2
<1> HIDE DEF roots
<1>4. InitialStates(m) \subseteq R
  BY <1>1, <1>2, SubtreeWithin
<1>5. PICK q \in InitialStates(m) : IsLeaf(m, q)
  <2>1. PICK r \in roots : r \in R
    BY <1>2, <1>3
  <2>2. \E q \in EnterSubtree(m, r) : IsLeaf(m, q)
    BY <1>0, <2>1, SubtreeHasLeaf
  <2>3. QED
    BY <1>1, <2>1, <2>2
<1>6. ResolveInitialState(m) =
          {Word(m, p) : p \in {r \in InitialStates(m) : IsLeaf(m, r)}}
  BY DEF ResolveInitialState, Words
<1>7. \A p \in InitialStates(m) : IsLeaf(m, p) => IsWord(m, R, Word(m, p))
  BY <1>0, <1>4, LeafWord
<1>8. Word(m, q) \in ResolveInitialState(m)
  BY <1>5, <1>6
<1>9. QED
  BY <1>6, <1>7, <1>8 DEF Within

LEMMA SucceedWithin ==
  ASSUME NEW m, IsMachine(m), Accepted(m), NEW R, Closed(m, R), NEW v, v # {},
         Within(m, R, v), NEW e, NEW refs,
         Chosen(m, e, ResolveTransitionsForEvent(m, v, e), refs)
  PROVE  LET step == SuccessfulStep(m, v, ResolveTransitionsForEvent(m, v, e), refs)
         IN  StepIn(m, R, step) /\ AllFollowed(m, step)
<1> DEFINE sources == ResolveTransitionsForEvent(m, v, e)
           step == Broadcast(m, v, sources, refs)
<1>1. /\ Len(sources) \in Nat /\ DOMAIN sources = 1..Len(sources)
      /\ Chosen(m, e, sources, refs)
      /\ \A k \in 1..Len(sources) :
             sources[k] \in R /\ e \in DOMAIN m.nodes[sources[k]].on
  BY SourcesWithin
<1> HIDE DEF sources
<1>2. StepIn(m, R, step) /\ AllFollowed(m, step)
  BY <1>1, BroadcastWithin
<1> HIDE DEF step
<1>3. OnDoneRounds \in Nat
  BY DEF OnDoneRounds
<1>4. StepIn(m, R, CascadeOnDone(m, step, OnDoneRounds))
      /\ AllFollowed(m, CascadeOnDone(m, step, OnDoneRounds))
  BY <1>2, <1>3, CascadeWithin
<1>5. QED
  BY <1>4 DEF step, sources, SuccessfulStep

LEMMA FailWithin ==
  ASSUME NEW m, IsMachine(m), Accepted(m), NEW R, Closed(m, R), NEW v, v # {},
         Within(m, R, v), NEW e,
         NEW k \in DOMAIN ResolveTransitionsForEvent(m, v, e), NEW refs,
         Chosen(m, e, Take(ResolveTransitionsForEvent(m, v, e), k - 1), refs)
  PROVE  LET sources == ResolveTransitionsForEvent(m, v, e)
             s == sources[k]
             edge == m.nodes[s].on[e]
             ref == EffectivePolicy(m, edge).failTarget
         IN  /\ s \in R /\ s \in DOMAIN m.nodes /\ edge \in EdgesOf(m.nodes[s])
             /\ Resolvable(m, s, ref) => StepIn(m, R, FailedStep(m, v, e, sources, refs, k))
<1> DEFINE sources == ResolveTransitionsForEvent(m, v, e)
           s == sources[k]
           edge == m.nodes[s].on[e]
           ref == EffectivePolicy(m, edge).failTarget
           first == Take(sources, k - 1)
           before == Broadcast(m, v, first, refs)
           step == [before EXCEPT !.effects = <<>>]
<1>1. /\ Len(sources) \in Nat /\ DOMAIN sources = 1..Len(sources)
      /\ \A i \in 1..Len(sources) :
             /\ sources[i] \in R /\ sources[i] \in DOMAIN m.nodes
             /\ e \in DOMAIN m.nodes[sources[i]].on
  BY SourcesWithin
<1> HIDE DEF sources
<1>2. k \in 1..Len(sources)
  BY <1>1 DEF sources
<1>3. s \in R /\ s \in DOMAIN m.nodes /\ e \in DOMAIN m.nodes[s].on
  BY <1>1, <1>2
<1>4. edge \in EdgesOf(m.nodes[s])
  BY <1>3 DEF EdgesOf
<1>5. /\ Len(first) \in Nat /\ DOMAIN first = 1..Len(first)
      /\ Chosen(m, e, first, refs)
      /\ \A i \in 1..Len(first) :
             first[i] \in R /\ e \in DOMAIN m.nodes[first[i]].on
  <2>0. Chosen(m, e, first, refs)
    BY DEF sources
  <2>1. first = [i \in 1..(k - 1) |-> sources[i]]
    BY <1>2 DEF Take
  <2>2. /\ Len(first) = k - 1 /\ DOMAIN first = 1..Len(first)
        /\ \A i \in 1..(k - 1) : first[i] = sources[i]
    BY <1>2, <2>1
  <2>3. 1..(k - 1) \subseteq 1..Len(sources)
    BY <1>1, <1>2
  <2> HIDE DEF first
  <2>4. QED
    BY <1>1, <1>2, <2>0, <2>2, <2>3
<1> HIDE DEF first
<1>6. StepIn(m, R, before)
  BY <1>5, BroadcastWithin
<1>7. step.value = before.value /\ step.taken = before.taken
  <2>1. "value" \in DOMAIN before /\ "taken" \in DOMAIN before
    BY <1>5, BroadcastFields
  <2> HIDE DEF before
  <2>2. QED
    BY <2>1
<1> HIDE DEF before, step
<1>8. StepIn(m, R, step)
  BY <1>6, <1>7 DEF StepIn
<1>9. ASSUME Resolvable(m, s, ref) PROVE StepIn(m, R, TakeTransition(m, step, s, ref))
  <2>1. ref # NoRef => ResolveTargetStatePath(m, s, ref) \in R
    BY <1>3, <1>4, <1>9 DEF Closed
  <2> HIDE DEF s, ref
  <2>2. QED
    BY <1>3, <1>8, <2>1, TakeTransitionWithin
<1>10. QED
  BY <1>3, <1>4, <1>9 DEF step, before, first, sources, FailedStep
-----------------------------------------------------------------------------
(* The inductive invariant. *)

\* Whatever is active lies in every closed set of states.
InClosedSets ==
    /\ status = None => value = {} /\ taken = {}
    /\ \A R : Closed(machine, R) =>
           /\ status # None => value # {} /\ Within(machine, R, value)
           /\ taken \subseteq R \X R

Outcomes ==
    /\ status \in {None, "IDLE", "IN_FLIGHT", "COMPENSATING", "COMPLETED", "FAILED",
                   "COMPENSATED"}
    /\ outcome \in {None, "started", "succeeded", "failed", "thrown"}

IInv == DocumentsOK /\ InClosedSets /\ Outcomes

LEMMA MachineLoaded == DocumentsOK => IsMachine(machine)
BY DefinitionsAssumption, LoadedMachine DEF DocumentsOK

\* All states together are a closed set.
LEMMA AllClosed ==
  ASSUME NEW m, IsMachine(m), ~RootIssues(m)
  PROVE  Closed(m, DOMAIN m.nodes)
<1>1. \A p \in DOMAIN m.nodes : \A k \in 1..Len(p) : Take(p, k) \in DOMAIN m.nodes
  BY PrefixesAreNodes
<1>2. \A p, q : Enters(m, p, q) => q \in DOMAIN m.nodes
  BY DEF Enters, Children
<1>3. m.type = "compound" => <<m.initial>> \in DOMAIN m.nodes
  BY DEF RootIssues
<1>4. Children(m, <<>>) \ (IF m.implicitError THEN {ErrorPath} ELSE {})
          \subseteq DOMAIN m.nodes
  BY DEF Children
<1>5. \A p, ref : Resolvable(m, p, ref) =>
                      ResolveTargetStatePath(m, p, ref) \in DOMAIN m.nodes
  BY ResolvedIsNode
<1>6. QED
  BY <1>1, <1>2, <1>3, <1>4, <1>5 DEF Closed

LEMMA IInvInit == Init => IInv
BY DocumentsInit DEF Init, IInv, InClosedSets, Outcomes, Within

\* What a step that succeeds, or fails and is handled, makes of the value.
LEMMA CommitWithin ==
  ASSUME NEW step, NEW newStatus, NEW how, Commit(step, newStatus, how),
         newStatus # None,
         \A R : Closed(machine, R) => StepIn(machine, R, step)
  PROVE  InClosedSets'
<1>1. machine' = machine /\ value' = step.value /\ taken' = step.taken
      /\ status' = newStatus
  BY DEF Commit, documents
<1>2. QED
  BY <1>1 DEF InClosedSets, StepIn

LEMMA StartWithin == IInv /\ Start => InClosedSets' /\ Outcomes'
<1> SUFFICES ASSUME IInv, Start PROVE InClosedSets' /\ Outcomes'
  OBVIOUS
<1> DEFINE v == ResolveInitialState(machine)
           entries == DocumentOrder(machine, InitialStates(machine))
           step == [value |-> v, taken |-> {},
                    effects |-> [i \in DOMAIN entries |-> <<"entry", entries[i]>>]]
           newStatus == ResolveSettledTransactionStatus(machine, v, FALSE)
<1>1. Commit(step, newStatus, "started") /\ Accepted(machine) /\ IsMachine(machine)
  BY MachineLoaded DEF Start, IInv
<1>2. newStatus \in {"IDLE", "COMPLETED", "FAILED", "COMPENSATED"}
  BY SettledStatus
<1>3. \A R : Closed(machine, R) => StepIn(machine, R, step)
  <2>1. \A R : Closed(machine, R) => Within(machine, R, v) /\ v # {}
    BY <1>1, InitialWithin
  <2> HIDE DEF v
  <2>2. step.value = v /\ step.taken = {}
    OBVIOUS
  <2> HIDE DEF step
  <2>3. QED
    BY <2>1, <2>2 DEF StepIn
<1> HIDE DEF step, newStatus
<1>4. InClosedSets'
  BY <1>1, <1>2, <1>3, CommitWithin DEF None
<1>5. Outcomes'
  BY <1>1, <1>2, CommitFacts DEF Outcomes
<1>6. QED
  BY <1>4, <1>5

LEMMA SucceedStep ==
  ASSUME IInv, NEW e \in Events, Succeed(e)
  PROVE  /\ InClosedSets' /\ Outcomes' /\ outcome' = "succeeded"
         /\ \A move \in taken' : Followed(machine, move)
<1> DEFINE sources == ResolveTransitionsForEvent(machine, value, e)
<1>1. PICK refs :
          LET step == SuccessfulStep(machine, value, sources, refs)
          IN  /\ Chosen(machine, e, sources, refs)
              /\ Commit(step,
                        ResolveSettledTransactionStatus(machine, step.value, FALSE),
                        "succeeded")
  BY SucceedFacts
<1> DEFINE step == SuccessfulStep(machine, value, sources, refs)
           newStatus == ResolveSettledTransactionStatus(machine, step.value, FALSE)
<1>2. status # None /\ Accepted(machine) /\ IsMachine(machine)
  BY SucceedFacts, MachineLoaded DEF IInv, DocumentsOK
<1>3. newStatus \in {"IDLE", "COMPLETED", "FAILED", "COMPENSATED"}
  BY SettledStatus
<1>4. \A R : Closed(machine, R) => value # {} /\ Within(machine, R, value)
  BY <1>2 DEF IInv, InClosedSets
<1>5. \A R : Closed(machine, R) => StepIn(machine, R, step) /\ AllFollowed(machine, step)
  BY <1>1, <1>2, <1>4, SucceedWithin
<1>6. Closed(machine, DOMAIN machine.nodes)
  BY <1>2, AllClosed DEF Accepted
<1>7. Commit(step, newStatus, "succeeded")
  BY <1>1
<1> HIDE DEF step, newStatus
<1>8. InClosedSets'
  BY <1>3, <1>5, <1>7, CommitWithin DEF None
<1>9. Outcomes' /\ outcome' = "succeeded"
  BY <1>3, <1>7, CommitFacts DEF Outcomes
<1>10. \A move \in taken' : Followed(machine, move)
  BY <1>5, <1>6, <1>7, CommitFacts DEF AllFollowed
<1>11. QED
  BY <1>8, <1>9, <1>10

\* A call that throws writes no state.
LEMMA ThrowingStep ==
  ASSUME IInv, status # None, NEW newStatus \in {"IN_FLIGHT", "COMPENSATING"},
         Commit(Working(value), newStatus, "thrown")
  PROVE  InClosedSets' /\ Outcomes' /\ outcome' = "thrown"
<1>1. Working(value).value = value /\ Working(value).taken = {}
  BY DEF Working
<1>2. \A R : Closed(machine, R) => StepIn(machine, R, Working(value))
  BY <1>1 DEF StepIn, IInv, InClosedSets
<1>3. InClosedSets'
  BY <1>2, CommitWithin DEF None
<1>4. QED
  BY <1>3, CommitFacts DEF Outcomes

\* A handler may return a target that does not resolve.
ReturnsOne == \E p \in DOMAIN machine.nodes : \E edge \in EdgesOf(machine.nodes[p]) :
                  \E ref \in edge.returns : Throws(machine, p, ref)

\* Some edge has a fallback that does not resolve.
FallsNowhere ==
    \E p \in DOMAIN machine.nodes : \E edge \in EdgesOf(machine.nodes[p]) :
        ~Resolvable(machine, p, EffectivePolicy(machine, edge).failTarget)

LEMMA ReturnStep ==
  ASSUME IInv, NEW e \in Events, ReturnsUnresolved(e)
  PROVE  InClosedSets' /\ Outcomes' /\ outcome' = "thrown" /\ ReturnsOne
<1> DEFINE sources == ResolveTransitionsForEvent(machine, value, e)
<1>1. status # None /\ Commit(Working(value), "IN_FLIGHT", "thrown")
  BY DEF ReturnsUnresolved
<1>2. PICK k \in DOMAIN sources :
          \E ref \in SuccessTargets(machine.nodes[sources[k]].on[e]) :
              Throws(machine, sources[k], ref)
  BY DEF ReturnsUnresolved
<1>3. Accepted(machine) /\ IsMachine(machine)
  BY <1>1, MachineLoaded DEF IInv, DocumentsOK
<1>4. Closed(machine, DOMAIN machine.nodes)
  BY <1>3, AllClosed DEF Accepted
<1>5. Within(machine, DOMAIN machine.nodes, value)
  BY <1>1, <1>4 DEF IInv, InClosedSets
<1>6. /\ DOMAIN sources = 1..Len(sources)
      /\ \A i \in 1..Len(sources) : /\ sources[i] \in DOMAIN machine.nodes
                                     /\ e \in DOMAIN machine.nodes[sources[i]].on
  BY <1>3, <1>4, <1>5, SourcesWithin
<1> HIDE DEF sources
<1> DEFINE p == sources[k]
           edge == machine.nodes[p].on[e]
<1>7. p \in DOMAIN machine.nodes /\ edge \in EdgesOf(machine.nodes[p])
  BY <1>6 DEF EdgesOf
<1>8. PICK ref \in SuccessTargets(edge) : Throws(machine, p, ref)
  BY <1>2
<1> HIDE DEF p, edge
<1>9. ~Throws(machine, p, edge.target)
  BY <1>3, <1>7, AcceptedNode DEF EdgeIssues, Throws
<1>10. ReturnsOne
  BY <1>7, <1>8, <1>9 DEF SuccessTargets, ReturnsOne
<1>11. QED
  BY <1>1, <1>10, ThrowingStep

LEMMA FailStep ==
  ASSUME IInv, NEW e \in Events, Fail(e)
  PROVE  /\ InClosedSets' /\ Outcomes' /\ outcome' \in {"failed", "thrown"}
         /\ outcome' = "thrown" => FallsNowhere
<1> DEFINE sources == ResolveTransitionsForEvent(machine, value, e)
<1>1. status # None /\ \E k \in DOMAIN sources : \E refs : Failing(e, sources, refs, k)
  BY FailFacts
<1>2. PICK k \in DOMAIN sources : \E refs : Failing(e, sources, refs, k)
  BY <1>1
<1>3. PICK refs : Failing(e, sources, refs, k)
  BY <1>2
<1> DEFINE s == sources[k]
           edge == machine.nodes[s].on[e]
           policy == EffectivePolicy(machine, edge)
           ref == policy.failTarget
           step == FailedStep(machine, value, e, sources, refs, k)
           newStatus == ResolveSettledTransactionStatus(machine, step.value,
                                                        policy.compensate)
           left == IF policy.compensate THEN "COMPENSATING" ELSE "IN_FLIGHT"
<1>4. /\ Chosen(machine, e, Take(sources, k - 1), refs)
      /\ IF Resolvable(machine, s, ref) THEN Commit(step, newStatus, "failed")
         ELSE Commit(Working(value), left, "thrown")
  BY <1>3 DEF Failing
<1>5. Accepted(machine) /\ IsMachine(machine)
  BY <1>1, MachineLoaded DEF IInv, DocumentsOK
<1>6. newStatus \in {"IDLE", "COMPLETED", "FAILED", "COMPENSATED"}
  BY SettledStatus
<1>7. \A R : Closed(machine, R) => value # {} /\ Within(machine, R, value)
  BY <1>1 DEF IInv, InClosedSets
<1>8. Closed(machine, DOMAIN machine.nodes)
  BY <1>5, AllClosed DEF Accepted
<1>9. \A R : Closed(machine, R) =>
          /\ s \in DOMAIN machine.nodes /\ edge \in EdgesOf(machine.nodes[s])
          /\ Resolvable(machine, s, ref) => StepIn(machine, R, step)
  BY <1>4, <1>5, <1>7, FailWithin
<1>10. s \in DOMAIN machine.nodes /\ edge \in EdgesOf(machine.nodes[s])
  BY <1>8, <1>9
<1> HIDE DEF step, newStatus
<1>11. CASE Resolvable(machine, s, ref)
  <2>1. Commit(step, newStatus, "failed")
    BY <1>4, <1>11
  <2>2. \A R : Closed(machine, R) => StepIn(machine, R, step)
    BY <1>9, <1>11
  <2>3. InClosedSets'
    BY <1>6, <2>1, <2>2, CommitWithin DEF None
  <2>4. Outcomes' /\ outcome' = "failed"
    BY <1>6, <2>1, CommitFacts DEF Outcomes
  <2>5. QED
    BY <2>3, <2>4
<1>12. CASE ~Resolvable(machine, s, ref)
  <2>1. Commit(Working(value), left, "thrown") /\ left \in {"IN_FLIGHT", "COMPENSATING"}
    BY <1>4, <1>12
  <2>2. FallsNowhere
    BY <1>10, <1>12 DEF FallsNowhere
  <2>3. QED
    BY <1>1, <2>1, <2>2, ThrowingStep
<1>13. QED
  BY <1>11, <1>12

LEMMA IInvStep == IInv /\ [Next]_vars => IInv'
<1> SUFFICES ASSUME IInv, [Next]_vars PROVE IInv'
  OBVIOUS
<1>1. DocumentsOK'
  BY DocumentsStep DEF IInv
<1>2. CASE UNCHANGED vars
  BY <1>1, <1>2 DEF IInv, InClosedSets, Outcomes, vars
<1>3. CASE Start
  BY <1>1, <1>3, StartWithin DEF IInv
<1>4. ASSUME NEW e \in Events, Succeed(e) PROVE IInv'
  BY <1>1, <1>4, SucceedStep DEF IInv
<1>5. ASSUME NEW e \in Events, ReturnsUnresolved(e) PROVE IInv'
  BY <1>1, <1>5, ReturnStep DEF IInv
<1>6. ASSUME NEW e \in Events, Fail(e) PROVE IInv'
  BY <1>1, <1>6, FailStep DEF IInv
<1>7. QED
  BY <1>2, <1>3, <1>4, <1>5, <1>6 DEF Next

LEMMA IInvInvariant == Spec => []IInv
BY IInvInit, IInvStep, PTL DEF Spec

-----------------------------------------------------------------------------
(* Its consequences. *)

\* The state value of a transaction is never empty and consists of words of
\* states of the machine, whatever is fired and fails, for every definition.
THEOREM TypeOKHolds == Spec => []TypeOK
<1>1. IInv => TypeOK
  <2> SUFFICES ASSUME IInv PROVE TypeOK
    OBVIOUS
  <2>1. IsMachine(machine)
    BY MachineLoaded DEF IInv
  <2>2. Outcomes
    BY DEF IInv
  <2>3. CASE status = None
    <3>1. value = {}
      BY <2>3 DEF IInv, InClosedSets
    <3>2. taken \subseteq (DOMAIN machine.nodes) \X (DOMAIN machine.nodes)
      BY <2>3 DEF IInv, InClosedSets
    <3>3. QED
      BY <2>2, <2>3, <3>1, <3>2 DEF TypeOK, Outcomes
  <2>4. CASE status # None
    <3>1. Closed(machine, DOMAIN machine.nodes)
      BY <2>1, <2>4, AllClosed DEF IInv, DocumentsOK, Accepted
    <3>2. value # {} /\ Within(machine, DOMAIN machine.nodes, value)
          /\ taken \subseteq (DOMAIN machine.nodes) \X (DOMAIN machine.nodes)
      BY <2>4, <3>1 DEF IInv, InClosedSets
    <3>3. \A w \in value : w \in DOMAIN machine.nodes \/ Front(w) \in DOMAIN machine.nodes
      BY <3>2 DEF Within, IsWord
    <3>4. QED
      BY <2>2, <3>2, <3>3 DEF TypeOK, Outcomes
  <2>5. QED
    BY <2>3, <2>4
<1>2. QED
  BY <1>1, IInvInvariant, PTL
\* The fail target of an edge resolves, unless a decorator or the global
\* defaults gave it: the SDK validates the transition's and the machine's, and
\* the built-in one is the error state.
LEMMA FailTargetResolves ==
  ASSUME NEW m, IsMachine(m), Accepted(m), NEW p \in DOMAIN m.nodes,
         NEW edge \in EdgesOf(m.nodes[p]),
         "failTarget" \notin DOMAIN edge.decorator \cup DOMAIN m.global
  PROVE  Resolvable(m, p, EffectivePolicy(m, edge).failTarget)
<1>1. EffectivePolicy(m, edge).failTarget =
          IF "failTarget" \in DOMAIN edge.policy THEN edge.policy.failTarget
          ELSE IF "failTarget" \in DOMAIN m.defaults THEN m.defaults.failTarget
          ELSE SdkDefaultPolicy.failTarget
  <2>1. "failTarget" \in DOMAIN SdkDefaultPolicy
    BY DEF SdkDefaultPolicy
  <2> DEFINE l1 == Over(m.global, SdkDefaultPolicy)
             l2 == Over(m.defaults, l1)
             l3 == Over(edge.policy, l2)
             l4 == Over(edge.decorator, l3)
  <2>2. EffectivePolicy(m, edge) = l4
    BY DEF EffectivePolicy, NormalizeTransitionPolicy
  <2>3. "failTarget" \in DOMAIN l1 /\ l1.failTarget = SdkDefaultPolicy.failTarget
    BY <2>1 DEF Over
  <2> HIDE DEF l1
  <2>4. "failTarget" \in DOMAIN l2 /\ l2.failTarget =
            IF "failTarget" \in DOMAIN m.defaults THEN m.defaults.failTarget
            ELSE SdkDefaultPolicy.failTarget
    BY <2>3 DEF Over
  <2> HIDE DEF l2
  <2>5. "failTarget" \in DOMAIN l3 /\ l3.failTarget =
            IF "failTarget" \in DOMAIN edge.policy THEN edge.policy.failTarget
            ELSE l2.failTarget
    BY <2>4 DEF Over
  <2> HIDE DEF l3
  <2>6. l4.failTarget = l3.failTarget
    BY <2>5 DEF Over
  <2>7. QED
    BY <2>2, <2>4, <2>5, <2>6
<1>2. CASE "failTarget" \in DOMAIN edge.policy
  BY <1>1, <1>2, AcceptedNode DEF EdgeIssues
<1>3. CASE "failTarget" \notin DOMAIN edge.policy /\ "failTarget" \in DOMAIN m.defaults
  <2> DEFINE ref == m.defaults.failTarget
  <2>1. Resolvable(m, <<>>, ref)
    BY <1>3 DEF Accepted, RootIssues
  <2>2. ref.path \in DOMAIN m.nodes /\ ref.spelling # "blanks"
    BY <2>1 DEF Resolvable, ResolveTargetStatePath
  <2>3. <<>> \notin DOMAIN m.nodes
    BY DEF IsMachine, IsTree
  <2> HIDE DEF ref
  <2>4. Resolvable(m, p, ref)
    BY <2>2, <2>3 DEF Resolvable, ResolveTargetStatePath
  <2>5. QED
    BY <1>1, <1>3, <2>4 DEF ref
<1>4. CASE "failTarget" \notin DOMAIN edge.policy /\ "failTarget" \notin DOMAIN m.defaults
  <2>1. /\ SdkDefaultPolicy.failTarget.path = ErrorPath
        /\ SdkDefaultPolicy.failTarget.spelling # "blanks"
    BY DEF SdkDefaultPolicy
  <2>2. ErrorPath \in DOMAIN m.nodes /\ <<>> \notin DOMAIN m.nodes
    BY DEF IsMachine, IsTree
  <2>3. Resolvable(m, p, SdkDefaultPolicy.failTarget)
    BY <2>1, <2>2 DEF Resolvable, ResolveTargetStatePath
  <2>4. QED
    BY <1>1, <1>4, <2>3
<1>5. QED
  BY <1>2, <1>3, <1>4

\* A thrown call has met a target that does not resolve.
ThrownUnresolved == outcome = "thrown" => status # None /\ (ReturnsOne \/ FallsNowhere)

LEMMA ThrownStep == IInv /\ ThrownUnresolved /\ [Next]_vars => ThrownUnresolved'
<1> SUFFICES ASSUME IInv, ThrownUnresolved, [Next]_vars PROVE ThrownUnresolved'
  OBVIOUS
<1>1. machine' = machine
  BY DocumentsStep DEF IInv, documents
<1>2. ReturnsOne' = ReturnsOne /\ FallsNowhere' = FallsNowhere
  BY <1>1 DEF ReturnsOne, FallsNowhere
<1>3. CASE UNCHANGED vars
  BY <1>2, <1>3 DEF ThrownUnresolved, vars
<1>4. CASE Start
  <2>1. outcome' = "started"
    BY <1>4 DEF Start, Commit
  <2>2. QED
    BY <2>1 DEF ThrownUnresolved
<1>5. ASSUME NEW e \in Events, Succeed(e) PROVE ThrownUnresolved'
  BY <1>5, SucceedStep DEF ThrownUnresolved
<1>6. ASSUME NEW e \in Events, ReturnsUnresolved(e) PROVE ThrownUnresolved'
  <2>1. status' = "IN_FLIGHT"
    BY <1>6 DEF ReturnsUnresolved, Commit
  <2>2. QED
    BY <1>2, <1>6, <2>1, ReturnStep DEF ThrownUnresolved, None
<1>7. ASSUME NEW e \in Events, Fail(e) PROVE ThrownUnresolved'
  <2>1. outcome' = "thrown" => status' # None
    <3> SUFFICES ASSUME outcome' = "thrown" PROVE status' # None
      OBVIOUS
    <3>1. PICK k, refs :
              Failing(e, ResolveTransitionsForEvent(machine, value, e), refs, k)
      BY <1>7, FailFacts
    <3>2. QED
      BY <3>1, FailingFacts
  <2>2. QED
    BY <1>2, <1>7, <2>1, FailStep DEF ThrownUnresolved
<1>8. QED
  BY <1>3, <1>4, <1>5, <1>6, <1>7 DEF Next

\* A call throws on an unresolvable target only if a handler returned it, or
\* if a decorator or the global defaults gave it as the fallback, and no step
\* takes a transition to nowhere.
THEOREM DefinitionTargetsResolveHolds == Spec => []DefinitionTargetsResolve
<1>1. IInv /\ ThrownUnresolved /\ TypeOK => DefinitionTargetsResolve
  <2> SUFFICES ASSUME IInv, ThrownUnresolved, TypeOK PROVE DefinitionTargetsResolve
    OBVIOUS
  <2>1. IsMachine(machine)
    BY MachineLoaded DEF IInv
  <2>2. \A move \in taken : move[2] # <<>>
    <3>1. \A move \in taken : move[2] \in DOMAIN machine.nodes
      BY DEF TypeOK
    <3>2. QED
      BY <2>1, <3>1, NodePath
  <2> DEFINE Blamed(p, edge) ==
                 \/ \E ref \in edge.returns : Throws(machine, p, ref)
                 \/ /\ "failTarget" \in DOMAIN edge.decorator \cup DOMAIN machine.global
                    /\ ~Resolvable(machine, p, EffectivePolicy(machine, edge).failTarget)
  <2>3. ASSUME outcome = "thrown"
        PROVE  \E p \in DOMAIN machine.nodes : \E edge \in EdgesOf(machine.nodes[p]) :
                   Blamed(p, edge)
    <3>1. Accepted(machine) /\ (ReturnsOne \/ FallsNowhere)
      BY <2>3 DEF IInv, DocumentsOK, ThrownUnresolved
    <3>2. CASE ReturnsOne
      BY <3>2 DEF ReturnsOne
    <3>3. CASE FallsNowhere
      <4>1. PICK p \in DOMAIN machine.nodes : \E edge \in EdgesOf(machine.nodes[p]) :
                ~Resolvable(machine, p, EffectivePolicy(machine, edge).failTarget)
        BY <3>3 DEF FallsNowhere
      <4>2. PICK edge \in EdgesOf(machine.nodes[p]) :
                ~Resolvable(machine, p, EffectivePolicy(machine, edge).failTarget)
        BY <4>1
      <4>3. Blamed(p, edge)
        BY <2>1, <3>1, <4>2, FailTargetResolves
      <4> HIDE DEF Blamed
      <4>4. QED
        BY <4>3
    <3>4. QED
      BY <3>1, <3>2, <3>3
  <2>4. QED
    BY <2>2, <2>3 DEF DefinitionTargetsResolve
<1>2. Init => ThrownUnresolved
  BY DEF Init, ThrownUnresolved, None
<1>3. QED
  BY <1>1, <1>2, ThrownStep, IInvInvariant, TypeOKHolds, PTL DEF Spec

\* The implicit error state has no edges; those of the others show no error.
LEMMA ShownEdges ==
  ASSUME NEW m, IsMachine(m), IsValid(m), NEW p \in DOMAIN m.nodes,
         NEW edge \in EdgesOf(m.nodes[p])
  PROVE  ~UnresolvedTarget(m, p, edge)
<1>1. p \in ExplicitStates(m)
  <2> SUFFICES ASSUME m.implicitError, p = ErrorPath PROVE FALSE
    BY DEF ExplicitStates
  <2>1. /\ m.nodes[p].on = <<>> /\ m.nodes[p].onDone = NoEdge
    BY DEF IsMachine, ImplicitError
  <2>2. EdgesOf(m.nodes[p]) = {}
    BY <2>1, NoEdgeTyped, EmptyHasNoFields DEF EdgesOf, HasOnDone
  <2>3. QED
    BY <2>2
<1>2. QED
  BY <1>1 DEF IsValid, StateSemantics

\* Every transition a step takes on success, the onDone cascade included, is
\* an edge of the editor's graph, or leads to a target that a handler returned.
THEOREM StepsAreDrawnHolds == Spec => StepsAreDrawn
<1> DEFINE Drawn ==
               editor.valid /\ outcome' = "succeeded" =>
                   \A move \in taken' :
                       \/ <<move[1], move[2], "target">> \in editor.edges
                       \/ \E edge \in EdgesOf(machine.nodes[move[1]]) : \E ref \in edge.returns :
                              ref # NoRef /\ ResolveTargetStatePath(machine, move[1], ref) = move[2]
<1>1. IInv /\ [Next]_vars => [Drawn]_vars
  <2> SUFFICES ASSUME IInv, Next, editor.valid, outcome' = "succeeded",
                      NEW move \in taken'
               PROVE  \/ <<move[1], move[2], "target">> \in editor.edges
                      \/ \E edge \in EdgesOf(machine.nodes[move[1]]) : \E ref \in edge.returns :
                             ref # NoRef /\ ResolveTargetStatePath(machine, move[1], ref) = move[2]
    BY DEF Drawn
  <2>1. PICK e \in Events : Succeed(e)
    <3>1. ASSUME Start PROVE FALSE
      <4>1. outcome' = "started"
        BY <3>1 DEF Start, Commit
      <4>2. QED
        BY <4>1
    <3>2. ASSUME NEW e \in Events, Fail(e) PROVE FALSE
      BY <3>2, FailStep
    <3>3. ASSUME NEW e \in Events, ReturnsUnresolved(e) PROVE FALSE
      BY <3>3, ReturnStep
    <3>4. QED
      BY <3>1, <3>2, <3>3 DEF Next
  <2>2. Followed(machine, move)
    BY <2>1, SucceedStep
  <2>3. PICK p \in DOMAIN machine.nodes : \E edge \in EdgesOf(machine.nodes[p]) :
            \E ref \in SuccessTargets(edge) :
                /\ ref # NoRef
                /\ move = <<p, ResolveTargetStatePath(machine, p, ref)>>
    BY <2>2 DEF Followed
  <2>4. PICK edge \in EdgesOf(machine.nodes[p]) : \E ref \in SuccessTargets(edge) :
                /\ ref # NoRef
                /\ move = <<p, ResolveTargetStatePath(machine, p, ref)>>
    BY <2>3
  <2>5. PICK ref \in SuccessTargets(edge) :
                /\ ref # NoRef
                /\ move = <<p, ResolveTargetStatePath(machine, p, ref)>>
    BY <2>4
  <2> DEFINE t == ResolveTargetStatePath(machine, p, ref)
  <2>6. move[1] = p /\ move[2] = t
    BY <2>5
  <2>7. CASE ref \in edge.returns
    BY <2>5, <2>6, <2>7
  <2>8. CASE ref = edge.target
    <3>1. /\ IsDocument(definition) /\ machine = ParseYamlMachine(definition)
          /\ editor = Analyze(machine) /\ IsMachine(machine)
      BY DefinitionsAssumption, SameMachine, MachineLoaded DEF IInv, DocumentsOK
    <3>2. editor.edges = GraphEdges(machine) /\ IsValid(machine)
      BY <3>1 DEF Analyze
    <3>3. IsTransition(edge) /\ p \in Path
      BY <3>1, EdgesTyped, NodePath
    <3>4. IsReference(ref)
      BY <2>5, <2>8, <3>3 DEF IsTransition
    <3>5. Resolvable(machine, p, ref)
      <4>1. status # None
        BY <2>1 DEF Succeed
      <4>2. Accepted(machine)
        BY <4>1 DEF IInv, DocumentsOK
      <4>3. ~EdgeIssues(machine, p, edge)
        BY <3>1, <4>2, AcceptedNode
      <4>4. QED
        BY <2>5, <2>8, <4>3 DEF EdgeIssues
    <3>6. ResolveStateTarget(machine, p, ref) # <<>>
      BY <2>5, <2>8, <3>1, <3>2, ShownEdges DEF UnresolvedTarget
    <3>7. t = ResolveStateTarget(machine, p, ref) /\ t # <<>>
      BY <3>1, <3>3, <3>4, <3>5, <3>6, BothResolve
    <3>8. <<p, t, "target">> \in DrawnEdges(machine, p, edge)
      BY <2>8, <3>7 DEF DrawnEdges
    <3>9. <<p, t, "target">> \in GraphEdges(machine)
      BY <3>8 DEF GraphEdges
    <3>10. QED
      BY <2>6, <3>2, <3>9
  <2>9. QED
    BY <2>7, <2>8 DEF SuccessTargets
<1>2. QED
  BY <1>1, IInvInvariant, PTL DEF Spec, StepsAreDrawn
-----------------------------------------------------------------------------
(* The editor's search for the states that can be reached. *)

\* f is the function EnterAll is the last value of.
IsEntering(f, em, search, inOrder) ==
    f = [i \in 0..Len(inOrder) |->
            IF i = 0 THEN search ELSE EnterState(em, f[i - 1], inOrder[i])]

LEMMA EnteringExists ==
  ASSUME NEW em, NEW search, NEW inOrder, Len(inOrder) \in Nat
  PROVE  \E f : IsEntering(f, em, search, inOrder)
<1> DEFINE Step(g, k) == IF k = 0 THEN search ELSE EnterState(em, g[k - 1], inOrder[k])
           UpTo(g, n) == g = [k \in 0..n |-> Step(g, k)]
           T == {n \in Nat : \E g : UpTo(g, n)}
<1>1. 0 \in T
  <2>1. UpTo([k \in 0..0 |-> search], 0)
    OBVIOUS
  <2>2. QED
    BY <2>1
<1>2. ASSUME NEW n \in Nat, n \in T PROVE n + 1 \in T
  <2>1. PICK g : UpTo(g, n)
    BY <1>2
  <2> DEFINE d == EnterState(em, g[n], inOrder[n + 1])
             h == [k \in 0..(n + 1) |-> IF k = n + 1 THEN d ELSE g[k]]
  <2>2. \A k \in 0..n : g[k] = Step(g, k)
    BY <2>1
  <2>3. d = Step(h, n + 1)
    <3>1. h[n] = g[n]
      OBVIOUS
    <3>2. (n + 1) - 1 = n /\ n + 1 # 0
      OBVIOUS
    <3> HIDE DEF h
    <3>3. QED
      BY <3>1, <3>2
  <2> HIDE DEF d
  <2>4. \A k \in 0..n : h[k] = g[k]
    OBVIOUS
  <2>5. h[n + 1] = d
    OBVIOUS
  <2>6. ASSUME NEW k \in 0..(n + 1) PROVE h[k] = Step(h, k)
    <3> HIDE DEF h
    <3>1. CASE k = n + 1
      BY <2>3, <2>5, <3>1
    <3>2. CASE k # n + 1
      <4>1. k \in 0..n /\ (k # 0 => k - 1 \in 0..n)
        BY <3>2
      <4>2. QED
        BY <2>2, <2>4, <4>1
    <3>3. QED
      BY <3>1, <3>2
  <2>7. UpTo(h, n + 1)
    <3>1. h = [k \in 0..(n + 1) |-> h[k]]
      OBVIOUS
    <3> HIDE DEF h, Step
    <3>2. h = [k \in 0..(n + 1) |-> Step(h, k)]
      BY <2>6, <3>1
    <3>3. QED
      BY <3>2
  <2> HIDE DEF UpTo, h
  <2>8. QED
    BY <2>7
<1>3. Len(inOrder) \in T
  <2> HIDE DEF T
  <2>1. QED
    BY <1>1, <1>2, Induction
<1>4. PICK g : UpTo(g, Len(inOrder))
  BY <1>3
<1>5. IsEntering(g, em, search, inOrder)
  BY <1>4 DEF IsEntering
<1>6. QED
  BY <1>5

\* f is the function Traverse is the last value of.
IsTraversal(f, em, search, withFail) ==
    f = [n \in 0..Cardinality(DOMAIN em.nodes) |->
            IF n = 0 THEN search ELSE Round(em, f[n - 1], withFail)]

LEMMA TraversalExists ==
  ASSUME NEW em, NEW search, NEW withFail,
         Cardinality(DOMAIN em.nodes) \in Nat
  PROVE  \E f : IsTraversal(f, em, search, withFail)
<1> DEFINE Step(g, k) == IF k = 0 THEN search ELSE Round(em, g[k - 1], withFail)
           UpTo(g, n) == g = [k \in 0..n |-> Step(g, k)]
           T == {n \in Nat : \E g : UpTo(g, n)}
<1>1. 0 \in T
  <2>1. UpTo([k \in 0..0 |-> search], 0)
    OBVIOUS
  <2>2. QED
    BY <2>1
<1>2. ASSUME NEW n \in Nat, n \in T PROVE n + 1 \in T
  <2>1. PICK g : UpTo(g, n)
    BY <1>2
  <2> DEFINE d == Round(em, g[n], withFail)
             h == [k \in 0..(n + 1) |-> IF k = n + 1 THEN d ELSE g[k]]
  <2>2. \A k \in 0..n : g[k] = Step(g, k)
    BY <2>1
  <2>3. d = Step(h, n + 1)
    <3>1. h[n] = g[n]
      OBVIOUS
    <3>2. (n + 1) - 1 = n /\ n + 1 # 0
      OBVIOUS
    <3> HIDE DEF h
    <3>3. QED
      BY <3>1, <3>2
  <2> HIDE DEF d
  <2>4. \A k \in 0..n : h[k] = g[k]
    OBVIOUS
  <2>5. h[n + 1] = d
    OBVIOUS
  <2>6. ASSUME NEW k \in 0..(n + 1) PROVE h[k] = Step(h, k)
    <3> HIDE DEF h
    <3>1. CASE k = n + 1
      BY <2>3, <2>5, <3>1
    <3>2. CASE k # n + 1
      <4>1. k \in 0..n /\ (k # 0 => k - 1 \in 0..n)
        BY <3>2
      <4>2. QED
        BY <2>2, <2>4, <4>1
    <3>3. QED
      BY <3>1, <3>2
  <2>7. UpTo(h, n + 1)
    <3>1. h = [k \in 0..(n + 1) |-> h[k]]
      OBVIOUS
    <3> HIDE DEF h, Step
    <3>2. h = [k \in 0..(n + 1) |-> Step(h, k)]
      BY <2>6, <3>1
    <3>3. QED
      BY <3>2
  <2> HIDE DEF UpTo, h
  <2>8. QED
    BY <2>7
<1>3. Cardinality(DOMAIN em.nodes) \in T
  <2> HIDE DEF T
  <2>1. QED
    BY <1>1, <1>2, Induction
<1>4. PICK g : UpTo(g, Cardinality(DOMAIN em.nodes))
  BY <1>3
<1>5. IsTraversal(g, em, search, withFail)
  BY <1>4 DEF IsTraversal
<1>6. QED
  BY <1>5

LEMMA NodesCounted ==
  ASSUME NEW m, IsMachine(m)
  PROVE  IsFiniteSet(DOMAIN m.nodes) /\ Cardinality(DOMAIN m.nodes) \in Nat
<1>1. IsFiniteSet(DOMAIN m.nodes)
  BY DEF IsMachine, IsTree
<1>2. QED
  BY <1>1, FS_CardinalityType

IsSearch(search) == search = [reachable |-> search.reachable, queue |-> search.queue]

\* Nothing that has been reached is forgotten.
LEMMA EnterStateGrows ==
  ASSUME NEW em, NEW search, NEW p
  PROVE  /\ IsSearch(EnterState(em, search, p))
         /\ search.reachable \subseteq EnterState(em, search, p).reachable
BY DEF EnterState, IsSearch

LEMMA EnterAllGrows ==
  ASSUME NEW m, IsMachine(m), NEW search, IsSearch(search),
         NEW S \in SUBSET DOMAIN m.nodes
  PROVE  /\ IsSearch(EnterAll(m, search, S))
         /\ search.reachable \subseteq EnterAll(m, search, S).reachable
<1> DEFINE inOrder == DocumentOrder(m, S)
           f == CHOOSE g : IsEntering(g, m, search, inOrder)
           Grown(n) == n <= Len(inOrder) =>
                           IsSearch(f[n]) /\ search.reachable \subseteq f[n].reachable
           T == {n \in Nat : Grown(n)}
<1>1. EnterAll(m, search, S) = f[Len(inOrder)]
  BY DEF EnterAll, IsEntering
<1>2. Len(inOrder) \in Nat
  BY StatesListed, ListingNotEmpty
<1> HIDE DEF inOrder
<1>3. IsEntering(f, m, search, inOrder)
  BY <1>2, EnteringExists
<1> HIDE DEF f
<1>4. Grown(0)
  BY <1>2, <1>3 DEF IsEntering
<1>5. ASSUME NEW n \in Nat, Grown(n) PROVE Grown(n + 1)
  <2> SUFFICES ASSUME n + 1 <= Len(inOrder)
               PROVE  IsSearch(f[n + 1]) /\ search.reachable \subseteq f[n + 1].reachable
    OBVIOUS
  <2>1. n + 1 \in 0..Len(inOrder) /\ (n + 1) - 1 = n /\ n + 1 # 0 /\ n <= Len(inOrder)
    BY <1>2
  <2>2. f[n + 1] = EnterState(m, f[n], inOrder[n + 1])
    BY <1>3, <2>1 DEF IsEntering
  <2>3. search.reachable \subseteq f[n].reachable
    BY <1>5, <2>1
  <2>4. QED
    BY <2>2, <2>3, EnterStateGrows
<1>6. \A n \in Nat : Grown(n)
  <2> HIDE DEF Grown
  <2>1. 0 \in T /\ \A n \in Nat : n \in T => n + 1 \in T
    BY <1>4, <1>5
  <2> HIDE DEF T
  <2>2. \A n \in Nat : n \in T
    BY <2>1, Induction
  <2>3. QED
    BY <2>2 DEF T
<1>7. QED
  BY <1>1, <1>2, <1>6

LEMMA TargetsAreStates ==
  ASSUME NEW m, NEW p, NEW withFail
  PROVE  TargetsOf(m, p, withFail) \in SUBSET DOMAIN m.nodes
<1>1. ASSUME NEW ref PROVE ResolveStateTarget(m, p, ref) \in DOMAIN m.nodes \cup {<<>>}
  <2> DEFINE candidates == IF ref.root \/ Len(p) < 2 THEN <<ref.path>>
                           ELSE <<Front(p) \o ref.path, ref.path>>
             found == {i \in DOMAIN candidates : candidates[i] \in DOMAIN m.nodes}
  <2>1. ResolveStateTarget(m, p, ref) =
            IF ref.spelling = "gaps" \/ ref.path = <<>> \/ found = {}
            THEN <<>> ELSE candidates[Min(found)]
    BY DEF ResolveStateTarget
  <2>2. DOMAIN candidates = {1} \/ DOMAIN candidates = {1, 2}
    OBVIOUS
  <2>3. \A i \in found : i \in DOMAIN candidates /\ candidates[i] \in DOMAIN m.nodes
    OBVIOUS
  <2>4. found # {} => Min(found) \in found
    <3>1. \A i \in found : i = 1 \/ i = 2
      BY <2>2, <2>3
    <3> HIDE DEF found
    <3>2. CASE 1 \in found
      <4>1. \A i \in found : 1 <= i
        BY <3>1
      <4>2. QED
        BY <3>1, <3>2, <4>1 DEF Min
    <3>3. CASE 1 \notin found
      BY <3>1, <3>3 DEF Min
    <3>4. QED
      BY <3>2, <3>3
  <2> HIDE DEF found, candidates
  <2>5. QED
    BY <2>1, <2>3, <2>4
<1>2. QED
  BY <1>1 DEF TargetsOf

LEMMA Dequeued ==
  ASSUME NEW search, IsSearch(search)
  PROVE  LET rest == [search EXCEPT !.queue = Tail(@)]
         IN  /\ IsSearch(rest) /\ rest.reachable = search.reachable
             /\ rest.queue = Tail(search.queue)
<1> DEFINE r == search.reachable
           q == search.queue
           rest == [search EXCEPT !.queue = Tail(@)]
<1>1. search = [reachable |-> r, queue |-> q]
  BY DEF IsSearch
<1>2. DOMAIN search = {"reachable", "queue"}
  <2> HIDE DEF r, q
  <2>1. QED
    BY <1>1
<1>3. /\ rest.reachable = r /\ rest.queue = Tail(q)
      /\ DOMAIN rest = {"reachable", "queue"}
      /\ rest = [x \in {"reachable", "queue"} |-> rest[x]]
  BY <1>2
<1> HIDE DEF rest
<1>4. rest = [reachable |-> rest.reachable, queue |-> rest.queue]
  BY <1>3
<1>5. QED
  BY <1>3, <1>4 DEF IsSearch, rest

LEMMA RoundGrows ==
  ASSUME NEW m, IsMachine(m), NEW search, IsSearch(search), NEW withFail
  PROVE  /\ IsSearch(Round(m, search, withFail))
         /\ search.reachable \subseteq Round(m, search, withFail).reachable
<1> DEFINE rest == [search EXCEPT !.queue = Tail(@)]
           S == TargetsOf(m, Head(search.queue), withFail)
<1>1. CASE search.queue = <<>>
  BY <1>1 DEF Round
<1>2. CASE search.queue # <<>>
  <2>1. Round(m, search, withFail) = EnterAll(m, rest, S)
    BY <1>2 DEF Round
  <2>2. IsSearch(rest) /\ rest.reachable = search.reachable
    BY Dequeued
  <2>3. S \in SUBSET DOMAIN m.nodes
    BY TargetsAreStates
  <2> HIDE DEF rest, S
  <2>4. QED
    BY <2>1, <2>2, <2>3, EnterAllGrows
<1>3. QED
  BY <1>1, <1>2

LEMMA TraverseGrows ==
  ASSUME NEW m, IsMachine(m), NEW search, IsSearch(search), NEW withFail
  PROVE  /\ IsSearch(Traverse(m, search, withFail))
         /\ search.reachable \subseteq Traverse(m, search, withFail).reachable
<1> DEFINE N == Cardinality(DOMAIN m.nodes)
           f == CHOOSE g : IsTraversal(g, m, search, withFail)
           Grown(n) == n <= N => IsSearch(f[n]) /\ search.reachable \subseteq f[n].reachable
           T == {n \in Nat : Grown(n)}
<1>1. Traverse(m, search, withFail) = f[N]
  BY DEF Traverse, IsTraversal
<1>2. N \in Nat
  BY NodesCounted
<1>3. IsTraversal(f, m, search, withFail)
  BY <1>2, TraversalExists
<1>7. f = [n \in 0..N |-> IF n = 0 THEN search ELSE Round(m, f[n - 1], withFail)]
  BY <1>3 DEF IsTraversal
<1> HIDE DEF f, N
<1>4. Grown(0)
  BY <1>2, <1>7
<1>5. ASSUME NEW n \in Nat, Grown(n) PROVE Grown(n + 1)
  <2> SUFFICES ASSUME n + 1 <= N
               PROVE  IsSearch(f[n + 1]) /\ search.reachable \subseteq f[n + 1].reachable
    OBVIOUS
  <2>1. n + 1 \in 0..N /\ (n + 1) - 1 = n /\ n + 1 # 0 /\ n <= N
    BY <1>2
  <2>2. f[n + 1] = Round(m, f[n], withFail)
    BY <1>7, <2>1
  <2>3. IsSearch(f[n]) /\ search.reachable \subseteq f[n].reachable
    BY <1>5, <2>1
  <2>4. QED
    BY <2>2, <2>3, RoundGrows
<1>6. \A n \in Nat : Grown(n)
  <2> HIDE DEF Grown
  <2>1. 0 \in T /\ \A n \in Nat : n \in T => n + 1 \in T
    BY <1>4, <1>5
  <2> HIDE DEF T
  <2>2. \A n \in Nat : n \in T
    BY <2>1, Induction
  <2>3. QED
    BY <2>2 DEF T
<1>8. QED
  BY <1>1, <1>2, <1>6

LEMMA ListingConcat ==
  ASSUME NEW S, NEW c, IsListing(c, S), NEW T, NEW d, IsListing(d, T), S \cap T = {}
  PROVE  IsListing(c \o d, S \cup T)
<1> DEFINE b == c \o d
<1>1. /\ c \in Seq(S \cup T) /\ d \in Seq(S \cup T) /\ Len(c) \in Nat /\ Len(d) \in Nat
      /\ DOMAIN c = 1..Len(c) /\ DOMAIN d = 1..Len(d)
  BY DEF IsListing
<1>2. /\ b \in Seq(S \cup T) /\ Len(b) = Len(c) + Len(d)
      /\ DOMAIN b = 1..(Len(c) + Len(d))
      /\ \A i \in 1..(Len(c) + Len(d)) :
             b[i] = IF i <= Len(c) THEN c[i] ELSE d[i - Len(c)]
  BY <1>1
<1> HIDE DEF b
<1>3. /\ \A i \in 1..Len(c) : c[i] \in S
      /\ \A i \in 1..Len(d) : d[i] \in T
  BY <1>1 DEF IsListing
<1>4. ASSUME NEW p \in S \cup T PROVE \E k \in DOMAIN b : b[k] = p
  <2>1. CASE p \in S
    <3>1. PICK k \in 1..Len(c) : c[k] = p
      BY <1>1, <2>1 DEF IsListing
    <3>2. k \in 1..(Len(c) + Len(d)) /\ k <= Len(c)
      BY <1>1
    <3>3. QED
      BY <1>2, <3>1, <3>2
  <2>2. CASE p \in T
    <3>1. PICK k \in 1..Len(d) : d[k] = p
      BY <1>1, <2>2 DEF IsListing
    <3>2. k + Len(c) \in 1..(Len(c) + Len(d)) /\ ~(k + Len(c) <= Len(c))
          /\ (k + Len(c)) - Len(c) = k
      BY <1>1
    <3>3. QED
      BY <1>2, <3>1, <3>2
  <2>3. QED
    BY <2>1, <2>2
<1>5. ASSUME NEW i \in 1..(Len(c) + Len(d)), NEW j \in 1..(Len(c) + Len(d)), b[i] = b[j]
      PROVE  i = j
  <2>1. ASSUME NEW x \in 1..(Len(c) + Len(d))
        PROVE  /\ x <= Len(c) => x \in 1..Len(c) /\ b[x] = c[x] /\ b[x] \in S
               /\ ~(x <= Len(c)) => /\ x - Len(c) \in 1..Len(d)
                                    /\ b[x] = d[x - Len(c)] /\ b[x] \in T
    <3>1. x <= Len(c) => x \in 1..Len(c)
      BY <1>1
    <3>2. ~(x <= Len(c)) => x - Len(c) \in 1..Len(d)
      BY <1>1
    <3>3. QED
      BY <1>2, <1>3, <3>1, <3>2
  <2>2. CASE i <= Len(c) /\ j <= Len(c)
    BY <1>1, <1>5, <2>1, <2>2 DEF IsListing
  <2>3. CASE ~(i <= Len(c)) /\ ~(j <= Len(c))
    <3>1. i - Len(c) = j - Len(c)
      BY <1>1, <1>5, <2>1, <2>3 DEF IsListing
    <3>2. QED
      BY <1>1, <3>1
  <2>4. (i <= Len(c)) <=> (j <= Len(c))
    BY <1>5, <2>1
  <2>5. QED
    BY <2>2, <2>3, <2>4
<1>6. IsListing(b, S \cup T)
  BY <1>2, <1>4, <1>5 DEF IsListing
<1>7. QED
  BY <1>6 DEF b

\* The editor and the engine agree on what is entered with a state.
LEMMA EnteredIsSubtree ==
  ASSUME NEW m, IsMachine(m), Accepted(m), NEW p \in DOMAIN m.nodes
  PROVE  EnteredWith(m, p) = EnterSubtree(m, p)
<1>1. p \in Path /\ Len(p) \in Nat \ {0}
  BY NodePath
<1>2. ASSUME NEW q \in DOMAIN m.nodes, IsPrefix(p, q), NEW k \in Len(p)..(Len(q) - 1)
      PROVE  (\/ m.nodes[Take(q, k)].type = "parallel"
              \/ m.nodes[Take(q, k)].type = "compound"
                     /\ m.nodes[Take(q, k)].initial = q[k + 1])
             <=> (\/ IsParallel(m, Take(q, k))
                  \/ m.nodes[Take(q, k)].initial = q[k + 1])
  <2>1. Len(q) \in Nat /\ \A i \in 1..Len(q) : q[i] # None
    BY NodePath
  <2>2. k \in 1..Len(q) /\ k + 1 \in 1..Len(q)
    BY <1>1, <2>1
  <2>3. Take(q, k) \in DOMAIN m.nodes /\ q[k + 1] # None
    BY <2>1, <2>2, PrefixesAreNodes
  <2> DEFINE r == Take(q, k)
  <2> HIDE DEF r
  <2>4. r \in DOMAIN m.nodes
    BY <2>3 DEF r
  <2>5. IsParallel(m, r) <=> m.nodes[r].type = "parallel"
    BY <2>4, AcceptedNode
  <2>6. m.nodes[r].initial = None \/ m.nodes[r].type = "compound"
    BY <2>4, AcceptedNode
  <2>7. QED
    BY <2>3, <2>5, <2>6 DEF r
<1>3. \A q : q \in EnteredWith(m, p) <=> q \in EnterSubtree(m, p)
  BY <1>2 DEF EnteredWith, EnterSubtree
<1>4. EnteredWith(m, p) \subseteq DOMAIN m.nodes /\ EnterSubtree(m, p) \subseteq DOMAIN m.nodes
  BY DEF EnteredWith, EnterSubtree
<1>5. QED
  BY <1>3, <1>4

\* A search in progress, with the states W still queued.
Shape(m, search, W) ==
    /\ IsSearch(search)
    /\ search.reachable \subseteq DOMAIN m.nodes
    /\ \A p \in search.reachable : \A k \in 1..Len(p) : Take(p, k) \in search.reachable
    /\ \A p \in search.reachable : \A q : Enters(m, p, q) => q \in search.reachable
    /\ W \subseteq search.reachable
    /\ IsListing(search.queue, W)

\* The states above p have been reached.
Shallow(search, p) == \A k \in 1..(Len(p) - 1) : Take(p, k) \in search.reachable

LEMMA EnterStateShape ==
  ASSUME NEW m, IsMachine(m), Accepted(m), NEW search, NEW W, Shape(m, search, W),
         NEW p \in DOMAIN m.nodes, Shallow(search, p)
  PROVE  \E V : /\ Shape(m, EnterState(m, search, p), V)
                /\ p \in EnterState(m, search, p).reachable
                /\ EnterState(m, search, p).reachable \ V = search.reachable \ W
<1> DEFINE marked == search.reachable
           entered == {q \in EnterSubtree(m, p) :
                           \A k \in Len(p)..Len(q) : Take(q, k) \notin marked}
           next == EnterState(m, search, p)
           ancestors == {Take(p, k) : k \in 1..(Len(p) - 1)} \ search.reachable
           before == {q \in EnteredWith(m, p) :
                          \A k \in Len(p)..Len(q) :
                              Take(q, k) \notin search.reachable \cup ancestors}
<1>1. p \in Path /\ Len(p) \in Nat \ {0} /\ Take(p, Len(p)) = p
  BY NodePath, TakeAll
<1>2. ancestors = {}
  BY DEF Shallow
<1>3. before = entered
  BY <1>2, EnteredIsSubtree
<1>4. entered \in SUBSET DOMAIN m.nodes
  BY DEF EnterSubtree
<1>5. next.reachable = marked \cup entered /\ IsSearch(next)
      /\ next.queue = search.queue \o Reverse(DocumentOrder(m, ancestors))
                          \o DocumentOrder(m, before)
  <2>1. next = [reachable |-> (search.reachable \cup ancestors) \cup before,
                queue |-> search.queue \o Reverse(DocumentOrder(m, ancestors))
                              \o DocumentOrder(m, before)]
    BY DEF EnterState
  <2> HIDE DEF next, ancestors, before, entered
  <2>2. QED
    BY <1>2, <1>3, <2>1 DEF IsSearch
<1>6. Reverse(DocumentOrder(m, ancestors)) = <<>>
  <2>1. IsListing(DocumentOrder(m, {}), {})
    BY StatesListed
  <2>2. DocumentOrder(m, {}) = <<>>
    BY <2>1, ListingNotEmpty
  <2>3. Reverse(<<>>) = <<>>
    BY DEF Reverse
  <2> HIDE DEF ancestors
  <2>4. QED
    BY <1>2, <2>2, <2>3
<1>7. IsListing(search.queue, W) /\ W \subseteq marked
  BY DEF Shape
<1>8. \A q \in entered : q \notin marked
  <2> TAKE q \in entered
  <2>1. q \in EnterSubtree(m, p) /\ \A k \in Len(p)..Len(q) : Take(q, k) \notin marked
    OBVIOUS
  <2>2. q \in Path /\ Len(q) \in Nat /\ Len(p) <= Len(q)
    BY <1>1, <2>1, SubtreeFacts
  <2>3. Len(q) \in Len(p)..Len(q) /\ Take(q, Len(q)) = q
    BY <1>1, <2>2, TakeAll
  <2>4. QED
    BY <2>1, <2>3
<1>9. IsListing(next.queue, W \cup entered)
  <2>1. IsListing(DocumentOrder(m, entered), entered)
    BY <1>4, StatesListed
  <2>2. search.queue \o <<>> = search.queue
    BY <1>7 DEF IsListing
  <2> HIDE DEF entered, next, ancestors, before
  <2>3. next.queue = search.queue \o DocumentOrder(m, entered)
    BY <1>3, <1>5, <1>6, <2>2
  <2>4. W \cap entered = {}
    BY <1>7, <1>8
  <2>5. QED
    BY <1>7, <2>1, <2>3, <2>4, ListingConcat
<1>10. p \in next.reachable
  <2>1. CASE p \in marked
    BY <1>5, <2>1
  <2>2. CASE p \notin marked
    <3>1. \A k \in Len(p)..Len(p) : Take(p, k) = p
      BY <1>1
    <3>2. p \in entered
      BY <2>2, <3>1, SubtreeTop
    <3>3. QED
      BY <1>5, <3>2
  <2>3. QED
    BY <2>1, <2>2
<1>11. ASSUME NEW q \in entered, NEW k \in 1..Len(q) PROVE Take(q, k) \in marked \cup entered
  <2>1. q \in EnterSubtree(m, p) /\ \A j \in Len(p)..Len(q) : Take(q, j) \notin marked
    OBVIOUS
  <2>2. q \in Path /\ Len(q) \in Nat /\ Len(p) <= Len(q) /\ p = Take(q, Len(p))
    BY <1>1, <2>1, SubtreeFacts
  <2>3. CASE k < Len(p)
    <3>1. k \in 1..(Len(p) - 1) /\ k \in 0..Len(p) /\ Len(p) \in 0..Len(q)
      BY <1>1, <2>2, <2>3
    <3>2. Take(p, k) = Take(q, k)
      BY <2>2, <3>1, TakeTake
    <3>3. QED
      BY <3>1, <3>2 DEF Shallow
  <2>4. CASE k >= Len(p)
    <3>1. k \in 0..Len(q) /\ k \in Nat
      BY <2>2
    <3>2. Take(q, k) \in Path /\ Len(Take(q, k)) = k
      BY <2>2, <3>1, TakeFacts
    <3>3. Take(q, k) \in EnterSubtree(m, p)
      <4>1. CASE k = Len(q)
        BY <2>1, <2>2, <4>1, TakeAll
      <4>2. CASE k # Len(q)
        <5>1. k \in Len(p)..(Len(q) - 1)
          BY <1>1, <2>2, <2>4, <4>2
        <5>2. QED
          BY <2>1, <5>1, SubtreeStep
      <4>3. QED
        BY <4>1, <4>2
    <3>4. \A j \in Len(p)..k : Take(Take(q, k), j) = Take(q, j) /\ j \in Len(p)..Len(q)
      <4> TAKE j \in Len(p)..k
      <4>1. j \in 0..k /\ j \in Len(p)..Len(q)
        BY <1>1, <2>2, <3>1
      <4>2. QED
        BY <2>2, <3>1, <4>1, TakeTake
    <3>5. Take(q, k) \in entered
      BY <2>1, <3>2, <3>3, <3>4
    <3>6. QED
      BY <3>5
  <2>5. QED
    BY <1>1, <2>3, <2>4
<1>12. ASSUME NEW q \in entered, NEW c, Enters(m, q, c) PROVE c \in marked \cup entered
  <2>1. q \in EnterSubtree(m, p) /\ \A j \in Len(p)..Len(q) : Take(q, j) \notin marked
    OBVIOUS
  <2>2. q \in Path /\ Len(q) \in Nat /\ Len(p) <= Len(q)
    BY <1>1, <2>1, SubtreeFacts
  <2>3. c \in EnterSubtree(m, p)
    BY <1>1, <1>12, <2>1, SubtreeChild
  <2>4. c \in Path /\ Len(c) = Len(q) + 1 /\ Take(c, Len(q)) = q
    BY <1>12, <2>2, ChildFacts DEF Enters
  <2>5. CASE c \in marked
    BY <2>5
  <2>6. CASE c \notin marked
    <3>1. ASSUME NEW j \in Len(p)..Len(c) PROVE Take(c, j) \notin marked
      <4>1. CASE j = Len(c)
        BY <2>4, <2>6, <4>1, TakeAll
      <4>2. CASE j # Len(c)
        <5>1. j \in Len(p)..Len(q) /\ j \in 0..Len(q) /\ Len(q) \in 0..Len(c)
          BY <1>1, <2>2, <2>4, <4>2
        <5>2. Take(Take(c, Len(q)), j) = Take(c, j)
          BY <2>4, <5>1, TakeTake
        <5>3. QED
          BY <2>1, <2>4, <5>1, <5>2
      <4>3. QED
        BY <4>1, <4>2
    <3>2. QED
      BY <2>3, <3>1
  <2>7. QED
    BY <2>5, <2>6
<1> HIDE DEF entered, next
<1>13. Shape(m, next, W \cup entered)
  <2>1. next.reachable \subseteq DOMAIN m.nodes
    BY <1>4, <1>5 DEF Shape
  <2>2. \A q \in next.reachable : \A k \in 1..Len(q) : Take(q, k) \in next.reachable
    BY <1>5, <1>11 DEF Shape
  <2>3. \A q \in next.reachable : \A c : Enters(m, q, c) => c \in next.reachable
    BY <1>5, <1>12 DEF Shape
  <2>4. W \cup entered \subseteq next.reachable
    BY <1>5, <1>7
  <2>5. QED
    BY <1>5, <1>9, <2>1, <2>2, <2>3, <2>4 DEF Shape
<1>14. next.reachable \ (W \cup entered) = search.reachable \ W
  BY <1>5, <1>8
<1>15. QED
  BY <1>10, <1>13, <1>14 DEF next

LEMMA EnterAllShape ==
  ASSUME NEW m, IsMachine(m), Accepted(m), NEW search, NEW W, Shape(m, search, W),
         NEW S \in SUBSET DOMAIN m.nodes, \A p \in S : Shallow(search, p)
  PROVE  \E V : /\ Shape(m, EnterAll(m, search, S), V)
                /\ S \subseteq EnterAll(m, search, S).reachable
                /\ EnterAll(m, search, S).reachable \ V = search.reachable \ W
<1> DEFINE inOrder == DocumentOrder(m, S)
           f == CHOOSE g : IsEntering(g, m, search, inOrder)
           Entered(n) == n <= Len(inOrder) =>
               /\ search.reachable \subseteq f[n].reachable
               /\ \A i \in 1..n : inOrder[i] \in f[n].reachable
               /\ \E V : /\ Shape(m, f[n], V)
                         /\ f[n].reachable \ V = search.reachable \ W
           T == {n \in Nat : Entered(n)}
<1>1. EnterAll(m, search, S) = f[Len(inOrder)]
  BY DEF EnterAll, IsEntering
<1>2. Len(inOrder) \in Nat /\ DOMAIN inOrder = 1..Len(inOrder)
      /\ \A i \in 1..Len(inOrder) : inOrder[i] \in S
  BY StatesListed, ListingNotEmpty
<1>3. \A p \in S : \E i \in 1..Len(inOrder) : inOrder[i] = p
  BY <1>2, StatesListed DEF IsListing
<1> HIDE DEF inOrder
<1>4. IsEntering(f, m, search, inOrder)
  BY <1>2, EnteringExists
<1> HIDE DEF f
<1>5. Entered(0)
  <2>1. f[0] = search
    BY <1>2, <1>4 DEF IsEntering
  <2>2. QED
    BY <2>1
<1>6. ASSUME NEW n \in Nat, Entered(n) PROVE Entered(n + 1)
  <2> SUFFICES ASSUME n + 1 <= Len(inOrder)
               PROVE  /\ search.reachable \subseteq f[n + 1].reachable
                      /\ \A i \in 1..(n + 1) : inOrder[i] \in f[n + 1].reachable
                      /\ \E V : /\ Shape(m, f[n + 1], V)
                                /\ f[n + 1].reachable \ V = search.reachable \ W
    OBVIOUS
  <2>1. n + 1 \in 0..Len(inOrder) /\ (n + 1) - 1 = n /\ n + 1 # 0 /\ n <= Len(inOrder)
        /\ n + 1 \in 1..Len(inOrder)
    BY <1>2
  <2> DEFINE p == inOrder[n + 1]
  <2>2. f[n + 1] = EnterState(m, f[n], p)
    BY <1>4, <2>1 DEF IsEntering
  <2>3. p \in S /\ p \in DOMAIN m.nodes
    BY <1>2, <2>1
  <2>4. /\ search.reachable \subseteq f[n].reachable
        /\ \A i \in 1..n : inOrder[i] \in f[n].reachable
    BY <1>6, <2>1
  <2>5. PICK V : Shape(m, f[n], V) /\ f[n].reachable \ V = search.reachable \ W
    BY <1>6, <2>1
  <2> HIDE DEF p
  <2>6. Shallow(f[n], p)
    BY <2>3, <2>4 DEF Shallow
  <2>7. PICK U : /\ Shape(m, EnterState(m, f[n], p), U)
                 /\ p \in EnterState(m, f[n], p).reachable
                 /\ EnterState(m, f[n], p).reachable \ U = f[n].reachable \ V
    BY <2>3, <2>5, <2>6, EnterStateShape
  <2>8. f[n].reachable \subseteq f[n + 1].reachable
    BY <2>2, EnterStateGrows
  <2>9. \A i \in 1..(n + 1) : i \in 1..n \/ i = n + 1
    OBVIOUS
  <2>10. \A i \in 1..(n + 1) : inOrder[i] \in f[n + 1].reachable
    BY <2>2, <2>4, <2>7, <2>8, <2>9 DEF p
  <2>11. Shape(m, f[n + 1], U) /\ f[n + 1].reachable \ U = search.reachable \ W
    BY <2>2, <2>5, <2>7
  <2>12. QED
    BY <2>4, <2>8, <2>10, <2>11
<1>7. \A n \in Nat : Entered(n)
  <2> HIDE DEF Entered
  <2>1. 0 \in T /\ \A n \in Nat : n \in T => n + 1 \in T
    BY <1>5, <1>6
  <2> HIDE DEF T
  <2>2. \A n \in Nat : n \in T
    BY <2>1, Induction
  <2>3. QED
    BY <2>2 DEF T
<1>8. Entered(Len(inOrder))
  BY <1>2, <1>7
<1>9. PICK V : /\ Shape(m, f[Len(inOrder)], V)
               /\ f[Len(inOrder)].reachable \ V = search.reachable \ W
  BY <1>2, <1>8
<1>10. S \subseteq f[Len(inOrder)].reachable
  BY <1>2, <1>3, <1>8
<1>11. QED
  BY <1>1, <1>9, <1>10

LEMMA ListingTail ==
  ASSUME NEW W, NEW d, IsListing(d, W), d # <<>>
  PROVE  Head(d) \in W /\ IsListing(Tail(d), W \ {Head(d)})
<1> DEFINE h == Head(d)
           r == Tail(d)
<1>1. d \in Seq(W) /\ Len(d) \in Nat \ {0} /\ DOMAIN d = 1..Len(d)
      /\ h = d[1] /\ \A i \in 1..Len(d) : d[i] \in W
  BY DEF IsListing
<1>2. /\ r \in Seq(W) /\ Len(r) = Len(d) - 1 /\ DOMAIN r = 1..(Len(d) - 1)
      /\ \A i \in 1..(Len(d) - 1) : r[i] = d[i + 1]
  BY <1>1
<1> HIDE DEF r, h
<1>3. \A i \in 1..(Len(d) - 1) : r[i] \in W /\ r[i] # h
  <2> TAKE i \in 1..(Len(d) - 1)
  <2>1. i + 1 \in 1..Len(d) /\ 1 \in 1..Len(d) /\ i + 1 # 1
    BY <1>1
  <2>2. d[i + 1] # d[1]
    BY <1>1, <2>1 DEF IsListing
  <2>3. QED
    BY <1>1, <1>2, <2>1, <2>2
<1>4. r \in Seq(W \ {h})
  BY <1>1, <1>2, <1>3
<1>5. ASSUME NEW p \in W \ {h} PROVE \E k \in DOMAIN r : r[k] = p
  <2>1. PICK i \in 1..Len(d) : d[i] = p
    BY <1>1 DEF IsListing
  <2>2. i # 1
    BY <1>1, <2>1
  <2>3. i - 1 \in 1..(Len(d) - 1) /\ (i - 1) + 1 = i
    BY <1>1, <2>2
  <2>4. QED
    BY <1>2, <2>1, <2>3
<1>6. ASSUME NEW i \in DOMAIN r, NEW j \in DOMAIN r, r[i] = r[j] PROVE i = j
  <2>1. i \in 1..(Len(d) - 1) /\ j \in 1..(Len(d) - 1)
    BY <1>2
  <2>2. i + 1 \in 1..Len(d) /\ j + 1 \in 1..Len(d)
    BY <1>1, <2>1
  <2>3. d[i + 1] = d[j + 1]
    BY <1>2, <1>6, <2>1
  <2>4. i + 1 = j + 1
    BY <1>1, <2>2, <2>3 DEF IsListing
  <2>5. QED
    BY <2>1, <2>4
<1>7. h \in W
  BY <1>1
<1>8. QED
  BY <1>4, <1>5, <1>6, <1>7 DEF IsListing, r, h

\* The breadth-first search with the states W queued: what the others lead to
\* has been reached.
Search(m, search, W) ==
    /\ Shape(m, search, W)
    /\ \A p \in search.reachable \ W : TargetsOf(m, p, TRUE) \subseteq search.reachable

\* The effective fail target of an edge is the one the editor computes, if
\* there is nothing the editor does not see.
LEMMA SameFailTarget ==
  ASSUME NEW m, NEW edge, DOMAIN m.global = {}, "failTarget" \notin DOMAIN edge.decorator
  PROVE  /\ EffectivePolicy(m, edge).failTarget = FailTarget(m, edge)
         /\ FailTarget(m, edge) =
                IF "failTarget" \in DOMAIN edge.policy THEN edge.policy.failTarget
                ELSE IF "failTarget" \in DOMAIN m.defaults THEN m.defaults.failTarget
                ELSE SdkDefaultPolicy.failTarget
<1>1. "failTarget" \in DOMAIN SdkDefaultPolicy
  BY DEF SdkDefaultPolicy
<1> DEFINE l1 == Over(m.global, SdkDefaultPolicy)
           l2 == Over(m.defaults, l1)
           l3 == Over(edge.policy, l2)
           l4 == Over(edge.decorator, l3)
           e2 == Over(m.defaults, SdkDefaultPolicy)
           e3 == Over(edge.policy, e2)
<1>2. EffectivePolicy(m, edge) = l4 /\ FailTarget(m, edge) = e3.failTarget
  BY DEF EffectivePolicy, NormalizeTransitionPolicy, FailTarget, ParseTransitionPair,
         MergeTransitionPolicies
<1>3. "failTarget" \in DOMAIN l1 /\ l1.failTarget = SdkDefaultPolicy.failTarget
  BY <1>1 DEF Over
<1> HIDE DEF l1
<1>4. /\ "failTarget" \in DOMAIN l2 /\ l2.failTarget = e2.failTarget
      /\ "failTarget" \in DOMAIN e2
      /\ e2.failTarget = IF "failTarget" \in DOMAIN m.defaults THEN m.defaults.failTarget
                         ELSE SdkDefaultPolicy.failTarget
  BY <1>1, <1>3 DEF Over
<1> HIDE DEF l2, e2
<1>5. /\ "failTarget" \in DOMAIN l3 /\ l3.failTarget = e3.failTarget
      /\ e3.failTarget = IF "failTarget" \in DOMAIN edge.policy THEN edge.policy.failTarget
                         ELSE e2.failTarget
  BY <1>4 DEF Over
<1> HIDE DEF l3, e3
<1>6. l4.failTarget = l3.failTarget
  BY <1>5 DEF Over
<1>7. QED
  BY <1>2, <1>4, <1>5, <1>6

\* A text with a key, no blanks around it and no gaps.
IsRegular(ref) ==
    ref.root \in BOOLEAN /\ ref.path # <<>> /\ ref.spelling \notin {"blanks", "gaps"}

LEMMA RegularText ==
  ASSUME NEW m, IsMachine(m), NEW p \in Path, NEW ref, IsReference(ref),
         Resolvable(m, p, ref), ResolveStateTarget(m, p, ref) # <<>>
  PROVE  IsRegular(ref)
<1>1. ref.spelling # "gaps" /\ ref.path # <<>>
  BY DEF ResolveStateTarget
<1>2. ref.spelling # "blanks"
  BY DEF Resolvable, ResolveTargetStatePath
<1>3. QED
  BY <1>1, <1>2 DEF IsRegular, IsReference

LEMMA RegularTargets ==
  ASSUME NEW m, IsMachine(m), Accepted(m), IsValid(m), NEW p \in DOMAIN m.nodes,
         NEW edge \in EdgesOf(m.nodes[p]), DOMAIN m.global = {},
         "failTarget" \notin DOMAIN edge.decorator
  PROVE  /\ edge.target # NoRef => IsRegular(edge.target)
         /\ IsRegular(FailTarget(m, edge))
<1>1. IsTransition(edge) /\ IsPartialPolicy(m.defaults) /\ p \in Path /\ <<>> \in Path
  BY EdgesTyped, NodePath DEF IsMachine, Path
<1>2. ~EdgeIssues(m, p, edge) /\ ~UnresolvedTarget(m, p, edge)
  BY AcceptedNode, ShownEdges
<1>3. edge.target # NoRef => IsRegular(edge.target)
  BY <1>1, <1>2, RegularText DEF EdgeIssues, UnresolvedTarget, IsTransition
<1>4. FailTarget(m, edge) =
          IF "failTarget" \in DOMAIN edge.policy THEN edge.policy.failTarget
          ELSE IF "failTarget" \in DOMAIN m.defaults THEN m.defaults.failTarget
          ELSE SdkDefaultPolicy.failTarget
  BY SameFailTarget
<1>5. CASE "failTarget" \in DOMAIN edge.policy
  <2>1. IsRegular(edge.policy.failTarget)
    BY <1>1, <1>2, <1>5, RegularText
       DEF EdgeIssues, UnresolvedTarget, IsTransition, IsPartialPolicy
  <2>2. QED
    BY <1>3, <1>4, <1>5, <2>1
<1>6. CASE "failTarget" \notin DOMAIN edge.policy /\ "failTarget" \in DOMAIN m.defaults
  <2>1. /\ IsReference(m.defaults.failTarget)
        /\ Resolvable(m, <<>>, m.defaults.failTarget)
        /\ ResolveStateTarget(m, <<>>, m.defaults.failTarget) # <<>>
    BY <1>1, <1>6 DEF IsPartialPolicy, Accepted, RootIssues, IsValid
  <2>2. IsRegular(m.defaults.failTarget)
    BY <1>1, <2>1, RegularText
  <2>3. QED
    BY <1>3, <1>4, <1>6, <2>2
<1>7. CASE "failTarget" \notin DOMAIN edge.policy /\ "failTarget" \notin DOMAIN m.defaults
  <2>1. FailTarget(m, edge) = [root |-> FALSE, spelling |-> "plain", path |-> ErrorPath]
    BY <1>4, <1>7 DEF SdkDefaultPolicy
  <2>2. IsRegular(FailTarget(m, edge))
    BY <2>1, ErrorIsPath DEF IsRegular
  <2>3. QED
    BY <1>3, <2>2
<1>8. QED
  BY <1>5, <1>6, <1>7

\* With no edge into another container, targets are entered from where they are.
LEMMA TargetsShallow ==
  ASSUME NEW m, IsMachine(m), Accepted(m), IsValid(m), NoDeepTargets(m),
         NEW p \in DOMAIN m.nodes,
         NEW t \in TargetsOf(m, p, TRUE), NEW k \in 1..(Len(t) - 1)
  PROVE  k \in 1..Len(p) /\ Take(t, k) = Take(p, k)
<1>1. /\ DOMAIN m.global = {}
      /\ \A edge \in EdgesOf(m.nodes[p]) : "failTarget" \notin DOMAIN edge.decorator
  BY DEF NoDeepTargets
<1>2. PICK ref \in {edge.target : edge \in EdgesOf(m.nodes[p])}
                       \cup {FailTarget(m, edge) : edge \in EdgesOf(m.nodes[p])} :
          t = ResolveStateTarget(m, p, ref) /\ t # <<>>
  BY DEF TargetsOf
<1>3. PICK edge \in EdgesOf(m.nodes[p]) : ref = edge.target \/ ref = FailTarget(m, edge)
  BY <1>2
<1>4. ref # NoRef
  BY <1>2 DEF ResolveStateTarget, NoRef
<1>5. IsRegular(ref)
  BY <1>1, <1>3, <1>4, RegularTargets
<1>6. p \in Path /\ Len(p) \in Nat
  BY NodePath
<1>7. t = ResolveTargetStatePath(m, p, ref)
  BY <1>2, <1>5, <1>6, SameTarget DEF IsRegular
<1>8. ref \in {edge.target, EffectivePolicy(m, edge).failTarget} \ {NoRef}
  BY <1>1, <1>3, <1>4, SameFailTarget
<1>9. IsPrefix(Front(t), p)
  BY <1>7, <1>8 DEF NoDeepTargets
<1>10. t \in Path /\ t # <<>>
  <2>1. t \in DOMAIN m.nodes
    BY <1>2, TargetsAreStates
  <2>2. QED
    BY <2>1, NodePath
<1>11. /\ Len(t) \in Nat \ {0} /\ Front(t) = Take(t, Len(t) - 1)
       /\ Front(t) \in Path /\ Len(Front(t)) = Len(t) - 1 /\ Len(t) - 1 \in 0..Len(t)
  BY <1>10, FrontIsTake
<1>12. Len(t) - 1 <= Len(p) /\ Front(t) = Take(p, Len(t) - 1)
  BY <1>6, <1>9, <1>11, PrefixIsTake
<1>13. k \in 1..Len(p) /\ k \in 0..(Len(t) - 1) /\ Len(t) - 1 \in 0..Len(p)
  BY <1>6, <1>11, <1>12
<1>14. Take(Front(t), k) = Take(t, k) /\ Take(Front(t), k) = Take(p, k)
  BY <1>6, <1>10, <1>11, <1>12, <1>13, TakeTake
<1>15. QED
  BY <1>13, <1>14

\* A round takes one state from the queue for good; the states V are queued then.
OneDone(m, search, W, V) ==
    LET next == Round(m, search, TRUE) IN
    /\ Search(m, next, V)
    /\ \E h \in W : next.reachable \ V = (search.reachable \ W) \cup {h}

LEMMA RoundShape ==
  ASSUME NEW m, IsMachine(m), Accepted(m), IsValid(m), NoDeepTargets(m), NEW search, NEW W,
         Search(m, search, W), search.queue # <<>>
  PROVE  \E V : OneDone(m, search, W, V)
<1> DEFINE rest == [search EXCEPT !.queue = Tail(@)]
           h == Head(search.queue)
           S == TargetsOf(m, h, TRUE)
           next == EnterAll(m, rest, S)
<1>1. Round(m, search, TRUE) = next
  BY DEF Round
<1>2. IsSearch(search) /\ IsListing(search.queue, W) /\ W \subseteq search.reachable
      /\ search.reachable \subseteq DOMAIN m.nodes
  BY DEF Search, Shape
<1>3. IsSearch(rest) /\ rest.reachable = search.reachable /\ rest.queue = Tail(search.queue)
  BY <1>2, Dequeued
<1>4. h \in W /\ IsListing(Tail(search.queue), W \ {h})
  BY <1>2, ListingTail
<1>5. h \in DOMAIN m.nodes /\ S \in SUBSET DOMAIN m.nodes
  BY <1>2, <1>4, TargetsAreStates
<1> HIDE DEF rest, h
<1>6. Shape(m, rest, W \ {h})
  BY <1>2, <1>3, <1>4 DEF Search, Shape
<1>7. \A t \in S : Shallow(rest, t)
  <2> SUFFICES ASSUME NEW t \in S, NEW k \in 1..(Len(t) - 1)
               PROVE  Take(t, k) \in rest.reachable
    BY DEF Shallow
  <2>1. k \in 1..Len(h) /\ Take(t, k) = Take(h, k)
    BY <1>5, TargetsShallow
  <2>2. QED
    BY <1>2, <1>4, <1>6, <1>3, <2>1 DEF Shape
<1> HIDE DEF S
<1>8. PICK V : /\ Shape(m, next, V) /\ S \subseteq next.reachable
               /\ next.reachable \ V = rest.reachable \ (W \ {h})
  BY <1>5, <1>6, <1>7, EnterAllShape
<1>9. rest.reachable \subseteq next.reachable
  BY <1>3, <1>5, EnterAllGrows
<1> HIDE DEF next
<1>10. next.reachable \ V = (search.reachable \ W) \cup {h}
  BY <1>2, <1>3, <1>4, <1>8
<1>11. \A p \in next.reachable \ V : TargetsOf(m, p, TRUE) \subseteq next.reachable
  BY <1>3, <1>8, <1>9, <1>10 DEF Search, S
<1>12. Search(m, next, V)
  BY <1>8, <1>11 DEF Search
<1>13. OneDone(m, search, W, V)
  BY <1>1, <1>4, <1>10, <1>12 DEF OneDone
<1>14. QED
  BY <1>13

\* After as many rounds as there are states the queue is empty.
LEMMA TraverseCloses ==
  ASSUME NEW m, IsMachine(m), Accepted(m), IsValid(m), NoDeepTargets(m), NEW search, NEW W,
         Search(m, search, W), search.reachable \ W = {}
  PROVE  Search(m, Traverse(m, search, TRUE), {})
<1> DEFINE N == Cardinality(DOMAIN m.nodes)
           f == CHOOSE g : IsTraversal(g, m, search, TRUE)
           Run(n) == n <= N =>
               \E V : /\ Search(m, f[n], V)
                      /\ f[n].queue = <<>> \/ Cardinality(f[n].reachable \ V) = n
           T == {n \in Nat : Run(n)}
<1>1. Traverse(m, search, TRUE) = f[N]
  BY DEF Traverse, IsTraversal
<1>2. N \in Nat /\ IsFiniteSet(DOMAIN m.nodes)
  BY NodesCounted
<1>3. IsTraversal(f, m, search, TRUE)
  BY <1>2, TraversalExists
<1>4. f = [n \in 0..N |-> IF n = 0 THEN search ELSE Round(m, f[n - 1], TRUE)]
  BY <1>3 DEF IsTraversal
<1> HIDE DEF f
<1>5. \A g, V : Search(m, g, V) =>
          /\ g.reachable \subseteq DOMAIN m.nodes /\ V \subseteq g.reachable
          /\ IsFiniteSet(g.reachable \ V) /\ Cardinality(g.reachable \ V) \in Nat
          /\ IsListing(g.queue, V)
  <2> TAKE g, V
  <2> SUFFICES ASSUME Search(m, g, V)
               PROVE  /\ g.reachable \subseteq DOMAIN m.nodes /\ V \subseteq g.reachable
                      /\ IsFiniteSet(g.reachable \ V) /\ Cardinality(g.reachable \ V) \in Nat
                      /\ IsListing(g.queue, V)
    OBVIOUS
  <2>1. g.reachable \subseteq DOMAIN m.nodes /\ V \subseteq g.reachable
        /\ IsListing(g.queue, V)
    BY DEF Search, Shape
  <2>2. g.reachable \ V \in SUBSET DOMAIN m.nodes
    BY <2>1
  <2>3. IsFiniteSet(g.reachable \ V)
    BY <1>2, <2>2, FS_Subset
  <2>4. QED
    BY <2>1, <2>3, FS_CardinalityType
<1> HIDE DEF N
<1>6. Run(0)
  <2>1. f[0] = search
    BY <1>2, <1>4
  <2>2. Cardinality(search.reachable \ W) = 0
    BY FS_EmptySet
  <2>3. QED
    BY <2>1, <2>2
<1>7. ASSUME NEW n \in Nat, Run(n) PROVE Run(n + 1)
  <2> SUFFICES ASSUME n + 1 <= N
               PROVE  \E V : /\ Search(m, f[n + 1], V)
                             /\ \/ f[n + 1].queue = <<>>
                                \/ Cardinality(f[n + 1].reachable \ V) = n + 1
    OBVIOUS
  <2>1. n + 1 \in 0..N /\ (n + 1) - 1 = n /\ n + 1 # 0 /\ n <= N
    BY <1>2
  <2>2. f[n + 1] = Round(m, f[n], TRUE)
    BY <1>4, <2>1
  <2>3. PICK V : /\ Search(m, f[n], V)
                 /\ f[n].queue = <<>> \/ Cardinality(f[n].reachable \ V) = n
    BY <1>7, <2>1
  <2>4. CASE f[n].queue = <<>>
    <3>1. f[n + 1] = f[n]
      BY <2>2, <2>4 DEF Round
    <3>2. QED
      BY <2>3, <2>4, <3>1
  <2>5. CASE f[n].queue # <<>>
    <3> DEFINE g == f[n]
               done == g.reachable \ V
    <3>1. PICK U : OneDone(m, g, V, U)
      <4>1. Search(m, g, V) /\ g.queue # <<>>
        BY <2>3, <2>5
      <4> HIDE DEF g
      <4>2. QED
        BY <4>1, RoundShape
    <3>2. PICK h \in V : Round(m, g, TRUE).reachable \ U = done \cup {h}
      BY <3>1 DEF OneDone
    <3>6. Search(m, Round(m, g, TRUE), U)
      BY <3>1 DEF OneDone
    <3>3. IsFiniteSet(done) /\ h \notin done /\ Cardinality(done) = n
      BY <1>5, <2>3, <2>5
    <3>4. Cardinality(done \cup {h}) = n + 1
      BY <3>3, FS_AddElement
    <3>5. QED
      BY <2>2, <3>2, <3>4, <3>6
  <2>6. QED
    BY <2>4, <2>5
<1>8. \A n \in Nat : Run(n)
  <2> HIDE DEF Run
  <2>1. 0 \in T /\ \A n \in Nat : n \in T => n + 1 \in T
    BY <1>6, <1>7
  <2> HIDE DEF T
  <2>2. \A n \in Nat : n \in T
    BY <2>1, Induction
  <2>3. QED
    BY <2>2 DEF T
<1>9. PICK V : /\ Search(m, f[N], V)
               /\ f[N].queue = <<>> \/ Cardinality(f[N].reachable \ V) = N
  <2>1. N <= N
    BY <1>2
  <2>2. Run(N)
    BY <1>2, <1>8
  <2>3. QED
    BY <2>1, <2>2
<1>10. /\ f[N].reachable \subseteq DOMAIN m.nodes /\ V \subseteq f[N].reachable
       /\ IsListing(f[N].queue, V)
  BY <1>5, <1>9
<1>11. V = {}
  <2>1. CASE f[N].queue = <<>>
    BY <1>10, <2>1, ListingNotEmpty
  <2>2. CASE Cardinality(f[N].reachable \ V) = N
    <3>1. f[N].reachable \ V \in SUBSET DOMAIN m.nodes
      BY <1>10
    <3>2. DOMAIN m.nodes = f[N].reachable \ V
      BY <1>2, <2>2, <3>1, FS_Subset DEF N
    <3>3. QED
      BY <1>10, <3>2
  <2>3. QED
    BY <1>9, <2>1, <2>2
<1>12. QED
  BY <1>1, <1>9, <1>11

\* What the editor reaches is a closed set of states.
LEMMA ReachedIsClosed ==
  ASSUME NEW m, IsMachine(m), Accepted(m), IsValid(m), NoDeepTargets(m), NEW reached,
         Search(m, reached, {}), Roots(m) \subseteq reached.reachable
  PROVE  Closed(m, reached.reachable)
<1> DEFINE R == reached.reachable
<1>1. /\ R \subseteq DOMAIN m.nodes
      /\ \A p \in R : \A k \in 1..Len(p) : Take(p, k) \in R
      /\ \A p \in R : \A q : Enters(m, p, q) => q \in R
      /\ \A p \in R : TargetsOf(m, p, TRUE) \subseteq R
  BY DEF Search, Shape
<1>2. m.type = "compound" => <<m.initial>> \in R
  BY DEF Roots
<1>3. m.type = "parallel" =>
          Children(m, <<>>) \ (IF m.implicitError THEN {ErrorPath} ELSE {}) \subseteq R
  BY DEF Roots, TopStates
<1>4. ASSUME NEW p \in R, NEW edge \in EdgesOf(m.nodes[p]),
             NEW ref \in {edge.target, EffectivePolicy(m, edge).failTarget} \ {NoRef},
             Resolvable(m, p, ref)
      PROVE  ResolveTargetStatePath(m, p, ref) \in R
  <2>1. p \in DOMAIN m.nodes /\ p \in Path
    BY <1>1, NodePath
  <2>2. DOMAIN m.global = {} /\ "failTarget" \notin DOMAIN edge.decorator
    BY <2>1 DEF NoDeepTargets
  <2>3. ref = edge.target \/ ref = FailTarget(m, edge)
    BY <2>2, SameFailTarget
  <2>4. IsRegular(ref)
    BY <2>1, <2>2, <2>3, RegularTargets
  <2>5. ResolveStateTarget(m, p, ref) = ResolveTargetStatePath(m, p, ref)
    BY <2>1, <2>4, SameTarget DEF IsRegular
  <2>6. ResolveStateTarget(m, p, ref) # <<>>
    BY <1>4, <2>5 DEF Resolvable
  <2>7. ResolveStateTarget(m, p, ref) \in TargetsOf(m, p, TRUE)
    BY <2>3, <2>6 DEF TargetsOf
  <2>8. QED
    BY <1>1, <2>5, <2>7
<1>5. ASSUME NEW p \in R, NEW edge \in EdgesOf(m.nodes[p]), NEW ref \in edge.returns,
             ref # NoRef, Resolvable(m, p, ref)
      PROVE  ResolveTargetStatePath(m, p, ref) \in R
  <2>1. ResolveTargetStatePath(m, p, ref) \in DeclaredTargets(m, p)
    BY <1>1, <1>5 DEF NoDeepTargets, Throws
  <2>2. PICK other \in EdgesOf(m.nodes[p]) :
            /\ other.target # NoRef
            /\ ResolveTargetStatePath(m, p, ref) = ResolveTargetStatePath(m, p, other.target)
    BY <2>1 DEF DeclaredTargets
  <2>3. Resolvable(m, p, other.target)
    BY <1>5, <2>2 DEF Resolvable
  <2>4. QED
    BY <1>4, <2>2, <2>3
<1>6. \A p \in R : \A edge \in EdgesOf(m.nodes[p]) :
          \A ref \in (SuccessTargets(edge) \cup {EffectivePolicy(m, edge).failTarget})
                        \ {NoRef} :
              Resolvable(m, p, ref) => ResolveTargetStatePath(m, p, ref) \in R
  <2> HIDE DEF R
  <2>1. QED
    BY <1>4, <1>5 DEF SuccessTargets
<1> HIDE DEF R
<1>7. Closed(m, R)
  BY <1>1, <1>2, <1>3, <1>6 DEF Closed
<1>8. QED
  BY <1>7 DEF R

LEMMA FirstSearch ==
  ASSUME NEW m, IsMachine(m), Accepted(m), IsValid(m), NoDeepTargets(m),
         m.type = "compound" => <<m.initial>> \in TopStates(m)
  PROVE  LET first == Traverse(m, EnterAll(m, NothingReached, Roots(m)), TRUE)
         IN  IsSearch(first) /\ Closed(m, first.reachable)
<1> DEFINE start == EnterAll(m, NothingReached, Roots(m))
           first == Traverse(m, start, TRUE)
<1>1. Shape(m, NothingReached, {})
  <2>1. IsSearch(NothingReached) /\ NothingReached.reachable = {}
        /\ NothingReached.queue = <<>>
    BY DEF IsSearch, NothingReached
  <2>2. IsListing(<<>>, {})
    BY DEF IsListing
  <2>3. QED
    BY <2>1, <2>2 DEF Shape
<1>2. \A p \in Roots(m) : p \in DOMAIN m.nodes /\ Len(p) = 1
  <2>1. \A p \in TopStates(m) : p \in DOMAIN m.nodes /\ Len(p) = 1
    BY DEF TopStates, Children
  <2>2. QED
    BY <2>1 DEF Roots, IsMachine
<1>3. \A p \in Roots(m) : Shallow(NothingReached, p)
  <2> TAKE p \in Roots(m)
  <2>1. Len(p) = 1
    BY <1>2
  <2>2. 1..(Len(p) - 1) = {}
    BY <2>1
  <2>3. QED
    BY <2>2 DEF Shallow
<1>4. Roots(m) \in SUBSET DOMAIN m.nodes
  BY <1>2
<1>5. PICK W : /\ Shape(m, start, W) /\ Roots(m) \subseteq start.reachable
               /\ start.reachable \ W = NothingReached.reachable \ {}
  BY <1>1, <1>3, <1>4, EnterAllShape
<1> HIDE DEF start
<1>6. start.reachable \ W = {}
  BY <1>5 DEF NothingReached
<1>7. Search(m, start, W) /\ IsSearch(start)
  BY <1>5, <1>6 DEF Search, Shape
<1>8. Search(m, first, {})
  BY <1>6, <1>7, TraverseCloses
<1>9. IsSearch(first) /\ start.reachable \subseteq first.reachable
  BY <1>7, TraverseGrows
<1> HIDE DEF first
<1>10. Closed(m, first.reachable)
  BY <1>5, <1>8, <1>9, ReachedIsClosed
<1>11. QED
  BY <1>9, <1>10 DEF first, start

\* A state the editor flags as unreachable never becomes active: what its
\* search reaches is closed under entering, targets and fail targets, those that
\* handlers return included as long as the state declares them, so no
\* step of an actor leaves it.
THEOREM UnreachableNeverActiveHolds == Spec => []UnreachableNeverActive
<1>1. IInv => UnreachableNeverActive
  <2> SUFFICES ASSUME IInv, editor.valid, status # None, NoDeepTargets(machine)
               PROVE  ActiveStates(machine, value) \cap editor.unreachable = {}
    BY DEF UnreachableNeverActive
  <2> DEFINE first == Traverse(machine, EnterAll(machine, NothingReached, Roots(machine)),
                               TRUE)
             R == first.reachable
  <2>1. /\ IsDocument(definition) /\ machine = ParseYamlMachine(definition)
        /\ editor = Analyze(machine) /\ IsMachine(machine) /\ Accepted(machine)
    BY DefinitionsAssumption, SameMachine, MachineLoaded DEF IInv, DocumentsOK
  <2>2. IsValid(machine) /\ editor.unreachable = UnreachableStates(machine)
    BY <2>1 DEF Analyze
  <2>3. IsSearch(first) /\ Closed(machine, R)
    <3>1. machine.type = "compound" => <<machine.initial>> \in TopStates(machine)
      BY <2>2 DEF IsValid
    <3>2. QED
      BY <2>1, <2>2, <3>1, FirstSearch
  <2>4. R \subseteq Reachable(machine)
    <3> DEFINE more == EnterState(machine, first, ErrorPath)
    <3>1. IsSearch(more) /\ R \subseteq more.reachable
      BY EnterStateGrows
    <3> HIDE DEF more
    <3>2. more.reachable \subseteq Traverse(machine, more, FALSE).reachable
      BY <2>1, <3>1, TraverseGrows
    <3>3. Reachable(machine) = Traverse(machine, more, FALSE).reachable
              \/ Reachable(machine) = R
      BY DEF Reachable, more
    <3>4. QED
      BY <3>1, <3>2, <3>3
  <2> HIDE DEF first, R
  <2>5. Within(machine, R, value)
    BY <2>3 DEF IInv, InClosedSets
  <2>6. ActiveStates(machine, value) \subseteq R
    BY <2>1, <2>3, <2>5, ActiveWithin
  <2>7. QED
    BY <2>2, <2>4, <2>6 DEF UnreachableStates
<1>2. QED
  BY <1>1, IInvInvariant, PTL
=============================================================================
