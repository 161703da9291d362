----------------------------- MODULE Statechart -----------------------------
(***************************************************************************)
(* The statechart engine (engine/statechart.ts): pure functions of a       *)
(* machine and a state value.                                              *)
(*                                                                         *)
(* A StateValue is a string or a nested object whose leaves are strings.   *)
(* It is modelled by its words, the key sequences from the root of the     *)
(* object to its strings: "a" is {<<"a">>}, {p: {r: "x", s: "s"}} is       *)
(* {<<"p","r","x">>, <<"p","s","s">>}.  A region without children holds    *)
(* its own key, so its word ends in that key twice.  The keys of an object *)
(* keep the order of the document.                                         *)
(***************************************************************************)
EXTENDS MachineDefinition

IsObject(v) == \A w \in v : Len(w) > 1

-----------------------------------------------------------------------------
(* Entering. *)

\* The states entered with t: the initial child of a compound state, every
\* region of a parallel one.
EnterSubtree(m, t) ==
    {q \in DOMAIN m.nodes :
        /\ IsPrefix(t, q)
        /\ \A k \in Len(t)..(Len(q) - 1) :
               \/ IsParallel(m, Take(q, k))
               \/ m.nodes[Take(q, k)].initial = q[k + 1]}

\* The word a leaf contributes below a state that is entered with it.
Word(m, leaf) ==
    IF IsParallel(m, Front(leaf)) THEN leaf \o <<Last(leaf)>> ELSE leaf

Words(m, states) == {Word(m, p) : p \in {q \in states : IsLeaf(m, q)}}

\* The states a new transaction is in; the implicit error is no region.
InitialStates(m) ==
    IF m.type = "parallel"
    THEN UNION {EnterSubtree(m, r) : r \in Children(m, <<>>)
                    \ (IF m.implicitError THEN {ErrorPath} ELSE {})}
    ELSE EnterSubtree(m, <<m.initial>>)

\* Faulty variant: the initial state is not descended into.
InitialWithoutDescent(m) == Words(m, {<<m.initial>>})

ResolveInitialState(m) == Words(m, InitialStates(m))

-----------------------------------------------------------------------------
(* Reading a state value. *)

\* Walks a word from its k-th key.  Below a parallel state a region without
\* children is the leaf itself; a region of the root, or of a parallel state
\* that is itself a region, is not looked at that way.
LeafOf(m, w) ==
    LET from[k \in 1..(Len(w) + 1)] ==
            IF k >= Len(w) THEN w
            ELSE IF NodeType(m, Take(w, k)) = "parallel" /\ Len(w) > k + 1
                 THEN IF IsLeaf(m, Take(w, k + 1)) THEN Take(w, k + 1)
                      ELSE from[k + 2]
                 ELSE from[k + 1]
    IN  from[1]

GetActiveLeafPaths(m, v) == {LeafOf(m, w) : w \in v}

\* The leaves in document order; one that names no state (see LeafOf) counts
\* as the region above it.
LeavesInOrder(m, v) ==
    DocumentOrder(m, {IF p \in DOMAIN m.nodes THEN p ELSE Front(p) :
                          p \in GetActiveLeafPaths(m, v)})

\* The states of a configuration: the leaves and what is above them.
ActiveStates(m, v) ==
    {p \in DOMAIN m.nodes :
        \E leaf \in GetActiveLeafPaths(m, v) : IsPrefix(p, leaf)}

\* Faulty variant: only the leaves are exited.
LeafExitsOnly(m, v, exitRoot) ==
    SelectSeq(LeavesInOrder(m, v), LAMBDA p : IsPrefix(exitRoot, p))

\* The exits, continued from a leaf up to the state that is exited.
ExitUpward(exits, leaf, exitRoot) ==
    LET after[k \in 0..Len(leaf)] ==
            IF k = 0 THEN exits
            ELSE LET p == Take(leaf, Len(leaf) + 1 - k)
                 IN  IF IsPrefix(exitRoot, p) /\ ~Contains(after[k - 1], p)
                     THEN Append(after[k - 1], p) ELSE after[k - 1]
    IN  after[Len(leaf)]

\* For each leaf from the bottom up, each state once.
CollectBottomUpExitEffects(m, v, exitRoot) ==
    LET leaves == LeavesInOrder(m, v)
        after[i \in 0..Len(leaves)] ==
            IF i = 0 THEN <<>> ELSE ExitUpward(after[i - 1], leaves[i], exitRoot)
    IN  after[Len(leaves)]

-----------------------------------------------------------------------------
(* Events. *)

\* The states the search for an event looks at: the active child of a
\* compound state, and every region a parallel state declares, also one that
\* is missing in the value.
Searched(m, v) ==
    {p \in DOMAIN m.nodes :
        /\ \E w \in v : w[1] = p[1]
        /\ \A k \in 1..(Len(p) - 1) :
               \/ NodeType(m, Take(p, k)) = "parallel"
               \/ \E w \in v : IsPrefix(Take(p, k + 1), w)}

\* The deepest states that handle the event, in declaration order.
ResolveTransitionsForEvent(m, v, e) ==
    LET handling == {p \in Searched(m, v) : e \in DOMAIN m.nodes[p].on}
    IN  DocumentOrder(m, {p \in handling : ~\E q \in handling : Above(p, q)})

\* Faulty variant: only the leaves are asked, not their ancestors.
LeafEvents(m, v) ==
    UNION {DOMAIN m.nodes[p].on :
               p \in GetActiveLeafPaths(m, v) \cap DOMAIN m.nodes}

GetAvailableEvents(m, v) ==
    UNION {DOMAIN m.nodes[p].on :
               p \in {q \in ActiveStates(m, v) : NodeType(m, q) # "final"}}

-----------------------------------------------------------------------------
(* Taking a transition. *)

\* Length of the lowest common ancestor, a proper ancestor of both.
CommonLen(s, t) ==
    CHOOSE c \in 0..Len(t) :
        /\ c < Len(s) /\ c < Len(t) /\ Take(s, c) = Take(t, c)
        /\ (c + 1 < Len(s) /\ c + 1 < Len(t)) => s[c + 1] # t[c + 1]

\* The words of v that leave the path t below its first j keys.
Beside(v, t, j) ==
    {w \in v : Len(w) >= j + 2 /\ Take(w, j) = Take(t, j) /\ w[j + 1] # t[j + 1]}

\* Faulty variant: sibling regions are dropped.
NothingPreserved(m, v, t, c, q) == FALSE

\* Are the sibling regions of parallel state q kept when t is built below
\* it?  Not if q is the common ancestor and t one of its childless regions:
\* the replacement is then a string and takes the place of all regions.
Preserved(m, v, t, c, q) ==
    IF q = <<>> THEN m.type = "parallel" /\ IsObject(v)
    ELSE /\ NodeType(m, q) = "parallel"
         /\ ~(Len(q) = c /\ Len(t) = c + 1 /\ IsLeaf(m, t))

\* applyTargetTransition with extractSubStateObject and replaceAtLca.
NextStateValue(m, v, s, t) ==
    LET c == CommonLen(s, t)
        KeptAt(j) == j < c \/ Preserved(m, v, t, c, Take(t, j))
        target == IF IsLeaf(m, t)
                  THEN {IF KeptAt(Len(t) - 1) THEN Word(m, t) ELSE t}
                  ELSE Words(m, EnterSubtree(m, t))
    IN  target \cup UNION {Beside(v, t, j) : j \in {k \in 0..(Len(t) - 1) : KeptAt(k)}}

\* The effects of a transition: exits, then entries from below the common
\* ancestor down to the target and into it.
ExitsAndEntries(m, v, s, t) ==
    LET c == CommonLen(s, t)
        exits == CollectBottomUpExitEffects(m, v, Take(s, c + 1))
        above == {Take(t, k) : k \in (c + 1)..(Len(t) - 1)}
        entries == DocumentOrder(m, above \cup EnterSubtree(m, t))
    IN  [i \in DOMAIN exits |-> <<"exit", exits[i]>>]
            \o [i \in DOMAIN entries |-> <<"entry", entries[i]>>]

-----------------------------------------------------------------------------
(* Completion. *)

\* A region is done in a final leaf that is the region or its child.
IsBranchFinalAt(m, region, leaf) ==
    /\ NodeType(m, leaf) = "final"
    /\ \/ NodeType(m, region) = "final"
       \/ NodeType(m, region) = "compound" /\ Front(leaf) = region

IsDone(m, leaves, p) ==
    LET Below(q) == {l \in leaves : IsPrefix(q, l)} IN
    CASE NodeType(m, p) = "compound" ->
             \E l \in leaves : Below(p) = {l} /\ NodeType(m, l) = "final"
      [] NodeType(m, p) = "parallel" ->
             \A r \in Children(m, p) :
                 /\ Below(r) # {}
                 /\ \A l \in Below(r) : IsBranchFinalAt(m, r, l)
      [] OTHER -> FALSE

\* The deepest completed container with onDone, as a set of at most one.
FindPendingOnDone(m, v) ==
    LET leaves == GetActiveLeafPaths(m, v)
        done == {p \in ActiveStates(m, v) :
                    HasOnDone(m.nodes[p]) /\ IsDone(m, leaves, p)}
        deepest == {p \in done : \A q \in done : Len(q) <= Len(p)}
    IN  IF done = {} THEN {} ELSE {Head(DocumentOrder(m, deepest))}

ResolveSettledTransactionStatus(m, v, compensated) ==
    CASE compensated -> "COMPENSATED"
      [] ~compensated /\ v = {ErrorPath} -> "FAILED"
      [] OTHER -> IF \A l \in GetActiveLeafPaths(m, v) : NodeType(m, l) = "final"
                  THEN "COMPLETED" ELSE "IDLE"

=============================================================================
