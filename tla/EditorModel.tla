----------------------------- MODULE EditorModel ----------------------------
(***************************************************************************)
(* What the VS Code extension (tools/vscode-dfsm, core/ and                *)
(* visualizer/graphBuilder.ts) makes of a definition: a second             *)
(* implementation of parsing, target resolution and policy merging beside  *)
(* the SDK's, the diagnostics it shows and the graph it draws.  Source     *)
(* ranges, messages and layout are left out.                               *)
(***************************************************************************)
EXTENDS MachineDefinition

ParseStatePair(raw, p) ==
    LET inferred == IF \E q \in DOMAIN raw.nodes : Len(q) = Len(p) + 1 /\ Above(p, q)
                    THEN "compound" ELSE "atomic"
    IN  [raw.nodes[p] EXCEPT !.type = IF @ = None THEN inferred ELSE @]

\* allStatesByPath holds the implicit error, machine.states does not: see
\* TopStates.
ParseDfsmYaml(raw) ==
    LET explicit == [p \in DOMAIN raw.nodes |-> ParseStatePair(raw, p)]
        implicit == ErrorPath \notin DOMAIN explicit
    IN  [raw EXCEPT !.implicitError = implicit,
                    !.nodes = IF implicit
                              THEN WithImplicitError(explicit)
                              ELSE explicit,
                    !.order = IF implicit THEN Append(@, ErrorPath) ELSE @]

TopStates(em) ==
    Children(em, <<>>) \ (IF em.implicitError THEN {ErrorPath} ELSE {})

ExplicitStates(em) ==
    DOMAIN em.nodes \ (IF em.implicitError THEN {ErrorPath} ELSE {})

\* Scoped to the source's parent, falling back to the root; <<>> if
\* unresolved.  Blanks are trimmed; a text with gaps is no state's path.
ResolveStateTarget(em, source, ref) ==
    LET candidates ==
            IF ref.root \/ Len(source) < 2 THEN <<ref.path>>
            ELSE <<Front(source) \o ref.path, ref.path>>
        found == {i \in DOMAIN candidates : candidates[i] \in DOMAIN em.nodes}
    IN  IF ref.spelling = "gaps" \/ ref.path = <<>> \/ found = {} THEN <<>>
        ELSE candidates[Min(found)]

MergeTransitionPolicies(defaults, policy) ==
    Over(policy, Over(defaults, SdkDefaultPolicy))

\* The effectivePolicy of a parsed transition.
ParseTransitionPair(em, edge) == MergeTransitionPolicies(em.defaults, edge.policy)

FailTarget(em, edge) == ParseTransitionPair(em, edge).failTarget

-----------------------------------------------------------------------------
(* Diagnostics of severity error. *)

UnresolvedTarget(em, p, edge) ==
    \/ edge.target # NoRef /\ ResolveStateTarget(em, p, edge.target) = <<>>
    \/ /\ "failTarget" \in DOMAIN edge.policy
       /\ ResolveStateTarget(em, p, edge.policy.failTarget) = <<>>

\* Faulty variant: the initial child of a compound state is not looked up.
StateSemanticsNoInitial(em, p) ==
    \/ em.nodes[p].type = "parallel" /\ Children(em, p) = {}
    \/ \E edge \in EdgesOf(em.nodes[p]) : UnresolvedTarget(em, p, edge)

StateSemantics(em, p) ==
    LET node == em.nodes[p] IN
    \/ node.type = "compound"
           /\ (node.initial = None \/ p \o <<node.initial>> \notin Children(em, p))
    \/ node.type = "parallel" /\ (node.initial # None \/ Children(em, p) = {})
    \/ /\ node.type = "final"
       /\ \/ Children(em, p) # {} \/ node.initial # None
          \/ DOMAIN node.on # {} \/ HasOnDone(node)
    \/ node.type = "atomic" /\ node.initial # None
    \/ \E edge \in EdgesOf(node) : UnresolvedTarget(em, p, edge)

\* analyzeDfsmDocument finds no error.
IsValid(em) ==
    /\ em.type = "compound" => <<em.initial>> \in TopStates(em)
    /\ em.type = "parallel" => em.initial = None
    /\ "failTarget" \in DOMAIN em.defaults
           => ResolveStateTarget(em, <<>>, em.defaults.failTarget) # <<>>
    /\ \A p \in ExplicitStates(em) : ~StateSemantics(em, p)

-----------------------------------------------------------------------------
(* The unreachable-state warning: a breadth-first search over a queue. *)

\* What entering p enters below it: the initial child of a compound state,
\* every region of a parallel one.
EnteredWith(em, p) ==
    {q \in DOMAIN em.nodes :
        /\ IsPrefix(p, q)
        /\ \A k \in Len(p)..(Len(q) - 1) :
               LET node == em.nodes[Take(q, k)] IN
               \/ node.type = "parallel"
               \/ node.type = "compound" /\ node.initial = q[k + 1]}

\* enterState: the ancestors are marked and queued, but not entered; a state
\* already marked is not entered again, nor is what lies below it.
EnterState(em, search, p) ==
    LET ancestors == {Take(p, k) : k \in 1..(Len(p) - 1)} \ search.reachable
        marked == search.reachable \cup ancestors
        entered == {q \in EnteredWith(em, p) :
                       \A k \in Len(p)..Len(q) : Take(q, k) \notin marked}
    IN  [reachable |-> marked \cup entered,
         queue |-> search.queue \o Reverse(DocumentOrder(em, ancestors))
                       \o DocumentOrder(em, entered)]

\* Enters the states of a set in document order.
EnterAll(em, search, states) ==
    LET inOrder == DocumentOrder(em, states)
        after[i \in 0..Len(inOrder)] ==
            IF i = 0 THEN search ELSE EnterState(em, after[i - 1], inOrder[i])
    IN  after[Len(inOrder)]

\* The states the edges of p lead to.
TargetsOf(em, p, withFail) ==
    LET refs == {edge.target : edge \in EdgesOf(em.nodes[p])}
            \cup {FailTarget(em, edge) :
                      edge \in IF withFail THEN EdgesOf(em.nodes[p]) ELSE {}}
    IN  {ResolveStateTarget(em, p, r) : r \in refs} \ {<<>>}

\* One round: the head of the queue leaves it and its targets are entered, in
\* document order; the code takes them edge by edge, which differs only when a
\* state and one of its descendants are targeted.
Round(em, search, withFail) ==
    IF search.queue = <<>> THEN search
    ELSE EnterAll(em, [search EXCEPT !.queue = Tail(@)],
                  TargetsOf(em, Head(search.queue), withFail))

\* The rounds until the queue is empty: a state is queued at most once.
Traverse(em, search, withFail) ==
    LET after[n \in 0..Cardinality(DOMAIN em.nodes)] ==
            IF n = 0 THEN search ELSE Round(em, after[n - 1], withFail)
    IN  after[Cardinality(DOMAIN em.nodes)]

NothingReached == [reachable |-> {}, queue |-> <<>>]

Roots(em) == IF em.type = "parallel" THEN TopStates(em) ELSE {<<em.initial>>}

\* Faulty variant: onFail targets are not followed.
ReachableWithoutFail(em) ==
    Traverse(em, EnterAll(em, NothingReached, Roots(em)), FALSE).reachable

\* A declared `error' that no edge reaches is entered at the end if it is the
\* default onFail target; from there onFail targets are not followed.
Reachable(em) ==
    LET first == Traverse(em, EnterAll(em, NothingReached, Roots(em)), TRUE)
        errorReferenced ==
            Over(em.defaults, SdkDefaultPolicy).failTarget = SdkDefaultPolicy.failTarget
    IN  IF errorReferenced /\ ErrorPath \in TopStates(em) \ first.reachable
        THEN Traverse(em, EnterState(em, first, ErrorPath), FALSE).reachable
        ELSE first.reachable

UnreachableStates(em) == ExplicitStates(em) \ Reachable(em)

-----------------------------------------------------------------------------
(* The graph. *)

\* Has the policy an onFail block, with keys or an empty one?
HasOnFail(policy) ==
    {"failTarget", "compensate", "emptyOnFail"} \cap DOMAIN policy # {}

\* An onFail edge is drawn if the transition has its own onFail, or if it has
\* a handler and anything about the machine or the transition concerns
\* failures.
ShouldShowFailEdge(em, edge) ==
    LET policy == ParseTransitionPair(em, edge) IN
    \/ HasOnFail(edge.policy)
    \/ /\ edge.handler # None
       /\ \/ HasOnFail(em.defaults)
          \/ edge.handler = "saga" \/ policy.maxAttempts > 1
          \/ policy.breaker \/ ~em.implicitError

\* The edges that one transition of state p contributes.
DrawnEdges(em, p, edge) ==
    LET To(ref, kind) == {<<p, t, kind>> : t \in {ResolveStateTarget(em, p, ref)} \ {<<>>}}
    IN  To(edge.target, "target")
            \cup (IF ShouldShowFailEdge(em, edge)
                  THEN To(FailTarget(em, edge), "onFail") ELSE {})

GraphEdges(em) ==
    UNION {UNION {DrawnEdges(em, p, edge) : edge \in EdgesOf(em.nodes[p])} :
               p \in DOMAIN em.nodes}

=============================================================================
