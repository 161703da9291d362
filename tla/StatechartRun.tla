---------------------------- MODULE StatechartRun ---------------------------
(***************************************************************************)
(* A definition is opened in the editor and loaded by the SDK, an actor    *)
(* starts a transaction of it and fires events: the state side of          *)
(* executeTransitionOnSnapshot (runtime/actor.ts), one whole call per      *)
(* step.  How calls interleave is the subject of SagaActor; here the state *)
(* value is the machine's, not an abstract one.                            *)
(***************************************************************************)
EXTENDS Statechart, EditorModel

CONSTANTS
    Definitions,   \* the definitions that are tried
    Events         \* the events that are fired

ASSUME DefinitionsAssumption == \A d \in Definitions : IsDocument(d)

VARIABLES
    definition,    \* the document
    machine,       \* what the SDK makes of it
    editor,        \* what the editor makes of it
    value,         \* stateValue of the transaction
    status,        \* its status, None before startTransaction
    effects,       \* exit and entry effects of the last step, in order
    taken,         \* the transitions the last step took
    outcome        \* how the last step ended

vars == <<definition, machine, editor, value, status, effects, taken, outcome>>
documents == <<definition, machine, editor>>

OnDoneRounds == 20

Analyze(em) ==
    [valid |-> IsValid(em),
     unreachable |-> IF IsValid(em) THEN UnreachableStates(em) ELSE {},
     edges |-> IF IsValid(em) THEN GraphEdges(em) ELSE {}]

Init ==
    /\ definition \in Definitions
    /\ machine = ParseYamlMachine(definition)
    /\ editor = Analyze(ParseDfsmYaml(definition))
    /\ value = {} /\ status = None /\ effects = <<>> /\ taken = {}
    /\ outcome = None

-----------------------------------------------------------------------------
(* A step in the making: the working state, the pending effects and the    *)
(* transitions taken.                                                      *)

Working(v) == [value |-> v, effects |-> <<>>, taken |-> {}]

\* Takes the transition from state s to ref on the working state.
TakeTransition(m, step, s, ref) ==
    LET t == ResolveTargetStatePath(m, s, ref) IN
    IF ref = NoRef THEN step
    ELSE [value |-> NextStateValue(m, step.value, s, t),
          effects |-> step.effects \o ExitsAndEntries(m, step.value, s, t),
          taken |-> step.taken \cup {<<s, t>>}]

\* The edges the event matches succeed in order, the k-th with target refs[k].
Broadcast(m, v, sources, refs) ==
    LET after[k \in 0..Len(sources)] ==
            IF k = 0 THEN Working(v)
            ELSE TakeTransition(m, after[k - 1], sources[k], refs[k])
    IN  after[Len(sources)]

\* Where an edge leads when it succeeds: output.targetState ?? edge.target.
SuccessTargets(edge) == {edge.target} \cup edge.returns

\* The targets the edges that e matches may lead to when they succeed.
Outputs(m, e, sources) ==
    LET Of(k) == SuccessTargets(m.nodes[sources[k]].on[e])
    IN  {refs \in [DOMAIN sources -> UNION {Of(k) : k \in DOMAIN sources}] :
             \A k \in DOMAIN sources : refs[k] \in Of(k)}

\* applyTargetTransition throws on a target that does not resolve.
Throws(m, s, ref) == ref # NoRef /\ ~Resolvable(m, s, ref)

\* An edge fails if it has a handler, or if its breaker, opened by failures of
\* others under the same key, refuses the call.
CanFail(m, edge) == edge.handler # None \/ EffectivePolicy(m, edge).breaker

\* One round of the onDone cascade: the pending onDone is taken; the cascade is
\* over when there is none, or after an onDone without a target.  A failing
\* $onDone handler does not stop it.
OnDoneRound(m, step) ==
    LET pending == FindPendingOnDone(m, step.value)
        s == CHOOSE p \in pending : TRUE
        ref == m.nodes[s].onDone.target
    IN  IF pending = {} \/ ref = NoRef THEN step
        ELSE TakeTransition(m, step, s, ref)

\* Faulty variant: one round only.
SingleOnDone(m, step, rounds) == OnDoneRound(m, step)

\* The onDone cascade: at most OnDoneRounds rounds.
CascadeOnDone(m, step, rounds) ==
    LET after[n \in 0..rounds] ==
            IF n = 0 THEN step ELSE OnDoneRound(m, after[n - 1])
    IN  after[rounds]

Commit(step, newStatus, how) ==
    /\ outcome' = how
    /\ value' = step.value
    /\ effects' = step.effects
    /\ taken' = step.taken
    /\ status' = newStatus
    /\ UNCHANGED documents

-----------------------------------------------------------------------------
(* The actions. *)

\* startTransaction; onDone of the initial state is not evaluated.
Start ==
    /\ status = None
    /\ Accepted(machine)
    /\ LET entries == DocumentOrder(machine, InitialStates(machine))
           v == ResolveInitialState(machine)
       IN  Commit([value |-> v, taken |-> {},
                   effects |-> [i \in DOMAIN entries |-> <<"entry", entries[i]>>]],
                  ResolveSettledTransactionStatus(machine, v, FALSE), "started")

\* Every matched edge succeeds; then the onDone cascade, then the commit.
Succeed(e) ==
    /\ status # None
    /\ LET sources == ResolveTransitionsForEvent(machine, value, e) IN
       /\ sources # <<>>
       /\ \E refs \in Outputs(machine, e, sources) :
              LET step == CascadeOnDone(machine,
                              Broadcast(machine, value, sources, refs), OnDoneRounds)
              IN  /\ \A k \in DOMAIN sources : ~Throws(machine, sources[k], refs[k])
                  /\ Commit(step,
                            ResolveSettledTransactionStatus(machine, step.value, FALSE),
                            "succeeded")

\* A handler returns a target that does not resolve: the call throws, nothing
\* of it is written, and the row keeps its state under the lease.
ReturnsUnresolved(e) ==
    /\ status # None
    /\ LET sources == ResolveTransitionsForEvent(machine, value, e) IN
       \E k \in DOMAIN sources :
           \E ref \in SuccessTargets(machine.nodes[sources[k]].on[e]) :
               Throws(machine, sources[k], ref)
    /\ Commit(Working(value), "IN_FLIGHT", "thrown")

\* The k-th matched edge fails: its fallback is taken on the working state of
\* the edges before it, whose effects are dropped; no onDone is evaluated.  A
\* fallback that does not resolve makes the call throw, after the unwinding if
\* there is one, and the row keeps its state.
Fail(e) ==
    /\ status # None
    /\ LET sources == ResolveTransitionsForEvent(machine, value, e) IN
       \E k \in DOMAIN sources :
           LET s == sources[k]
               earlier == Take(sources, k - 1)
               edge == machine.nodes[s].on[e]
               policy == EffectivePolicy(machine, edge)
           IN  /\ CanFail(machine, edge)
               /\ \E refs \in Outputs(machine, e, earlier) :
                      LET before == Broadcast(machine, value, earlier, refs)
                          step == TakeTransition(machine, [before EXCEPT !.effects = <<>>],
                                                 s, policy.failTarget)
                      IN  /\ \A i \in DOMAIN earlier :
                                 ~Throws(machine, earlier[i], refs[i])
                          /\ IF Resolvable(machine, s, policy.failTarget)
                             THEN Commit(step, ResolveSettledTransactionStatus(
                                                   machine, step.value, policy.compensate),
                                         "failed")
                             ELSE Commit(Working(value),
                                         IF policy.compensate THEN "COMPENSATING"
                                         ELSE "IN_FLIGHT", "thrown")

Next == Start \/ \E e \in Events : Succeed(e) \/ ReturnsUnresolved(e) \/ Fail(e)

Spec == Init /\ [][Next]_vars

-----------------------------------------------------------------------------
(* Properties. *)

\* The targets of an edge: where it leads when it succeeds and when it fails.
TargetsOfEdge(m, p, edge) ==
    LET failing == IF CanFail(m, edge) THEN {EffectivePolicy(m, edge).failTarget} ELSE {}
    IN  {ResolveTargetStatePath(m, p, r) :
             r \in {ref \in SuccessTargets(edge) \cup failing : ~Throws(m, p, ref)} \ {NoRef}}

\* The regions (children of parallel states, of a parallel root too) that
\* state p is in.
RegionsOf(m, p) ==
    {Take(p, k + 1) : k \in {j \in 0..(Len(p) - 1) : IsParallel(m, Take(p, j))}}

\* p and q lie in two regions of the same parallel state.
Apart(m, p, q) ==
    \E r \in RegionsOf(m, p), s \in RegionsOf(m, q) : r # s /\ Front(r) = Front(s)

\* A machine that stays clear of what the engine does not handle: no edge
\* enters a region from outside its parallel state or aims at a childless
\* region, an event that several regions handle leaves none of them, and
\* neither a parallel machine nor a parallel region has childless regions.
Scoped(m) ==
    /\ m.type = "parallel" => \A r \in Children(m, <<>>) :
           IsLeaf(m, r) => r = ErrorPath /\ m.implicitError
    /\ \A r \in DOMAIN m.nodes :
           IsLeaf(m, r) /\ NodeType(m, Front(r)) = "parallel" =>
               NodeType(m, Front(Front(r))) # "parallel"
    /\ \A p \in DOMAIN m.nodes : \A edge \in EdgesOf(m.nodes[p]) :
        /\ \A t \in TargetsOfEdge(m, p, edge) :
               /\ RegionsOf(m, t) \subseteq RegionsOf(m, p)
               /\ ~(t \in RegionsOf(m, t) /\ IsLeaf(m, t))
               /\ m.type = "parallel" => t[1] = p[1]
        /\ (\E q \in DOMAIN m.nodes :
                Apart(m, p, q) /\ edge.event \in DOMAIN m.nodes[q].on) =>
               \A ref \in SuccessTargets(edge) :
                   \/ ref = NoRef \/ Throws(m, p, ref)
                   \/ RegionsOf(m, ResolveTargetStatePath(m, p, ref)) = RegionsOf(m, p)

\* A configuration: exactly one child of every active compound state is
\* active, and all children of every active parallel state.
IsConfiguration(m, v) ==
    LET active == ActiveStates(m, v)
        Below(p) == Children(m, p) \cap active
        regions == Children(m, <<>>) \ (IF m.implicitError THEN {ErrorPath} ELSE {})
    IN  /\ GetActiveLeafPaths(m, v) \subseteq {p \in active : IsLeaf(m, p)}
        /\ IF m.type = "parallel" THEN Below(<<>>) = regions
           ELSE Cardinality(Below(<<>>)) = 1
        /\ \A p \in active :
               /\ NodeType(m, p) = "compound" => Cardinality(Below(p)) = 1
               /\ NodeType(m, p) = "parallel" => Below(p) = Children(m, p)

TypeOK ==
    /\ status # None => value # {}
    /\ \A w \in value : w \in DOMAIN machine.nodes \/ Front(w) \in DOMAIN machine.nodes
    /\ status \in {None, "IDLE", "IN_FLIGHT", "COMPENSATING", "COMPLETED", "FAILED",
                   "COMPENSATED"}
    /\ outcome \in {None, "started", "succeeded", "failed", "thrown"}
    /\ taken \subseteq (DOMAIN machine.nodes) \X (DOMAIN machine.nodes)

\* Whatever is fired and fails, in any order, the state value stays a
\* configuration of the tree (spec/SPECIFICATION.md 2.2), for machines whose
\* edges respect the regions.
LegalConfiguration ==
    status # None /\ Scoped(machine) => IsConfiguration(machine, value)

\* The same for every definition the SDK accepts: entering a parallel state
\* enters all its regions, and they stay active until it is left.
AllRegionsActive ==
    status # None => IsConfiguration(machine, value)

\* An exit of an active state and an entry of an inactive one are replayed.
Replay(active, effect) ==
    CASE effect[1] = "exit" /\ effect[2] \in active -> active \ {effect[2]}
      [] effect[1] = "entry" /\ effect[2] \notin active -> active \cup {effect[2]}
      [] OTHER -> {<<"unbalanced">>}

ReplayAll(active, effs) ==
    LET after[k \in 0..Len(effs)] ==
            IF k = 0 THEN active ELSE Replay(after[k - 1], effs[k])
    IN  after[Len(effs)]

\* Replaying the effects of a step on the states that were active: every exit
\* is of an active state, every entry of an inactive one, and the replay ends
\* in the states that are active now.  Steps that fail midway drop effects.
EffectsReplay ==
    [][outcome' = "succeeded" /\ Scoped(machine) =>
          ReplayAll(ActiveStates(machine, value), effects')
              = ActiveStates(machine, value')]_vars

\* getAvailableEvents names exactly the events transition accepts.
AvailableEventsExact ==
    status # None /\ Scoped(machine) =>
        GetAvailableEvents(machine, value) \cap Events =
            {e \in Events : ResolveTransitionsForEvent(machine, value, e) # <<>>}

\* A call throws on an unresolvable target only if a handler returned it, or
\* if a decorator or the global defaults gave it as the fallback: every target
\* of the definition was validated.
DefinitionTargetsResolve ==
    /\ outcome = "thrown" =>
           \E p \in DOMAIN machine.nodes : \E edge \in EdgesOf(machine.nodes[p]) :
               \/ \E ref \in edge.returns : Throws(machine, p, ref)
               \/ /\ "failTarget" \in DOMAIN edge.decorator \cup DOMAIN machine.global
                  /\ ~Resolvable(machine, p, EffectivePolicy(machine, edge).failTarget)
    /\ \A move \in taken : move[2] # <<>>

\* After a step that succeeds no onDone with a target is left pending, unless
\* onDone edges lead back into the container they complete.
OnDoneFires ==
    [][outcome' = "succeeded" =>
          \A p \in FindPendingOnDone(machine, value') :
              LET ref == machine.nodes[p].onDone.target
              IN  \/ ref = NoRef
                  \/ IsPrefix(Take(p, 1), ResolveTargetStatePath(machine, p, ref))]_vars

\* The targets a definition gives, for success and for failure.
References(raw) ==
    LET edges == UNION {EdgesOf(raw.nodes[p]) : p \in DOMAIN raw.nodes}
        layers == {raw.defaults} \cup {edge.policy : edge \in edges}
    IN  {edge.target : edge \in edges}
            \cup {layer.failTarget : layer \in {l \in layers : "failTarget" \in DOMAIN l}}

\* A definition the editor shows no error for is loaded by the SDK, except
\* that only the SDK rejects children of a state declared atomic, and a target
\* with blanks around it, which the editor trims.
EditorErrorsComplete ==
    editor.valid =>
        \/ Accepted(machine)
        \/ \E p \in DOMAIN definition.nodes :
               definition.nodes[p].type = "atomic" /\ Children(definition, p) # {}
        \/ \E ref \in References(definition) : ref.spelling = "blanks"

\* Where the edges of p lead when they succeed, as the definition has it.
DeclaredTargets(m, p) ==
    {ResolveTargetStatePath(m, p, ref) :
         ref \in {edge.target : edge \in EdgesOf(m.nodes[p])} \ {NoRef}}

\* No edge leads from outside a compound or parallel state to below it, also
\* not one that never fails, by its onFail.  Of what the editor does not see,
\* no decorator or global default redirects a failure, and a handler chooses
\* only among the targets that the edges of its state declare.
NoDeepTargets(m) ==
    DOMAIN m.global = {} /\ \A p \in DOMAIN m.nodes : \A edge \in EdgesOf(m.nodes[p]) :
        /\ \A ref \in edge.returns :
               \/ ref = NoRef \/ Throws(m, p, ref)
               \/ ResolveTargetStatePath(m, p, ref) \in DeclaredTargets(m, p)
        /\ "failTarget" \notin DOMAIN edge.decorator
        /\ \A ref \in {edge.target, EffectivePolicy(m, edge).failTarget} \ {NoRef} :
               IsPrefix(Front(ResolveTargetStatePath(m, p, ref)), p)

\* A state the editor flags as unreachable never becomes active, for
\* definitions without targets below another container.
UnreachableNeverActive ==
    editor.valid /\ status # None /\ NoDeepTargets(machine) =>
        ActiveStates(machine, value) \cap editor.unreachable = {}

\* Every transition a step takes on success is an edge of the editor's graph,
\* unless the target is one that a handler returned.
StepsAreDrawn ==
    [][editor.valid /\ outcome' = "succeeded" =>
          \A move \in taken' :
              \/ <<move[1], move[2], "target">> \in editor.edges
              \/ \E edge \in EdgesOf(machine.nodes[move[1]]) : \E ref \in edge.returns :
                     ref # NoRef /\ ResolveTargetStatePath(machine, move[1], ref) = move[2]
    ]_vars

=============================================================================
