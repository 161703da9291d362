------------------------- MODULE MachineDefinition --------------------------
(***************************************************************************)
(* A DFSM machine definition as the TypeScript SDK loads it                *)
(* (definition/parser.ts, definition/ir.ts, policy/merger.ts): the tree of *)
(* states is a function from paths to nodes, a path being the sequence of  *)
(* keys from the root, and `order' lists the paths in document order.      *)
(*                                                                         *)
(* An omitted key is None, an omitted target is NoRef, a partial policy is *)
(* a record with only the fields that were given.  The handlers of an edge *)
(* are None, "plain" (a transition handler) or "saga" (it also names a     *)
(* compensate handler); `decorator' is the policy that the handler's       *)
(* decorators give, `global' the registry's defaults.  `returns' holds     *)
(* what the handler may return as targetState, NoRef being the empty       *)
(* string.                                                                 *)
(*                                                                         *)
(* A reference is the keys its text has between the dots, after `#' or     *)
(* `#id.' (root) or not, and how the text is spelled: "plain", with        *)
(* "blanks" around it, or with "gaps", dots that have no key between them. *)
(***************************************************************************)
EXTENDS Integers, FiniteSets, Sequences, SequencesExt

None == ""
NoRef == [root |-> FALSE, spelling |-> "plain", path |-> <<>>]
NoEdge == [event |-> None, target |-> NoRef, handler |-> None, returns |-> {},
           policy |-> <<>>, decorator |-> <<>>]
ErrorPath == <<"error">>

ImplicitError == [type |-> "final", initial |-> None, on |-> <<>>,
                  onDone |-> NoEdge]

\* The first k keys of a path.
Take(p, k) == SubSeq(p, 1, k)

\* q is a proper ancestor of p; the root is the ancestor <<>> of every path.
Above(q, p) == IsStrictPrefix(q, p)

Children(m, p) == {q \in DOMAIN m.nodes : Len(q) = Len(p) + 1 /\ IsPrefix(p, q)}

\* Paths sorted as the document declares them.
DocumentOrder(m, paths) ==
    LET first[i \in 0..Len(m.order)] ==
            IF i = 0 THEN <<>>
            ELSE IF m.order[i] \in paths THEN Append(first[i - 1], m.order[i])
            ELSE first[i - 1]
    IN  first[Len(m.order)]

NodeType(m, p) == IF p \in DOMAIN m.nodes THEN m.nodes[p].type ELSE None
IsLeaf(m, p) == NodeType(m, p) \in {"atomic", "final"}

\* A parallel container, the root of a parallel machine included.
IsParallel(m, p) ==
    IF p = <<>> THEN m.type = "parallel" ELSE NodeType(m, p) = "parallel"

HasOnDone(node) == node.onDone.event # None

\* The edges of a node: `on' in declaration order, then onDone.
EdgesOf(node) ==
    {node.on[e] : e \in DOMAIN node.on}
        \cup (IF HasOnDone(node) THEN {node.onDone} ELSE {})

-----------------------------------------------------------------------------
(* Policies. *)

SdkDefaultPolicy ==
    [failTarget |-> [root |-> FALSE, spelling |-> "plain", path |-> ErrorPath],
     compensate |-> FALSE, maxAttempts |-> 1, breaker |-> FALSE]

\* Policy upper, completed with the fields that only lower gives.
Over(upper, lower) ==
    [field \in DOMAIN upper \cup DOMAIN lower |->
         IF field \in DOMAIN upper THEN upper[field] ELSE lower[field]]

\* Every layer overrides the fields it gives, and only those: for each field
\* the highest layer that gives it decides.
NormalizeTransitionPolicy(global, machine, transition, decorator) ==
    Over(decorator, Over(transition, Over(machine, Over(global, SdkDefaultPolicy))))

EffectivePolicy(m, edge) ==
    NormalizeTransitionPolicy(m.global, m.defaults, edge.policy, edge.decorator)

-----------------------------------------------------------------------------
(* Target resolution. *)

\* Faulty variant: the root is tried before the source's siblings.
ResolveRootFirst(m, source, ref) ==
    LET sibling == IF source = <<>> THEN <<>> ELSE Front(source) \o ref.path
    IN  IF ref.spelling = "blanks" THEN <<>>
        ELSE IF ref.path \in DOMAIN m.nodes THEN ref.path
        ELSE IF ~ref.root /\ sibling \in DOMAIN m.nodes THEN sibling ELSE <<>>

\* `#path' and `#id.path' are looked up from the root.  Any other reference
\* is looked up next to the source, then from the root.  Gaps are skipped;
\* blanks belong to the text, and no key has them.  <<>>: unresolvable.
ResolveTargetStatePath(m, source, ref) ==
    LET sibling == IF source = <<>> THEN <<>> ELSE Front(source) \o ref.path
    IN  IF ref.spelling = "blanks" THEN <<>>
        ELSE IF ~ref.root /\ Len(source) > 1 /\ sibling \in DOMAIN m.nodes
        THEN sibling
        ELSE IF ref.path \in DOMAIN m.nodes THEN ref.path ELSE <<>>

Resolvable(m, source, ref) == ResolveTargetStatePath(m, source, ref) # <<>>

-----------------------------------------------------------------------------
(* Documents: what the schema (spec/dfsm-v1.schema.json), which both         *)
(* implementations validate first, and the tree form of YAML leave possible. *)
(* A key is a name a dotted path can hold: it is not empty and has neither   *)
(* dots nor blanks around it.                                                *)

Spellings == {"plain", "blanks", "gaps"}

\* A text of dots alone has gaps and no key.
IsReference(ref) ==
    /\ ref \in [root : BOOLEAN, spelling : Spellings, path : Seq(STRING)]
    /\ ref.path = <<>> => ref.spelling = "gaps"

IsPartialPolicy(policy) ==
    "failTarget" \in DOMAIN policy => IsReference(policy.failTarget)

\* Only a handler returns a target.
IsTransition(edge) ==
    /\ edge.target # NoRef => IsReference(edge.target)
    /\ \A ref \in edge.returns : ref # NoRef => IsReference(ref)
    /\ edge.handler = None => edge.returns = {}
    /\ IsPartialPolicy(edge.policy)
    /\ IsPartialPolicy(edge.decorator)

\* What a handler of onDone returns as its target is not looked at.
IsStateNode(node) ==
    /\ DOMAIN node = {"type", "initial", "on", "onDone"}
    /\ node.type \in {None, "atomic", "compound", "parallel", "final"}
    /\ \A e \in DOMAIN node.on : IsTransition(node.on[e]) /\ node.on[e].event = e
    /\ IsTransition(node.onDone) /\ node.onDone.returns = {}

\* The states form a tree, which `order' lists.
IsTree(nodes, order) ==
    /\ nodes = [p \in DOMAIN nodes |-> nodes[p]]
    /\ IsFiniteSet(DOMAIN nodes) /\ DOMAIN nodes # {}
    /\ \A p \in DOMAIN nodes :
           /\ p # <<>>
           /\ \A i \in DOMAIN p : p[i] # None
           /\ Len(p) > 1 => Front(p) \in DOMAIN nodes
    /\ order \in Seq(DOMAIN nodes)
    /\ \A p \in DOMAIN nodes : \E i \in DOMAIN order : order[i] = p
    /\ \A i, j \in DOMAIN order : order[i] = order[j] => i = j

IsDocument(raw) ==
    /\ DOMAIN raw = {"type", "initial", "order", "nodes", "defaults", "global",
                     "implicitError"}
    /\ raw.type \in {"compound", "parallel"} /\ raw.implicitError = FALSE
    /\ DOMAIN raw.nodes \subseteq Seq(STRING)
    /\ IsTree(raw.nodes, raw.order)
    /\ \A p \in DOMAIN raw.nodes : IsStateNode(raw.nodes[p])
    /\ IsPartialPolicy(raw.defaults) /\ IsPartialPolicy(raw.global)

-----------------------------------------------------------------------------
(* Loading. *)

\* A state without `type' is compound if it has children, atomic otherwise.
ParseStateNode(raw, p) ==
    [raw.nodes[p] EXCEPT
        !.type = IF @ # None THEN @
                 ELSE IF Children(raw, p) # {} THEN "compound" ELSE "atomic"]

WithImplicitError(nodes) ==
    [p \in DOMAIN nodes \cup {ErrorPath} |->
         IF p \in DOMAIN nodes THEN nodes[p] ELSE ImplicitError]

\* The implicit final `error' state is appended when it is not declared.
ParseYamlMachine(raw) ==
    LET nodes == [p \in DOMAIN raw.nodes |-> ParseStateNode(raw, p)]
    IN  IF ErrorPath \in DOMAIN nodes
        THEN [raw EXCEPT !.nodes = nodes]
        ELSE [raw EXCEPT !.nodes = WithImplicitError(nodes),
                         !.order = Append(@, ErrorPath),
                         !.implicitError = TRUE]

RootIssues(m) ==
    \/ m.order = <<ErrorPath>> /\ m.implicitError
    \/ m.type = "compound" /\ <<m.initial>> \notin DOMAIN m.nodes
    \/ m.type = "parallel" /\ m.initial # None
    \/ "failTarget" \in DOMAIN m.defaults
           /\ ~Resolvable(m, <<>>, m.defaults.failTarget)

\* Faulty variant: onFail.target is not validated.
TargetIssuesOnly(m, p, edge) ==
    edge.target # NoRef /\ ~Resolvable(m, p, edge.target)

\* Targets given in the definition resolve.  The decorator's policy and the
\* registry's global defaults are not looked at.
EdgeIssues(m, p, edge) ==
    \/ edge.target # NoRef /\ ~Resolvable(m, p, edge.target)
    \/ "failTarget" \in DOMAIN edge.policy
           /\ ~Resolvable(m, p, edge.policy.failTarget)

NodeIssues(m, p) ==
    LET node == m.nodes[p] IN
    \/ node.type = "compound" /\ p \o <<node.initial>> \notin Children(m, p)
    \/ node.type = "parallel" /\ (Children(m, p) = {} \/ node.initial # None)
    \/ IsLeaf(m, p) /\ (Children(m, p) # {} \/ node.initial # None)
    \/ node.type = "final" /\ DOMAIN node.on # {}
    \/ \E edge \in EdgesOf(node) : EdgeIssues(m, p, edge)

\* finalizeAndValidateMachineIR throws unless there is no issue.
Accepted(m) == ~RootIssues(m) /\ \A p \in DOMAIN m.nodes : ~NodeIssues(m, p)

=============================================================================
