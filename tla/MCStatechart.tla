---------------------------- MODULE MCStatechart ----------------------------
(* Families of definitions for StatechartRun. *)
EXTENDS StatechartRun

Rel(path) == [root |-> FALSE, spelling |-> "plain", path |-> path]
Root(path) == [root |-> TRUE, spelling |-> "plain", path |-> path]
Spelled(ref, how) == [ref EXCEPT !.spelling = how]

Edge(source, event, ref) ==
    [source |-> source, event |-> event, target |-> ref, handler |-> "plain",
     returns |-> {}, policy |-> <<>>, decorator |-> <<>>]

\* The edge whose handler may return a target.
Returning(ed, refs) == [ed EXCEPT !.returns = refs]

\* A document: a tree in document order with the types and initial keys that
\* are given, edges (at most one per source and event) and onDone edges.
Document(type, initial, tree, types, initials, edges, dones, defaults) ==
    LET At(p, es) == {ed \in es : ed.source = p}
        Plain(ed) == [event |-> ed.event, target |-> ed.target,
                      handler |-> ed.handler, returns |-> ed.returns,
                      policy |-> ed.policy, decorator |-> ed.decorator]
        Pick(es) == CHOOSE ed \in es : TRUE
        Get(f, p) == IF p \in DOMAIN f THEN f[p] ELSE None
        Node(p) == [type |-> Get(types, p), initial |-> Get(initials, p),
                    on |-> [e \in {ed.event : ed \in At(p, edges)} |->
                               Plain(Pick({ed \in At(p, edges) : ed.event = e}))],
                    onDone |-> IF At(p, dones) = {} THEN NoEdge
                               ELSE Plain(Pick(At(p, dones)))]
    IN  [type |-> type, initial |-> initial, order |-> tree,
         nodes |-> [p \in Range(tree) |-> Node(p)],
         defaults |-> defaults, global |-> <<>>, implicitError |-> FALSE]

Distinct(e1, e2) == e1.source = e2.source => e1.event # e2.event

-----------------------------------------------------------------------------
(* Two regions in a compound machine. *)

RegionTree == << <<"a">>, <<"p">>, <<"p", "r">>, <<"p", "r", "x">>,
    <<"p", "r", "f">>, <<"p", "s">>, <<"p", "s", "y">>, <<"p", "s", "g">>,
    <<"d">> >>

RegionDocuments ==
    LET types == (<<"p">> :> "parallel") @@ (<<"p", "r", "f">> :> "final")
            @@ (<<"p", "s", "g">> :> "final") @@ (<<"d">> :> "final")
        initials == (<<"p", "r">> :> "x") @@ (<<"p", "s">> :> "y")
        targets == {Rel(<<"d">>), Rel(<<"a">>), Rel(<<"p">>), Rel(<<"f">>),
                    Rel(<<"g">>), Root(<<"p", "r", "f">>)}
        first == {Edge(s, "E", t) : s \in {<<"p">>, <<"p", "r">>, <<"p", "r", "x">>},
                                    t \in targets}
        second == {Edge(s, e, t) : s \in {<<"a">>, <<"p", "s", "y">>},
                                   e \in {"E", "F"}, t \in targets}
        done == {{}, {Edge(<<"p">>, "$onDone", Rel(<<"d">>))},
                 {Edge(<<"p", "r">>, "$onDone", Rel(<<"r">>)),
                  Edge(<<"p">>, "$onDone", Rel(<<"a">>))}}
    IN  {Document("compound", i, RegionTree, types, initials, {e1, e2}, dn, <<>>) :
             i \in {"p"}, e1 \in first, e2 \in second, dn \in done}

-----------------------------------------------------------------------------
(* A compound state and a custom error state: types, initial keys, targets *)
(* and policies that are right or wrong.                                   *)

NestedTree == << <<"a">>, <<"c">>, <<"c", "x">>, <<"c", "f">>, <<"d">>, ErrorPath >>

NestedTypes ==
    {(<<"c", "f">> :> "final") @@ (<<"d">> :> "final") @@ t :
         t \in {<<"c">> :> "compound", <<"c">> :> "parallel", <<"c">> :> "final",
                <<"c">> :> "atomic", ErrorPath :> "final", <<>> :> None}}

Failing(ed, policy, decorator) ==
    [ed EXCEPT !.policy = policy, !.decorator = decorator]

Policies ==
    {<<>>, [failTarget |-> Rel(<<"x">>)], [failTarget |-> Root(<<"a">>)],
     [failTarget |-> Rel(<<"z">>)], [compensate |-> TRUE],
     [failTarget |-> Rel(<<"z">>), compensate |-> TRUE], [emptyOnFail |-> TRUE],
     [failTarget |-> Rel(<<"a">>), maxAttempts |-> 3]}

\* Every combination of types, initial keys and edges.
ShapeDocuments ==
    LET go == {Edge(s, "E", t) : s \in {<<"a">>, <<"c">>, <<"c", "x">>, <<"d">>},
                   t \in {Rel(<<"c">>), Rel(<<"f">>), Root(<<"c", "f">>), Rel(<<"z">>)}}
        done == {{}, {Edge(<<"c">>, "$onDone", Rel(<<"c">>))},
                 {Edge(<<"c">>, "$onDone", Rel(<<"d">>))}}
        recover == Edge(ErrorPath, "F", Rel(<<"a">>))
    IN  {Document("compound", i, NestedTree, types, inits, {ed, recover}, dn, <<>>) :
             i \in {"a", "c", "z", "error", None}, types \in NestedTypes,
             inits \in {<<"c">> :> "x", <<"c">> :> "f", <<"c">> :> "z", <<>> :> None},
             ed \in go, dn \in done}

\* The layers of the failure policy, with and without a handler.
PolicyDocuments ==
    LET types == (<<"c", "f">> :> "final") @@ (<<"d">> :> "final")
        handled == {Failing(Edge(<<"c", "x">>, "E", t), policy, decorator) :
                        t \in {NoRef, Rel(<<"f">>), Rel(<<"d">>)},
                        policy \in Policies, decorator \in Policies}
        bare == {[ed EXCEPT !.handler = None] : ed \in handled}
        tree(withError) == IF withError THEN NestedTree ELSE Front(NestedTree)
    IN  {Document("compound", "c", tree(err), types, <<"c">> :> "x",
                  {ed, Edge(<<"a">>, "F", Rel(<<"c">>))}, {}, defaults) :
             err \in BOOLEAN, ed \in handled \cup bare,
             defaults \in {<<>>, [failTarget |-> Rel(<<"a">>)],
                           [failTarget |-> Rel(<<"z">>)], [compensate |-> TRUE]}}

\* The registry's defaults, which no validation looks at.
GlobalDocuments ==
    {[Document("compound", "c", NestedTree, <<"d">> :> "final", <<"c">> :> "x",
               {Failing(Edge(<<"c", "x">>, "E", Rel(<<"d">>)), policy, <<>>)}, {}, <<>>)
         EXCEPT !.global = [failTarget |-> Rel(t)]] :
         policy \in Policies, t \in {<<"a">>, <<"z">>}}

\* Handlers that return targets, among them targets no edge of their state has,
\* one that does not resolve and the empty string; with and without a saga.
ReturningDocuments ==
    LET types == (<<"c", "f">> :> "final") @@ (<<"d">> :> "final")
        returned == {{Rel(<<"f">>)}, {Rel(<<"x">>), NoRef}, {Rel(<<"d">>)},
                     {Rel(<<"z">>)}, {Root(<<"c", "f">>), Rel(<<"c">>)},
                     {Spelled(Rel(<<"d">>), "blanks")}, {Spelled(Rel(<<"d">>), "gaps")}}
    IN  {Document("compound", "c", NestedTree, types, <<"c">> :> "x",
                  {Returning([Edge(<<"c", "x">>, "E", t) EXCEPT !.handler = h], refs),
                   Edge(<<"c">>, "F", Rel(<<"d">>)), Edge(<<"a">>, "E", Rel(<<"c">>))},
                  dn, <<>>) :
             t \in {NoRef, Rel(<<"f">>), Rel(<<"a">>)}, h \in {"plain", "saga"},
             refs \in returned, dn \in {{}, {Edge(<<"c">>, "$onDone", Rel(<<"a">>))}}}

\* References with blanks around them or gaps in them, where the definition is
\* validated: on edges, onDone edges, onFail and the machine's defaults.
SpelledDocuments ==
    LET types == (<<"c", "f">> :> "final") @@ (<<"d">> :> "final")
        Text(how) == {Spelled(r, how) : r \in {Rel(<<"f">>), Rel(<<"a">>), Root(<<"c">>)}}
        texts == UNION {Text(how) : how \in Spellings}
            \cup {Spelled(Rel(<<>>), "gaps"), Spelled(Root(<<>>), "gaps")}
    IN  UNION {
            {Document("compound", "c", NestedTree, types, <<"c">> :> "x",
                      {Edge(<<"c", "x">>, "E", ref)}, {}, <<>>),
             Document("compound", "c", NestedTree, types, <<"c">> :> "x",
                      {Failing(Edge(<<"c", "x">>, "E", Rel(<<"f">>)),
                               [failTarget |-> ref], <<>>)}, {}, <<>>),
             Document("compound", "c", NestedTree, types, <<"c">> :> "x",
                      {Edge(<<"c", "x">>, "E", Rel(<<"f">>))},
                      {Edge(<<"c">>, "$onDone", ref)}, [failTarget |-> ref]),
             Document("compound", "c", NestedTree, types, <<"c">> :> "x",
                      {Edge(<<"c", "x">>, "E", Rel(<<"f">>))},
                      {Edge(<<"c">>, "$onDone", ref)}, <<>>)} : ref \in texts}

-----------------------------------------------------------------------------
(* A parallel machine: a region with states, a childless one, no error     *)
(* state or a declared one (which then is a region).                       *)

ParallelDocuments ==
    LET tree == << <<"r">>, <<"r", "x">>, <<"r", "f">>, <<"s">>, <<"s", "y">>,
                   <<"s", "g">> >>
        types == (<<"r", "f">> :> "final") @@ (<<"s", "g">> :> "final")
        inits == (<<"r">> :> "x") @@ (<<"s">> :> "y")
        go(s, e) == {[Edge(s, e, t) EXCEPT !.handler = h] : h \in {None, "plain"},
                         t \in {Rel(<<"f">>), Rel(<<"g">>), Rel(<<"r">>),
                                Root(<<"s", "g">>)}}
        back == {{}, {Edge(<<"r">>, "$onDone", Rel(<<"r">>))}}
    IN  {Document("parallel", i, tr, types, inits, {e1, e2}, dn, <<>>) :
             i \in {None, "r"}, tr \in {tree, tree \o <<ErrorPath>>},
             e1 \in go(<<"r", "x">>, "E") \cup go(<<"r">>, "F"),
             e2 \in go(<<"s", "y">>, "E"), dn \in back}

\* A region without children beside one with children.
ChildlessDocuments ==
    LET tree == << <<"p">>, <<"p", "r">>, <<"p", "r", "x">>, <<"p", "r", "f">>,
                   <<"p", "s">>, <<"d">> >>
        types(s) == (<<"p">> :> "parallel") @@ (<<"p", "r", "f">> :> "final")
            @@ (<<"p", "s">> :> s) @@ (<<"d">> :> "final")
        finish == {{}, {Edge(<<"p">>, "$onDone", Rel(<<"d">>))}}
    IN  {Document("compound", "p", tree, types(s), <<"p", "r">> :> "x", {e1, e2},
                  dn, <<>>) :
             s \in {"atomic", "final"},
             e1 \in {Edge(<<"p", "r", "x">>, "E", Rel(t)) : t \in {<<"f">>, <<"x">>}},
             e2 \in {Edge(q, e, Rel(t)) : q \in {<<"p">>, <<"p", "r">>, <<"p", "s">>},
                         e \in {"E", "F"}, t \in {<<"p">>, <<"s">>, <<"d">>}},
             dn \in finish}

\* A parallel state that is a region of another, with and without regions that
\* have no children, in a machine whose states are entered by onFail targets of
\* edges that have no handler too.
NestedDocuments ==
    LET tree == << <<"a">>, <<"p">>, <<"p", "q">>, <<"p", "q", "r">>,
                   <<"p", "q", "r", "x">>, <<"p", "q", "r", "y">>,
                   <<"p", "q", "s">>, <<"p", "q", "s", "z">>, <<"p", "t">> >>
        trees == {tree, SelectSeq(tree, LAMBDA q : Len(q) < 4)}
        types == (<<"p">> :> "parallel") @@ (<<"p", "q">> :> "parallel")
        initials(tr) == IF Len(tr) < Len(tree) THEN <<>>
                        ELSE (<<"p", "q", "r">> :> "x") @@ (<<"p", "q", "s">> :> "z")
        bare(s, policy) == [Edge(s, "E", Rel(<<"p">>)) EXCEPT !.handler = None,
                                                              !.policy = policy]
        inner == {Edge(<<"p", "q", "r">>, "F", Rel(t)) : t \in {<<"r">>, <<"s">>, <<"q">>}}
            \cup {Edge(<<"p", "q">>, "F", t) : t \in {Rel(<<"q">>), Root(<<"p", "q", "r">>)}}
    IN  {Document("compound", i, tr, types, initials(tr), {bare(<<"a">>, policy), e},
                  {}, <<>>) :
             i \in {"a", "p"}, tr \in trees, e \in inner,
             policy \in {<<>>, [failTarget |-> Root(<<"p", "q">>)],
                          [failTarget |-> Root(<<"p", "q">>), breaker |-> TRUE]}}

\* Three regions that one event matches: the handlers of the first two return
\* targets within their region or outside it, and each of the edges may fail,
\* the last one, which has no handler, by its breaker.
TripleDocuments ==
    LET regions == <<"r", "s", "t">>
        tree == << <<"p">> >> \o [i \in 1..9 |->
                    LET r == regions[(i + 2) \div 3]
                    IN  CASE i % 3 = 1 -> <<"p", r>> [] i % 3 = 2 -> <<"p", r, "x">>
                          [] OTHER -> <<"p", r, "f">>] \o << <<"d">> >>
        types == [q \in {<<"p", r, "f">> : r \in Range(regions)} |-> "final"]
            @@ (<<"p">> :> "parallel") @@ (<<"d">> :> "final")
        initials == [q \in {<<"p", r>> : r \in Range(regions)} |-> "x"]
        go(r) == Edge(<<"p", r, "x">>, "E", Rel(<<"f">>))
        last == {[Failing(go("t"), policy, <<>>) EXCEPT !.handler = None] :
                     policy \in {<<>>, [breaker |-> TRUE],
                                  [breaker |-> TRUE, failTarget |-> Rel(<<"f">>)]}}
        done == {{}, {Edge(<<"p">>, "$onDone", Rel(<<"d">>))}}
    IN  {Document("compound", "p", tree, types, initials,
                  {Returning(go("r"), r1), Returning(go("s"), r2), e3}, dn,
                  [failTarget |-> Rel(f)]) :
             r1 \in {{}, {NoRef}, {Rel(<<"x">>)}},
             r2 \in {{}, {Rel(<<"x">>), Rel(<<"z">>)}, {Root(<<"d">>)}},
             e3 \in last, dn \in done, f \in {<<"d">>, <<"x">>}}

-----------------------------------------------------------------------------
(* Completion that ripples outwards, and a name that a nested state shares *)
(* with a top-level one.                                                   *)

ChainDocuments ==
    LET tree == << <<"c">>, <<"c", "k">>, <<"c", "k", "x">>, <<"c", "k", "f">>,
                   <<"c", "x">>, <<"f">>, <<"x">> >>
        types(t) == (<<"c", "k", "f">> :> "final") @@ (<<"c", "x">> :> t)
            @@ (<<"f">> :> "final")
        targets == {Rel(<<"x">>), Rel(<<"f">>), Root(<<"x">>), Rel(<<"c">>)}
    IN  {Document("compound", "c", tree, types(t), (<<"c">> :> "k") @@ (<<"c", "k">> :> "x"),
                  {Edge(<<"c", "k", "x">>, "E", go), Edge(<<"x">>, "F", Rel(<<"c">>))},
                  {Edge(<<"c", "k">>, "$onDone", inner), Edge(<<"c">>, "$onDone", outer)},
                  <<>>) :
             t \in {"atomic", "final"}, go \in targets, inner \in targets,
             outer \in targets}

AllDefinitions ==
    RegionDocuments \cup ShapeDocuments \cup PolicyDocuments
        \cup GlobalDocuments \cup ParallelDocuments \cup ChildlessDocuments
        \cup ReturningDocuments \cup SpelledDocuments
        \cup NestedDocuments \cup TripleDocuments \cup ChainDocuments

=============================================================================
