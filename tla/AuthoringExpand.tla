--------------------------- MODULE AuthoringExpand --------------------------
(***************************************************************************)
(* The two readings of a module's outputs in the authoring language: the   *)
(* static one of typecheck.rs, which gives every reference a type, and the *)
(* dynamic one of expand.rs, which walks the same tree with values, charges *)
(* the plan-wide budget and collects the generated outputs.                *)
(*                                                                         *)
(* A node is a record with field k: the controls "when", "each" and        *)
(* "range"; in a document also "plain", "insert" and "include"; at the top *)
(* level also the outputs "doc", "file", "dir" and "symlink".              *)
(***************************************************************************)
EXTENDS AuthoringValues

CONSTANTS MaxNesting, MaxIterations, MaxNodes, MaxRange

ASSUME BudgetAssumption == {MaxNesting, MaxIterations, MaxNodes, MaxRange} \subseteq Nat

(***************************************************************************)
(* The static reading.  An environment is [bindings, refined, globals,     *)
(* inputs]: bindings and inputs are sequences of <<name, type>>, refined   *)
(* the names proven present by the enclosing @if-present branches.         *)
(***************************************************************************)
Refine(env, name, t) == IF name \in env.refined THEN UnwrapOptional(t) ELSE t

\* The type one segment further; an absent key or index reads as null, and
\* so does a field of a value that may be null.
SegmentType(t, shape, outer, segment) ==
    CASE shape[1] = "rec" ->
           IF SchemaField(t, segment) = NoField THEN None
           ELSE Optionalize(FieldLookupType(SchemaField(t, segment)), outer)
      [] shape[1] = "coll" -> Optionalize(shape[2], TRUE)
      [] shape[1] = "list" /\ segment \in DOMAIN Indices -> Optionalize(shape[2], TRUE)
      [] shape[1] = "tuple" /\ segment \in DOMAIN Indices ->
           IF Indices[segment] > Len(shape[2]) THEN None ELSE Optionalize(shape[2][Indices[segment]], outer)
      [] OTHER -> None

RECURSIVE LookupValuePath(_, _, _, _)
\* A path below a collection's item that has no type reads as the item.
Further(env, here, t, path, fallback) ==
    IF t = None THEN None
    ELSE IF path = <<>> THEN Refine(env, here, t)
    ELSE LET r == LookupValuePath(env, here, Refine(env, here, t), path)
         IN  IF r = None THEN fallback ELSE r

LookupValuePath(env, owner, t, path) ==
    LET shape == LoweredType(UnwrapOptional(t))
    IN  Further(env, Append(owner, Head(path)),
                SegmentType(UnwrapOptional(t), shape, IsOptional(t) /\ owner \notin env.refined, Head(path)),
                Tail(path),
                IF shape[1] = "coll" THEN Refine(env, owner \o path, Optionalize(shape[2], TRUE)) ELSE None)

\* TypeEnv::lookup: bindings, then globals and built-ins, then inputs.
TypeIn(env, pairs, name, exact, best) ==
    IF exact # 0 THEN Refine(env, name, pairs[exact][2])
    ELSE IF best # 0 THEN LookupValuePath(env, pairs[best][1], pairs[best][2], Suffix(name, pairs[best][1]))
    ELSE None

TypeLookup(env, name) ==
    IF HasBinding(env.bindings, name)
    THEN TypeIn(env, env.bindings, name, ExactIndex(env.bindings, name), LongestPrefix(env.bindings, name))
    ELSE IF name \in DOMAIN env.globals THEN Refine(env, name, env.globals[name])
    ELSE TypeIn(env, env.inputs, name, ExactIndex(env.inputs, name), LongestPrefix(env.inputs, name))

PushType(env, name, t) == [env EXCEPT !.bindings = Append(@, <<name, t>>)]

\* check_predicate: the type of the reference, and the shape it lowers to.
Testable(p, t, shape) ==
    CASE p.kind = "test"     -> ~IsOptional(t) /\ shape[1] = "bool"
      [] p.kind = "set"      -> IsOptional(t)
      [] p.kind = "nonempty" -> ~IsOptional(t) /\ shape[1] \in {"list", "coll", "tuple"}
      [] OTHER -> \/ shape[1] \in {"bool", "int"} /\ p.expected[1] = shape[1]
                  \/ shape[1] \in {"str", "path"} /\ p.expected[1] = "str"
                  \/ shape[1] = "enum" /\ p.expected[1] = "str" /\ p.expected[2] \in shape[2]

CheckPredicate(p, t) ==
    IF t = None THEN {"UNDEFINED_REF"}
    ELSE IF Testable(p, t, LoweredType(UnwrapOptional(t))) THEN {} ELSE {"WHEN_PREDICATE"}

\* check_each_source: the item type, or Err for a source that cannot be looped.
ItemTypeOf(shape) ==
    IF shape[1] \in {"list", "coll"} THEN shape[2]
    ELSE IF shape[1] = "tuple" /\ shape[2] # <<>> /\ Cardinality(Range(shape[2])) = 1
    THEN shape[2][1]
    ELSE Err

EachItemType(t) == IF t = None THEN Err ELSE ItemTypeOf(LoweredType(t))

\* push_binding: a loop variable may shadow only another loop variable.
ShadowsNonBinding(env, name) ==
    ExactIndex(env.bindings, name) = 0 /\ TypeLookup(env, name) # None

\* The body's environment and the errors of the loop header.
BindLoop(env, name, item) ==
    IF ShadowsNonBinding(env, name) THEN [env |-> env, errs |-> {"BINDING"}]
    ELSE [env |-> PushType(env, name, IF item = Err THEN <<"str">> ELSE item), errs |-> {}]

KeyBound(env, binding, t) ==
    IF t # None /\ LoweredType(t)[1] = "coll"
    THEN PushType(env, Append(binding, "key"), <<"str">>) ELSE env

ScalarRef(t) ==
    IF t = None THEN {"UNDEFINED_REF"} ELSE IF IsScalarType(t) THEN {} ELSE {"TYPE_MISMATCH"}

DocumentsRef(t) ==
    IF t = None THEN {"UNDEFINED_REF"}
    ELSE IF LoweredType(t) = <<"coll", <<"doc">>>> THEN {} ELSE {"TYPE_MISMATCH"}

LinkRef(t) ==
    IF t = None THEN {"UNDEFINED_REF"}
    ELSE IF LoweredType(UnwrapOptional(t))[1] \in {"path", "str"} THEN {} ELSE {"TYPE_MISMATCH"}

RECURSIVE CheckNodes(_, _, _)
\* check_output_node and check_kdl_nodes.  A document pulled in by
\* @include-fragment is only looked at for its shape.
CheckLoop(module, bound, errs, body) == errs \cup bound.errs \cup CheckNodes(module, bound.env, body)

CheckEach(module, env, node, t) ==
    CheckLoop(module, BindLoop(KeyBound(env, node.binding, t), node.binding, EachItemType(t)),
              IF t = None THEN {"UNDEFINED_REF"} ELSE IF EachItemType(t) = Err THEN {"LOOP_SOURCE"} ELSE {},
              node.body)

ThenEnv(env, p) == IF p.kind = "set" THEN [env EXCEPT !.refined = @ \cup {p.ref}] ELSE env

CheckNode(module, env, node) ==
    CASE node.k = "when" ->
           CheckPredicate(node.pred, TypeLookup(env, node.pred.ref))
           \cup CheckNodes(module, ThenEnv(env, node.pred), node.then)
           \cup CheckNodes(module, env, node.else)
      [] node.k = "each" -> CheckEach(module, env, node, TypeLookup(env, node.source))
      [] node.k = "range" ->
           CheckLoop(module, BindLoop(env, node.binding, <<"int">>),
                     IF node.through < node.from THEN {"RANGE"} ELSE {}, node.body)
      [] node.k = "plain" -> UNION {ScalarRef(TypeLookup(env, r)) : r \in node.refs}
                             \cup CheckNodes(module, env, node.kids)
      [] node.k = "insert" -> DocumentsRef(TypeLookup(env, node.source))
      [] node.k = "include" ->
           IF node.fragment \in DOMAIN module.fragments
              /\ module.fragments[node.fragment].one THEN {} ELSE {"FRAGMENT"}
      [] node.k = "doc" -> CheckNodes(module, env, node.nodes)
      [] node.k = "symlink" -> IF node.ref = None THEN {} ELSE LinkRef(TypeLookup(env, node.ref))
      [] OTHER -> IF node.optional \/ node.captured THEN {} ELSE {"OUTPUT_PATH"}

CheckNodes(module, env, nodes) ==
    UNION {CheckNode(module, env, nodes[i]) : i \in DOMAIN nodes}

-----------------------------------------------------------------------------
(***************************************************************************)
(* The dynamic reading.  acc = [out, diags, iters, gen, exhausted, quit]:  *)
(* the outputs or document nodes so far, the diagnostics, the budget's     *)
(* counters, and whether the document under way was given up.  silent is a *)
(* history component: what was given up without a diagnostic.              *)
(***************************************************************************)
EmptyAcc == [out |-> <<>>, diags |-> {}, iters |-> 0, gen |-> 0,
             exhausted |-> FALSE, quit |-> FALSE, silent |-> {}]

Diag(acc, code) == [acc EXCEPT !.diags = @ \cup {code}, !.quit = TRUE]

\* Budget::exceeded: the whole plan stops, not only this output.
Exceeded(acc) == [Diag(acc, "BUDGET") EXCEPT !.exhausted = TRUE]

CheckNesting(acc, depth) == IF depth > MaxNesting THEN Exceeded(acc) ELSE acc

CountIterations(acc, n) ==
    IF acc.iters + n > MaxIterations THEN Exceeded(acc) ELSE [acc EXCEPT !.iters = @ + n]

CheckRange(n) == n <= MaxRange

CountNode(acc, node) ==
    IF acc.gen + 1 > MaxNodes THEN Exceeded(acc)
    ELSE [acc EXCEPT !.gen = @ + 1, !.out = Append(@, node)]

Quit(acc, why) == [acc EXCEPT !.quit = TRUE, !.silent = @ \cup {why}]

\* loop_items: <<"items", seq of <<key, value>> >>, or None for a name
\* that has no value (no diagnostic is written for that), or Err.
LoopItems(v) ==
    CASE v = None -> None
      [] v[1] = "list" -> <<"items", [i \in DOMAIN v[2] |-> <<None, v[2][i]>>]>>
      [] v[1] = "coll" -> <<"items", [i \in DOMAIN v[2] |-> <<<<"key", v[2][i][1]>>, v[2][i][2]>>]>>
      [] OTHER -> Err

ItemScope(scope, binding, item) ==
    LET keyed == IF item[1] = None THEN scope
                 ELSE PushValue(scope, Append(binding, "key"), <<"str", item[1][2]>>)
    IN  PushValue(keyed, binding, item[2])

\* value_to_kdl: only a scalar that is present can be written.
Emits(v) == v # None /\ v[1] \in ScalarKinds

RefFailure(scope, refs) ==
    IF \E r \in refs : ScopeLookup(scope, r) = None THEN "UNDEFINED_REF"
    ELSE IF \E r \in refs : ~Emits(ScopeLookup(scope, r)) THEN "TYPE_MISMATCH" ELSE "ok"

(***************************************************************************)
(* One walk serves documents and outputs: cx = [inst, in, stack] says for  *)
(* which instance, whether inside a document ("doc") or at the top level   *)
(* ("out"), and which collections and fragments are being inserted.        *)
(***************************************************************************)
RECURSIVE Expand(_, _, _, _, _)
RECURSIVE Rounds(_, _, _, _, _)

\* One round of a loop per scope, until the document is given up or the
\* budget is spent.
Rounds(cx, body, scopes, depth, acc) ==
    IF scopes = <<>> \/ acc.quit \/ acc.exhausted THEN acc
    ELSE Rounds(cx, body, Tail(scopes), depth, Expand(cx, body, Head(scopes), depth, acc))

\* Rounds that the iteration budget allows.
Loop(cx, body, scopes, depth, acc) ==
    IF acc.exhausted THEN acc ELSE Rounds(cx, body, scopes, depth, acc)

When(cx, node, scope, depth, acc, v, truth) ==
    IF truth = "stuck" THEN Diag(acc, IF v = None THEN "UNDEFINED_REF" ELSE "WHEN_PREDICATE")
    ELSE Expand(cx, IF truth = "true" THEN node.then ELSE node.else, scope, depth + 1, acc)

EachLoop(cx, node, scope, depth, acc, items) ==
    IF items = None THEN Quit(acc, "each")
    ELSE IF items = Err THEN Diag(acc, "LOOP_SOURCE")
    ELSE IF Len(items[2]) > MaxCollection THEN Exceeded(acc)
    ELSE Loop(cx, node.body, [i \in DOMAIN items[2] |-> ItemScope(scope, node.binding, items[2][i])],
              depth + 1, CountIterations(acc, Len(items[2])))

RangeLoop(cx, node, scope, depth, acc, n) ==
    IF node.through < node.from THEN Quit(acc, "range")
    ELSE IF ~CheckRange(n) THEN Exceeded(acc)
    ELSE Loop(cx, node.body,
              [i \in 1..n |-> PushValue(scope, node.binding, <<"int", node.from + i - 1>>)],
              depth + 1, CountIterations(acc, n))

\* load_kdl_fragment: the single source of the fragment, None when the
\* fragment is not a cardinality-one document (no diagnostic), or Err.
LoadFragment(inst, name) ==
    IF name \notin DOMAIN inst.fragments THEN Err
    ELSE IF ~inst.fragments[name].one THEN None
    ELSE IF Len(inst.fragments[name].sources) # 1 THEN Err
    ELSE inst.fragments[name].sources[1]

Within(cx, mark) == [cx EXCEPT !.stack = @ \cup {mark}]

\* Items of the collection that are documents, in order.
Documents(v) == LET docs == SelectSeq(v[2], LAMBDA e : e[2][1] = "doc")
                IN  FlattenSeq([i \in DOMAIN docs |-> docs[i][2][2]])

InsertDocuments(cx, node, scope, depth, acc, v) ==
    IF v = None \/ v[1] # "coll" THEN [acc EXCEPT !.diags = @ \cup {"TYPE_MISMATCH"}]
    ELSE IF <<"coll", node.source>> \in cx.stack THEN Diag(acc, "KDL_GEN")
    ELSE IF Len(v[2]) > MaxCollection THEN Exceeded(acc)
    ELSE Expand(Within(cx, <<"coll", node.source>>), Documents(v), scope, depth + 1, acc)

IncludeFragment(cx, node, scope, depth, acc, d) ==
    IF <<"frag", node.fragment>> \in cx.stack THEN Diag(acc, "KDL_GEN")
    ELSE IF d = Err THEN Diag(acc, "FRAGMENT")
    ELSE IF d = None THEN Quit(acc, "include")
    ELSE Expand(Within(cx, <<"frag", node.fragment>>), d[2], scope, depth + 1, acc)

\* A node is written after its children.
WriteNode(kids, out, node, values) ==
    IF kids.quit \/ kids.exhausted THEN kids
    ELSE CountNode([kids EXCEPT !.out = out], <<node.name, values, kids.out>>)

PlainNode(cx, node, scope, depth, acc, failure) ==
    IF failure # "ok" THEN Diag(acc, failure)
    ELSE WriteNode(Expand(cx, node.kids, scope, depth + 1, [acc EXCEPT !.out = <<>>]), acc.out, node,
                   {<<r, ScopeLookup(scope, r)>> : r \in node.refs})

\* A document that was given up leaves no artifact.
Artifact(d, out, node, alias) ==
    [d EXCEPT !.out = IF d.quit \/ d.exhausted THEN out
                      ELSE Append(out, [k |-> "doc", to |-> node.to, of |-> alias, nodes |-> d.out])]

KdlConfig(cx, node, scope, depth, acc) ==
    Artifact(Expand([cx EXCEPT !.in = "doc"], node.nodes, scope, depth, [acc EXCEPT !.out = <<>>]),
             acc.out, node, cx.inst.alias)

Symlink(inst, node, acc, v) ==
    CASE v = None -> Diag(acc, "UNDEFINED_REF")
      [] v = Null -> acc
      [] v[1] \in {"path", "str"} ->
           [acc EXCEPT !.out = Append(@, [k |-> "symlink", to |-> node.to, of |-> inst.alias])]
      [] OTHER -> Diag(acc, "TYPE_MISMATCH")

LinkTarget(node, scope) == IF node.ref = None THEN <<"path", "literal">> ELSE ScopeLookup(scope, node.ref)

FileOrDir(inst, node, acc) ==
    [acc EXCEPT !.out = Append(@, [k |-> node.k, to |-> node.to, of |-> inst.alias,
                                   captured |-> node.captured, optional |-> node.optional])]

\* Controls, insertions and inclusions are one level deeper than their parent.
Nests(node) == node.k \in {"when", "each", "range", "insert", "include"}

\* expand_output and expand_kdl_nodes for one node; acc has passed the
\* nesting limit.
ExpandNode(cx, node, scope, depth, acc) ==
    CASE acc.exhausted -> acc
      [] node.k = "when" ->
           When(cx, node, scope, depth, acc, ScopeLookup(scope, node.pred.ref),
                EvalPredicate(node.pred, ScopeLookup(scope, node.pred.ref)))
      [] node.k = "each"  -> EachLoop(cx, node, scope, depth, acc, LoopItems(ScopeLookup(scope, node.source)))
      [] node.k = "range" -> RangeLoop(cx, node, scope, depth, acc, node.through - node.from + 1)
      [] node.k = "insert"  -> InsertDocuments(cx, node, scope, depth, acc, ScopeLookup(scope, node.source))
      [] node.k = "include" -> IncludeFragment(cx, node, scope, depth, acc, LoadFragment(cx.inst, node.fragment))
      [] node.k = "plain"   -> PlainNode(cx, node, scope, depth, acc, RefFailure(scope, node.refs))
      [] node.k = "doc"     -> KdlConfig(cx, node, scope, depth, acc)
      [] node.k = "symlink" -> Symlink(cx.inst, node, acc, LinkTarget(node, scope))
      [] OTHER              -> FileOrDir(cx.inst, node, acc)

\* An output that fails leaves the other outputs to be expanded; a node of a
\* document that fails ends the document; the budget stops everything.
Continue(cx, acc) == IF cx.in = "out" THEN [acc EXCEPT !.quit = FALSE] ELSE acc

Expand(cx, nodes, scope, depth, acc) ==
    IF nodes = <<>> \/ acc.quit \/ acc.exhausted THEN acc
    ELSE Expand(cx, Tail(nodes), scope, depth,
                Continue(cx, ExpandNode(cx, Head(nodes), scope, depth,
                                        IF Nests(Head(nodes)) THEN CheckNesting(acc, depth + 1) ELSE acc)))

ExpandOutputs(inst, nodes, scope, acc) ==
    Expand([inst |-> inst, in |-> "out", stack |-> {}], nodes, scope, 0, acc)
=============================================================================
